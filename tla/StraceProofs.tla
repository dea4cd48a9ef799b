---------------------------- MODULE StraceProofs ----------------------------
(***************************************************************************)
(* For every number of forks and calls, every size of the window and every *)
(* order of messages, autoruns and events: what the strace panel shows is  *)
(* a window of the selected fork's calls, and holds the position when it   *)
(* follows it.                                                             *)
(***************************************************************************)
EXTENDS Strace, FiniteSetTheorems, SequenceTheorems, WellFoundedInduction, TLAPS

-----------------------------------------------------------------------------
(* Folds over the at most two autoruns of the panel.                       *)

\* The largest of one or two positions.
LEMMA MaxOfTwo == Max({1}) = 1 /\ Max({2}) = 2 /\ Max({1, 2}) = 2
<1>1. \A x \in {1} : (\A y \in {1} : x >= y) <=> x = 1
  OBVIOUS
<1>2. \A x \in {2} : (\A y \in {2} : x >= y) <=> x = 2
  OBVIOUS
<1>3. \A x \in {1, 2} : (\A y \in {1, 2} : x >= y) <=> x = 2
  OBVIOUS
<1> QED
  BY <1>1, <1>2, <1>3 DEF Max

\* g gives the fold over every set of positions of q, from the largest down.
RunFold(g, b, q) ==
  g = [s \in SUBSET (DOMAIN q) |-> IF s = {} THEN b ELSE Run(g[s \ {Max(s)}], q[Max(s)])]

\* FoldLeft is such a function, applied to all positions.
LEMMA RunFoldChosen ==
  ASSUME NEW b, NEW q, \E h : RunFold(h, b, q)
  PROVE  \E g : RunFold(g, b, q) /\ RunAll(b, q) = g[DOMAIN q]
<1> DEFINE P(g) == g = [s \in SUBSET (DOMAIN q) |->
                          IF s = {} THEN b ELSE Run(g[s \ {Max(s)}], q[Max(s)])]
           it == CHOOSE g : P(g)
<1>1. RunAll(b, q) = it[DOMAIN q]
  BY Zenon DEF RunAll, FoldLeft, MapThenFoldSet
<1>2. \E h : P(h)
  BY DEF RunFold
<1> HIDE DEF P
<1>3. P(it)
  BY <1>2
<1>4. RunFold(it, b, q)
  BY <1>3 DEF RunFold, P
<1> QED
  BY <1>1, <1>4

\* The subsets of one and of two positions.
LEMMA Positions ==
  /\ SUBSET {1} = {{}, {1}}
  /\ SUBSET {1, 2} = {{}, {1}, {2}, {1, 2}}
  OBVIOUS

\* One autorun, or two, the first one first.
LEMMA RunsOfQueue ==
  ASSUME NEW b
  PROVE  /\ RunAll(b, <<>>) = b
         /\ \A x : RunAll(b, <<x>>) = Run(b, x)
         /\ \A x, y : RunAll(b, <<x, y>>) = Run(Run(b, x), y)
<1>1. RunAll(b, <<>>) = b
  <2> DEFINE h == [s \in SUBSET {} |-> b]
             q == << >>
  <2>1. DOMAIN q = {}
    OBVIOUS
  <2> HIDE DEF q
  <2>2. RunFold(h, b, q)
    BY <2>1 DEF RunFold
  <2>3. PICK g : RunFold(g, b, q) /\ RunAll(b, q) = g[DOMAIN q]
    BY <2>2, RunFoldChosen
  <2> QED
    BY <2>1, <2>3 DEF RunFold, q
<1>2. ASSUME NEW x PROVE RunAll(b, <<x>>) = Run(b, x)
  <2> DEFINE h == [s \in SUBSET {1} |-> IF s = {} THEN b ELSE Run(b, x)]
             q == <<x>>
  <2>1. DOMAIN q = {1} /\ q[1] = x
    OBVIOUS
  <2> HIDE DEF q
  <2>2. RunFold(h, b, q)
    <3>1. \A s \in SUBSET {1} : h[s] = IF s = {} THEN b ELSE Run(h[s \ {Max(s)}], q[Max(s)])
      BY <2>1, Positions, MaxOfTwo
    <3> QED
      BY <2>1, <3>1 DEF RunFold
  <2>3. PICK g : RunFold(g, b, q) /\ RunAll(b, q) = g[DOMAIN q]
    BY <2>2, RunFoldChosen
  <2>4. g[{}] = b /\ g[{1}] = Run(g[{1} \ {1}], q[1])
    BY <2>1, <2>3, MaxOfTwo DEF RunFold
  <2> QED
    BY <2>1, <2>3, <2>4 DEF q
<1>3. ASSUME NEW x, NEW y PROVE RunAll(b, <<x, y>>) = Run(Run(b, x), y)
  <2> DEFINE h == [s \in SUBSET {1, 2} |->
                     IF s = {} THEN b ELSE IF s = {1} THEN Run(b, x)
                     ELSE IF s = {2} THEN Run(b, y) ELSE Run(Run(b, x), y)]
             q == <<x, y>>
  <2>1. DOMAIN q = {1, 2} /\ q[1] = x /\ q[2] = y
    OBVIOUS
  <2> HIDE DEF q
  <2>2. RunFold(h, b, q)
    <3>1. {1} \ {1} = {} /\ {2} \ {2} = {} /\ {1, 2} \ {2} = {1}
      OBVIOUS
    <3>2. ASSUME NEW s \in SUBSET {1, 2}
          PROVE  h[s] = IF s = {} THEN b ELSE Run(h[s \ {Max(s)}], q[Max(s)])
      <4>1. s = {} \/ s = {1} \/ s = {2} \/ s = {1, 2}
        BY Positions
      <4> QED
        BY <2>1, <3>1, <4>1, MaxOfTwo
    <3> QED
      BY <2>1, <3>2 DEF RunFold
  <2>3. PICK g : RunFold(g, b, q) /\ RunAll(b, q) = g[DOMAIN q]
    BY <2>2, RunFoldChosen
  <2>4. /\ g[{}] = b
        /\ g[{1}] = Run(g[{1} \ {1}], q[1])
        /\ g[{1, 2}] = Run(g[{1, 2} \ {2}], q[2])
    BY <2>1, <2>3, MaxOfTwo DEF RunFold
  <2>5. {1} \ {1} = {} /\ {1, 2} \ {2} = {1}
    OBVIOUS
  <2> QED
    BY <2>1, <2>3, <2>4, <2>5 DEF q
<1> QED
  BY <1>1, <1>2, <1>3

\* The same for the loop of Session.set.
EnqueueFold(g, b, q) ==
  g = [s \in SUBSET (DOMAIN q) |-> IF s = {} THEN b ELSE Enqueue(g[s \ {Max(s)}], q[Max(s)])]

\* FoldLeft is such a function here too.
LEMMA EnqueueFoldChosen ==
  ASSUME NEW b, NEW q, \E h : EnqueueFold(h, b, q)
  PROVE  \E g : EnqueueFold(g, b, q) /\ EnqueueAll(b, q) = g[DOMAIN q]
<1> DEFINE P(g) == g = [s \in SUBSET (DOMAIN q) |->
                          IF s = {} THEN b ELSE Enqueue(g[s \ {Max(s)}], q[Max(s)])]
           it == CHOOSE g : P(g)
<1>1. EnqueueAll(b, q) = it[DOMAIN q]
  BY Zenon DEF EnqueueAll, FoldLeft, MapThenFoldSet
<1>2. \E h : P(h)
  BY DEF EnqueueFold
<1> HIDE DEF P
<1>3. P(it)
  BY <1>2
<1>4. EnqueueFold(it, b, q)
  BY <1>3 DEF EnqueueFold, P
<1> QED
  BY <1>1, <1>4

\* The autoruns of a variable are queued one after the other.
LEMMA EnqueuesOfList ==
  ASSUME NEW b
  PROVE  /\ EnqueueAll(b, <<>>) = b
         /\ \A x : EnqueueAll(b, <<x>>) = Enqueue(b, x)
         /\ \A x, y : EnqueueAll(b, <<x, y>>) = Enqueue(Enqueue(b, x), y)
<1>1. EnqueueAll(b, <<>>) = b
  <2> DEFINE h == [s \in SUBSET {} |-> b]
             q == << >>
  <2>1. DOMAIN q = {}
    OBVIOUS
  <2> HIDE DEF q
  <2>2. EnqueueFold(h, b, q)
    BY <2>1 DEF EnqueueFold
  <2>3. PICK g : EnqueueFold(g, b, q) /\ EnqueueAll(b, q) = g[DOMAIN q]
    BY <2>2, EnqueueFoldChosen
  <2> QED
    BY <2>1, <2>3 DEF EnqueueFold, q
<1>2. ASSUME NEW x PROVE EnqueueAll(b, <<x>>) = Enqueue(b, x)
  <2> DEFINE h == [s \in SUBSET {1} |-> IF s = {} THEN b ELSE Enqueue(b, x)]
             q == <<x>>
  <2>1. DOMAIN q = {1} /\ q[1] = x
    OBVIOUS
  <2> HIDE DEF q
  <2>2. EnqueueFold(h, b, q)
    <3>1. \A s \in SUBSET {1} : h[s] = IF s = {} THEN b ELSE Enqueue(h[s \ {Max(s)}], q[Max(s)])
      BY <2>1, Positions, MaxOfTwo
    <3> QED
      BY <2>1, <3>1 DEF EnqueueFold
  <2>3. PICK g : EnqueueFold(g, b, q) /\ EnqueueAll(b, q) = g[DOMAIN q]
    BY <2>2, EnqueueFoldChosen
  <2>4. g[{}] = b /\ g[{1}] = Enqueue(g[{1} \ {1}], q[1])
    BY <2>1, <2>3, MaxOfTwo DEF EnqueueFold
  <2> QED
    BY <2>1, <2>3, <2>4 DEF q
<1>3. ASSUME NEW x, NEW y PROVE EnqueueAll(b, <<x, y>>) = Enqueue(Enqueue(b, x), y)
  <2> DEFINE h == [s \in SUBSET {1, 2} |->
                     IF s = {} THEN b ELSE IF s = {1} THEN Enqueue(b, x)
                     ELSE IF s = {2} THEN Enqueue(b, y) ELSE Enqueue(Enqueue(b, x), y)]
             q == <<x, y>>
  <2>1. DOMAIN q = {1, 2} /\ q[1] = x /\ q[2] = y
    OBVIOUS
  <2> HIDE DEF q
  <2>2. EnqueueFold(h, b, q)
    <3>1. {1} \ {1} = {} /\ {2} \ {2} = {} /\ {1, 2} \ {2} = {1}
      OBVIOUS
    <3>2. ASSUME NEW s \in SUBSET {1, 2}
          PROVE  h[s] = IF s = {} THEN b ELSE Enqueue(h[s \ {Max(s)}], q[Max(s)])
      <4>1. s = {} \/ s = {1} \/ s = {2} \/ s = {1, 2}
        BY Positions
      <4> QED
        BY <2>1, <3>1, <4>1, MaxOfTwo
    <3> QED
      BY <2>1, <3>2 DEF EnqueueFold
  <2>3. PICK g : EnqueueFold(g, b, q) /\ EnqueueAll(b, q) = g[DOMAIN q]
    BY <2>2, EnqueueFoldChosen
  <2>4. /\ g[{}] = b
        /\ g[{1}] = Enqueue(g[{1} \ {1}], q[1])
        /\ g[{1, 2}] = Enqueue(g[{1, 2} \ {2}], q[2])
    BY <2>1, <2>3, MaxOfTwo DEF EnqueueFold
  <2>5. {1} \ {1} = {} /\ {1, 2} \ {2} = {1}
    OBVIOUS
  <2> QED
    BY <2>1, <2>3, <2>4, <2>5 DEF q
<1> QED
  BY <1>1, <1>2, <1>3

-----------------------------------------------------------------------------
(* The window.                                                             *)

\* The window for i calls out of n has its size, starts in the list, and holds
\* call i and the one after it, if they exist.
LEMMA WindowIs ==
  ASSUME NEW i \in Nat, NEW n \in Nat, i <= n
  PROVE  /\ Window(i, n) \in Nat \X Nat
         /\ Window(i, n)[2] = Window(i, n)[1] + WindowSize
         /\ i >= 1 => Window(i, n)[1] < i
         /\ i < n => i + 1 <= Window(i, n)[2]
         /\ i >= 1 => i <= Window(i, n)[2]
         /\ Window(i, n)[1] < i + 1
<1> DEFINE min == IF i > Before THEN i - Before ELSE 0
           off == IF min + WindowSize > n THEN min + WindowSize - n ELSE 0
           fix == IF min - off < 0 THEN off - min ELSE 0
<1>1. Window(i, n) = <<min - off + fix, min + WindowSize - off + fix>>
  BY DEF Window
<1>2. WindowSize \in Nat /\ Before \in Nat /\ Before >= 1 /\ Before < WindowSize
  BY WindowAssumption
<1>3. min \in Nat /\ min <= i /\ (i >= 1 => min < i) /\ i - min <= Before
  BY <1>2
<1> HIDE DEF min
<1>4. off \in Nat /\ off = IF min + WindowSize > n THEN min + WindowSize - n ELSE 0
  BY <1>2, <1>3
<1> HIDE DEF off
<1>5. fix \in Nat /\ min - off + fix = IF off > min THEN 0 ELSE min - off
  BY <1>3, <1>4
<1> HIDE DEF fix
<1>6. PICK a \in Nat : a = min - off + fix
  BY <1>3, <1>4, <1>5
<1>7. min + WindowSize - off + fix = a + WindowSize
  BY <1>2, <1>3, <1>4, <1>5, <1>6
<1>8. a <= min /\ (a + WindowSize >= n \/ a = min)
  BY <1>2, <1>3, <1>4, <1>5, <1>6
<1>9. Window(i, n) = <<a, a + WindowSize>>
  BY <1>1, <1>6, <1>7
<1> QED
  BY <1>2, <1>3, <1>8, <1>9

\* There are no more calls up to a clnum than calls.
LEMMA CallsBounded ==
  ASSUME NEW t \in Seq(Nat), NEW clnum
  PROVE  CallsUpTo(t, clnum) \in Nat /\ CallsUpTo(t, clnum) <= Len(t) /\ Len(t) \in Nat
<1> DEFINE S == {i \in DOMAIN t : t[i] <= clnum}
<1>1. DOMAIN t = 1 .. Len(t) /\ Len(t) \in Nat
  OBVIOUS
<1>2. IsFiniteSet(1 .. Len(t)) /\ Cardinality(1 .. Len(t)) = Len(t)
  BY <1>1, FS_Interval
<1>3. S \in SUBSET (1 .. Len(t))
  BY <1>1
<1> HIDE DEF S
<1>4. IsFiniteSet(S) /\ Cardinality(S) <= Cardinality(1 .. Len(t))
  BY <1>2, <1>3, FS_Subset
<1>5. Cardinality(S) \in Nat
  BY <1>4, FS_CardinalityType
<1> QED
  BY <1>1, <1>2, <1>4, <1>5 DEF CallsUpTo, S

\* The smaller of two numbers.
LEMMA MinOfTwo ==
  ASSUME NEW k \in Nat, NEW l \in Nat
  PROVE  Min({k, l}) = IF k <= l THEN k ELSE l
<1> DEFINE m == IF k <= l THEN k ELSE l
<1>1. m \in {k, l} /\ \A x \in {k, l} : (\A y \in {k, l} : x <= y) <=> x = m
  OBVIOUS
<1> QED
  BY <1>1 DEF Min

\* The calls in a window are those at its positions, as far as there are any.
LEMMA SliceIs ==
  ASSUME NEW t \in Seq(Nat), NEW w \in Nat \X Nat
  PROVE  /\ Slice(t, w) \in Seq(Nat)
         /\ \A j \in DOMAIN t : w[1] < j /\ j <= w[2] => Contains(Slice(t, w), t[j])
<1> DEFINE m == Min({w[2], Len(t)})
<1>1. PICK b \in Nat, k \in Nat, l \in Nat : b = w[1] /\ k = w[2] /\ l = Len(t)
  OBVIOUS
<1>2. m = IF k <= l THEN k ELSE l
  BY <1>1, MinOfTwo
<1> HIDE DEF m
<1>3. m \in Nat /\ m <= l /\ DOMAIN t = 1 .. l
  BY <1>1, <1>2
<1> DEFINE c == SubSeq(t, b + 1, m)
<1>4. c \in Seq(Nat)
  BY <1>1, <1>3
<1>5. ASSUME NEW j \in DOMAIN t, b < j, j <= k PROVE Contains(c, t[j])
  <2>1. j \in Nat /\ j <= m /\ b + 1 <= m
    BY <1>2, <1>3, <1>5
  <2>2. Len(c) = m - b
    BY <1>1, <1>3, <2>1
  <2>3. j - b \in Nat /\ j - b >= 1 /\ j - b <= m - b /\ b + 1 + (j - b) - 1 = j
    BY <1>3, <1>5, <2>1
  <2>4. \A i \in b + 1 .. m : t[i] \in Nat
    BY <1>1, <1>3
  <2>5. \A i \in 1 .. m - (b + 1) + 1 : c[i] = t[b + 1 + i - 1]
    <3>1. b + 1 \in Int /\ m \in Int
      BY <1>3
    <3> QED
      BY <2>4, <3>1, SubSeqProperties
  <2> HIDE DEF c
  <2>6. j - b \in 1 .. m - (b + 1) + 1 /\ j - b \in 1 .. Len(c)
    BY <1>3, <2>2, <2>3
  <2>7. c[j - b] = t[j]
    BY <2>3, <2>5, <2>6
  <2> QED
    BY <2>6, <2>7 DEF Contains
<1>6. Slice(t, w) = c
  BY <1>1 DEF Slice, m
<1> QED
  BY <1>1, <1>4, <1>5, <1>6

-----------------------------------------------------------------------------
(* Pages.                                                                  *)

SessionVars == {"sview", "forknum", "clnum"}

Queues == {<<>>, <<"redraw">>, <<"update">>, <<"redraw", "update">>, <<"update", "redraw">>}

Pages ==
  [s : [sview : Nat \X Nat, forknum : Forks \cup {None}, clnum : Nat \cup {None}],
   deps : [SessionVars -> Queues],
   pend : Queues,
   traces : [Forks \cup {None} -> Seq(Nat) \cup {None}],
   shown : Seq(Nat)]

\* The two autoruns are registered, and the window has its size.
PageOK(p) ==
  /\ p \in Pages
  /\ p.deps["sview"] = <<"redraw">>
  /\ p.deps["forknum"] = <<"redraw", "update">>
  /\ p.deps["clnum"] = <<"update">>
  /\ p.s.sview[2] = p.s.sview[1] + WindowSize
  /\ p.traces[None] = None

Waits(p, fxn) == Contains(p.pend, fxn)

Selected(p) == p.traces[p.s.forknum]

\* The panel shows the window.
Shown(p) == Selected(p) # None => p.shown = Slice(Selected(p), p.s.sview)

\* The window is where the position puts it.
AtPosition(p) ==
  Selected(p) # None => p.s.sview = Window(CallsUpTo(Selected(p), p.s.clnum), Len(Selected(p)))

\* Which autoruns wait in a queue.
LEMMA WaitingIn ==
  ASSUME NEW q \in Queues
  PROVE  /\ Contains(q, "redraw") <=> q \in Queues \ {<<>>, <<"update">>}
         /\ Contains(q, "update") <=> q \in Queues \ {<<>>, <<"redraw">>}
  BY DEF Queues, Contains

\* What push makes of short queues.
LEMMA Appended ==
  ASSUME NEW x, NEW y
  PROVE  Append(<<>>, x) = <<x>> /\ Append(<<x>>, y) = <<x, y>>
<1> DEFINE T == {x, y}
<1>1. <<>> \in Seq(T) /\ <<x>> \in Seq(T) /\ x \in T /\ y \in T
  OBVIOUS
<1>2. /\ Len(<<>>) = 0 /\ Len(<<x>>) = 1 /\ Len(<<x, y>>) = 2
      /\ <<x>>[1] = x /\ <<x, y>>[1] = x /\ <<x, y>>[2] = y
  OBVIOUS
<1>3. Append(<<>>, x) = <<x>>
  BY <1>1, <1>2
<1>4. Append(<<x>>, y) = <<x, y>>
  <2> DEFINE a == Append(<<x>>, y)
             b == <<x, y>>
  <2>1. a \in Seq(T) /\ Len(a) = 2 /\ a[1] = x /\ a[2] = y
    BY <1>1, <1>2
  <2>2. b \in Seq(T) /\ Len(b) = 2 /\ b[1] = x /\ b[2] = y
    OBVIOUS
  <2> HIDE DEF a, b, T
  <2>3. \A i \in 1 .. Len(a) : a[i] = b[i]
    BY <2>1, <2>2
  <2>4. a = b
    BY <2>1, <2>2, <2>3, SeqEqual
  <2> QED
    BY <2>4 DEF a, b
<1> QED
  BY <1>3, <1>4

\* Queueing keeps what waits and adds what is not there.
LEMMA Queued ==
  ASSUME NEW q \in Queues
  PROVE  /\ EnqueueAll(q, <<"redraw">>) \in Queues
         /\ Contains(EnqueueAll(q, <<"redraw">>), "redraw")
         /\ Contains(EnqueueAll(q, <<"redraw">>), "update") <=> Contains(q, "update")
         /\ EnqueueAll(q, <<"update">>) \in Queues
         /\ Contains(EnqueueAll(q, <<"update">>), "update")
         /\ Contains(EnqueueAll(q, <<"update">>), "redraw") <=> Contains(q, "redraw")
         /\ EnqueueAll(q, <<"redraw", "update">>) \in Queues
         /\ Contains(EnqueueAll(q, <<"redraw", "update">>), "redraw")
         /\ Contains(EnqueueAll(q, <<"redraw", "update">>), "update")
<1>1. /\ Enqueue(q, "redraw") \in Queues
      /\ Contains(Enqueue(q, "redraw"), "redraw")
      /\ Contains(Enqueue(q, "redraw"), "update") <=> Contains(q, "update")
  <2>1. CASE q = <<>>
    <3>1. Enqueue(q, "redraw") = <<"redraw">>
      BY <2>1, WaitingIn, Appended DEF Enqueue, Queues
    <3> QED
      BY <2>1, <3>1, WaitingIn DEF Queues
  <2>2. CASE q = <<"update">>
    <3>1. Enqueue(q, "redraw") = <<"update", "redraw">>
      BY <2>2, WaitingIn, Appended DEF Enqueue, Queues
    <3> QED
      BY <2>2, <3>1, WaitingIn DEF Queues
  <2>3. CASE q \notin {<<>>, <<"update">>}
    BY <2>3, WaitingIn DEF Enqueue
  <2> QED
    BY <2>1, <2>2, <2>3
<1>2. ASSUME NEW r \in Queues
      PROVE  /\ Enqueue(r, "update") \in Queues
             /\ Contains(Enqueue(r, "update"), "update")
             /\ Contains(Enqueue(r, "update"), "redraw") <=> Contains(r, "redraw")
  <2>1. CASE r = <<>>
    <3>1. Enqueue(r, "update") = <<"update">>
      BY <2>1, WaitingIn, Appended DEF Enqueue, Queues
    <3> QED
      BY <2>1, <3>1, WaitingIn DEF Queues
  <2>2. CASE r = <<"redraw">>
    <3>1. Enqueue(r, "update") = <<"redraw", "update">>
      BY <2>2, WaitingIn, Appended DEF Enqueue, Queues
    <3> QED
      BY <2>2, <3>1, WaitingIn DEF Queues
  <2>3. CASE r \notin {<<>>, <<"redraw">>}
    BY <2>3, WaitingIn DEF Enqueue
  <2> QED
    BY <2>1, <2>2, <2>3
<1>3. /\ EnqueueAll(q, <<"redraw">>) = Enqueue(q, "redraw")
      /\ EnqueueAll(q, <<"update">>) = Enqueue(q, "update")
      /\ EnqueueAll(q, <<"redraw", "update">>) = Enqueue(Enqueue(q, "redraw"), "update")
  BY EnqueuesOfList
<1> QED
  BY <1>1, <1>2, <1>3

-----------------------------------------------------------------------------
(* What the functions of the page do to it.                                *)

\* Session.set changes one variable and the queue.
LEMMA SetFields ==
  ASSUME NEW p, PageOK(p), NEW name \in SessionVars, NEW data
  PROVE  /\ Set(p, name, data).s = [p.s EXCEPT ![name] = data]
         /\ Set(p, name, data).deps = p.deps
         /\ Set(p, name, data).pend = EnqueueAll(p.pend, p.deps[name])
         /\ Set(p, name, data).traces = p.traces
         /\ Set(p, name, data).shown = p.shown
         /\ DOMAIN Set(p, name, data) = DOMAIN p
  BY DEF Set, PageOK, Pages

\* A new window is drawn later.
LEMMA SetSview ==
  ASSUME NEW p, PageOK(p), NEW w \in Nat \X Nat, w[2] = w[1] + WindowSize
  PROVE  /\ PageOK(Set(p, "sview", w))
         /\ Set(p, "sview", w).s = [p.s EXCEPT !.sview = w]
         /\ Set(p, "sview", w).traces = p.traces
         /\ Waits(Set(p, "sview", w), "redraw")
<1> DEFINE q == Set(p, "sview", w)
<1>1. p.deps["sview"] = <<"redraw">> /\ p.pend \in Queues
  BY DEF PageOK, Pages
<1>2. EnqueueAll(p.pend, p.deps["sview"]) \in Queues
  BY <1>1, Queued
<1>3. Contains(EnqueueAll(p.pend, p.deps["sview"]), "redraw")
  BY <1>1, Queued
<1>4. q.pend = EnqueueAll(p.pend, p.deps["sview"]) /\ q.s = [p.s EXCEPT !.sview = w] /\ q.traces = p.traces
  BY SetFields DEF SessionVars
<1>5. PageOK(q)
  BY <1>2 DEF PageOK, Pages, Set
<1> QED
  BY <1>3, <1>4, <1>5 DEF Waits

\* Another fork is drawn and followed later.
LEMMA SetForknum ==
  ASSUME NEW p, PageOK(p), NEW f \in Forks
  PROVE  /\ PageOK(Set(p, "forknum", f))
         /\ Waits(Set(p, "forknum", f), "redraw")
         /\ Waits(Set(p, "forknum", f), "update")
<1> DEFINE q == Set(p, "forknum", f)
<1>1. p.deps["forknum"] = <<"redraw", "update">> /\ p.pend \in Queues
  BY DEF PageOK, Pages
<1>2. EnqueueAll(p.pend, p.deps["forknum"]) \in Queues
  BY <1>1, Queued
<1>3. /\ Contains(EnqueueAll(p.pend, p.deps["forknum"]), "redraw")
      /\ Contains(EnqueueAll(p.pend, p.deps["forknum"]), "update")
  BY <1>1, Queued
<1>4. q.pend = EnqueueAll(p.pend, p.deps["forknum"])
  BY SetFields DEF SessionVars
<1>5. PageOK(q)
  BY <1>2 DEF PageOK, Pages, Set
<1> QED
  BY <1>3, <1>4, <1>5 DEF Waits

\* Another position is followed later, and what is drawn stays.
LEMMA SetClnum ==
  ASSUME NEW p, PageOK(p), NEW n \in Nat
  PROVE  /\ PageOK(Set(p, "clnum", n))
         /\ Waits(Set(p, "clnum", n), "update")
         /\ Waits(p, "redraw") => Waits(Set(p, "clnum", n), "redraw")
         /\ Shown(p) => Shown(Set(p, "clnum", n))
<1> DEFINE q == Set(p, "clnum", n)
<1>1. p.deps["clnum"] = <<"update">> /\ p.pend \in Queues
  BY DEF PageOK, Pages
<1>2. EnqueueAll(p.pend, p.deps["clnum"]) \in Queues
  BY <1>1, Queued
<1>3. /\ Contains(EnqueueAll(p.pend, p.deps["clnum"]), "update")
      /\ Contains(p.pend, "redraw") => Contains(EnqueueAll(p.pend, p.deps["clnum"]), "redraw")
  BY <1>1, Queued
<1>4. /\ q.pend = EnqueueAll(p.pend, p.deps["clnum"])
      /\ q.s = [p.s EXCEPT !.clnum = n] /\ q.traces = p.traces /\ q.shown = p.shown
  BY SetFields DEF SessionVars
<1>5. PageOK(q)
  BY <1>2 DEF PageOK, Pages, Set
<1>6. q.s.forknum = p.s.forknum /\ q.s.sview = p.s.sview
  BY <1>4 DEF PageOK, Pages
<1>7. Shown(p) => Shown(q)
  BY <1>4, <1>6 DEF Shown, Selected
<1> QED
  BY <1>3, <1>4, <1>5, <1>7 DEF Waits

\* redraw_strace shows the window and changes nothing else.
LEMMA RedrawShows ==
  ASSUME NEW p, PageOK(p)
  PROVE  /\ PageOK(RedrawStrace(p)) /\ Shown(RedrawStrace(p))
         /\ RedrawStrace(p).s = p.s /\ RedrawStrace(p).pend = p.pend
         /\ RedrawStrace(p).traces = p.traces
<1> DEFINE t == Selected(p)
           q == [p EXCEPT !.shown = Slice(t, p.s.sview)]
<1>1. CASE p.s.forknum = None \/ t = None
  <2>1. RedrawStrace(p) = p
    BY <1>1 DEF RedrawStrace, Selected
  <2>2. t = None
    BY <1>1 DEF PageOK, Selected
  <2> QED
    BY <2>1, <2>2 DEF Shown
<1>2. CASE ~(p.s.forknum = None \/ t = None)
  <2>1. RedrawStrace(p) = q
    BY <1>2 DEF RedrawStrace, Selected
  <2>2. t \in Seq(Nat) /\ p.s.sview \in Nat \X Nat
    BY <1>2 DEF PageOK, Pages, Selected
  <2>3. Slice(t, p.s.sview) \in Seq(Nat)
    BY <2>2, SliceIs
  <2>4. q.s = p.s /\ q.pend = p.pend /\ q.traces = p.traces /\ q.shown = Slice(t, p.s.sview)
    BY DEF PageOK, Pages
  <2>5. PageOK(q)
    BY <2>3 DEF PageOK, Pages
  <2>6. Shown(q)
    BY <2>4 DEF Shown, Selected
  <2> QED
    BY <2>1, <2>4, <2>5, <2>6
<1> QED
  BY <1>1, <1>2

\* "updating sview on fork/cl change" puts the window at the position; what is
\* not drawn now will be.
LEMMA UpdateFollows ==
  ASSUME NEW p, PageOK(p)
  PROVE  /\ PageOK(UpdateSview(p)) /\ AtPosition(UpdateSview(p))
         /\ Waits(UpdateSview(p), "redraw") \/ Shown(UpdateSview(p))
<1> DEFINE t == Selected(p)
           w == Window(CallsUpTo(t, p.s.clnum), Len(t))
           q == Set(p, "sview", w)
<1>1. CASE p.s.forknum = None \/ t = None
  <2>1. UpdateSview(p) = p
    BY <1>1 DEF UpdateSview, Selected
  <2>2. t = None
    BY <1>1 DEF PageOK, Selected
  <2> QED
    BY <2>1, <2>2 DEF Shown, AtPosition
<1>2. CASE ~(p.s.forknum = None \/ t = None)
  <2>1. UpdateSview(p) = q
    BY <1>2 DEF UpdateSview, Selected
  <2>2. t \in Seq(Nat)
    BY <1>2 DEF PageOK, Pages, Selected
  <2>3. w \in Nat \X Nat /\ w[2] = w[1] + WindowSize
    BY <2>2, CallsBounded, WindowIs
  <2> HIDE DEF w
  <2>4. /\ PageOK(q) /\ q.s = [p.s EXCEPT !.sview = w] /\ q.traces = p.traces
        /\ Waits(q, "redraw")
    BY <2>3, SetSview
  <2>5. q.s.sview = w /\ q.s.forknum = p.s.forknum /\ q.s.clnum = p.s.clnum
    BY <2>4 DEF PageOK, Pages
  <2>6. AtPosition(q)
    BY <2>4, <2>5 DEF AtPosition, Selected, w
  <2> QED
    BY <2>1, <2>4, <2>6
<1> QED
  BY <1>1, <1>2

-----------------------------------------------------------------------------
(* The inductive invariant.                                                *)

\* What is not drawn will be.
Drawn(p) == Waits(p, "redraw") \/ Shown(p)

\* A window that follows the position is there or will be.
Following(p) == Waits(p, "update") \/ AtPosition(p)

StraceInv ==
  /\ PageOK(page)
  /\ made \in [Forks -> Seq(Nat)]
  /\ toClient \in Seq(Forks \X Seq(Nat))
  /\ followed \in BOOLEAN
  /\ Drawn(page)
  /\ followed => Following(page)

\* The autoruns of variable n when another one is registered.
Registered(p, fxn, tracked, n) == IF n \in tracked THEN Append(p.deps[n], fxn) ELSE p.deps[n]

\* Registering an autorun changes the dependencies only.
LEMMA AutorunIs ==
  ASSUME NEW p \in Pages, NEW fxn, NEW tracked,
         \A n \in SessionVars : Registered(p, fxn, tracked, n) \in Queues
  PROVE  /\ Autorun(p, fxn, tracked) \in Pages
         /\ Autorun(p, fxn, tracked).s = p.s /\ Autorun(p, fxn, tracked).pend = p.pend
         /\ Autorun(p, fxn, tracked).traces = p.traces /\ Autorun(p, fxn, tracked).shown = p.shown
         /\ \A n \in SessionVars :
              Autorun(p, fxn, tracked).deps[n] = Registered(p, fxn, tracked, n)
<1> DEFINE d == [n \in SessionVars |-> Registered(p, fxn, tracked, n)]
<1>1. d \in [SessionVars -> Queues]
  OBVIOUS
<1>2. Autorun(p, fxn, tracked) = [p EXCEPT !.deps = d]
  BY DEF Autorun, Pages, Registered
<1>3. \A n \in SessionVars : d[n] = Registered(p, fxn, tracked, n)
  OBVIOUS
<1> HIDE DEF d
<1>4. [p EXCEPT !.deps = d] \in Pages /\ [p EXCEPT !.deps = d].deps = d
  BY <1>1 DEF Pages
<1>5. /\ [p EXCEPT !.deps = d].s = p.s /\ [p EXCEPT !.deps = d].pend = p.pend
      /\ [p EXCEPT !.deps = d].traces = p.traces /\ [p EXCEPT !.deps = d].shown = p.shown
  BY DEF Pages
<1> QED
  BY <1>2, <1>3, <1>4, <1>5

\* The script registers both autoruns, and no fork is selected.
LEMMA StraceInit == Init => StraceInv
<1> SUFFICES ASSUME Init PROVE StraceInv
  OBVIOUS
<1> DEFINE none == [sview |-> None, forknum |-> None, clnum |-> None]
           n1 == [sview |-> <<0, WindowSize>>, forknum |-> None, clnum |-> None]
           traces == [f \in Forks \cup {None} |-> None]
           fresh == [s |-> none, deps |-> [n \in DOMAIN none |-> <<>>], pend |-> <<>>,
                     traces |-> traces, shown |-> <<>>]
           p == [s |-> n1, deps |-> [n \in DOMAIN none |-> <<>>], pend |-> <<>>,
                 traces |-> traces, shown |-> <<>>]
           q == Autorun(p, "redraw", {"forknum", "sview"})
           r == Autorun(q, "update", {"forknum", "clnum"})
<1>1. DOMAIN none = SessionVars
  BY DEF SessionVars
<1>2. SetDefault(fresh, "sview", <<0, WindowSize>>) = p
  <2>1. EnqueueAll(<<>>, <<>>) = <<>>
    BY EnqueuesOfList
  <2>2. fresh.deps["sview"] = <<>>
    BY <1>1 DEF SessionVars
  <2>3. [none EXCEPT !["sview"] = <<0, WindowSize>>] = n1
    OBVIOUS
  <2>4. Set(fresh, "sview", <<0, WindowSize>>) = p
    <3>1. Set(fresh, "sview", <<0, WindowSize>>)
            = [fresh EXCEPT !.s = [none EXCEPT !["sview"] = <<0, WindowSize>>], !.pend = <<>>]
      BY <2>1, <2>2 DEF Set
    <3> HIDE DEF none, n1
    <3> QED
      BY <2>3, <3>1
  <2> QED
    BY <2>4 DEF SetDefault
<1>3. Run(p, "redraw") = p
  BY DEF Run, RedrawStrace
<1>4. p \in Pages
  <2>1. n1 \in [sview : Nat \X Nat, forknum : Forks \cup {None}, clnum : Nat \cup {None}]
    BY WindowAssumption
  <2>2. [n \in DOMAIN none |-> <<>>] \in [SessionVars -> Queues] /\ <<>> \in Queues
    BY <1>1 DEF Queues
  <2>3. traces \in [Forks \cup {None} -> Seq(Nat) \cup {None}] /\ <<>> \in Seq(Nat)
    OBVIOUS
  <2> HIDE DEF n1, none, traces
  <2> QED
    BY <2>1, <2>2, <2>3 DEF Pages
<1>5. /\ p.s = n1 /\ p.pend = <<>> /\ p.traces = traces /\ p.shown = <<>>
      /\ \A n \in SessionVars : p.deps[n] = <<>>
  BY <1>1
<1> HIDE DEF p
<1>6. /\ q \in Pages /\ q.s = n1 /\ q.pend = <<>> /\ q.traces = traces /\ q.shown = <<>>
      /\ q.deps["sview"] = <<"redraw">> /\ q.deps["forknum"] = <<"redraw">> /\ q.deps["clnum"] = <<>>
  <2>1. \A n \in SessionVars :
          Registered(p, "redraw", {"forknum", "sview"}, n)
            = IF n \in {"forknum", "sview"} THEN <<"redraw">> ELSE <<>>
    BY <1>5, Appended DEF Registered
  <2>2. \A n \in SessionVars : Registered(p, "redraw", {"forknum", "sview"}, n) \in Queues
    BY <2>1 DEF Queues
  <2>3. /\ q \in Pages /\ q.s = p.s /\ q.pend = p.pend
        /\ q.traces = p.traces /\ q.shown = p.shown
        /\ \A n \in SessionVars : q.deps[n] = Registered(p, "redraw", {"forknum", "sview"}, n)
    BY <1>4, <1>5, <2>2, AutorunIs
  <2> HIDE DEF q, n1, traces
  <2> QED
    BY <1>4, <1>5, <2>1, <2>3 DEF SessionVars
<1> HIDE DEF q
<1>7. Run(q, "update") = q
  BY <1>6 DEF Run, UpdateSview
<1>8. page = r
  BY <1>2, <1>3, <1>7 DEF Init, StraceScript, FreshSession, q
<1>9. /\ r \in Pages /\ r.s = n1 /\ r.pend = <<>> /\ r.traces = traces /\ r.shown = <<>>
      /\ r.deps["sview"] = <<"redraw">> /\ r.deps["forknum"] = <<"redraw", "update">>
      /\ r.deps["clnum"] = <<"update">>
  <2>1. \A n \in SessionVars :
          Registered(q, "update", {"forknum", "clnum"}, n)
            = IF n = "forknum" THEN <<"redraw", "update">>
              ELSE IF n = "clnum" THEN <<"update">> ELSE <<"redraw">>
    BY <1>6, Appended DEF SessionVars, Registered
  <2>2. \A n \in SessionVars : Registered(q, "update", {"forknum", "clnum"}, n) \in Queues
    BY <2>1 DEF Queues
  <2>3. /\ r \in Pages /\ r.s = q.s /\ r.pend = q.pend
        /\ r.traces = q.traces /\ r.shown = q.shown
        /\ \A n \in SessionVars : r.deps[n] = Registered(q, "update", {"forknum", "clnum"}, n)
    BY <1>6, <2>2, AutorunIs
  <2> HIDE DEF r, n1, traces
  <2> QED
    BY <1>6, <2>1, <2>3 DEF SessionVars
<1> HIDE DEF r
<1>10. PageOK(r)
  BY <1>9, WindowAssumption DEF PageOK
<1>11. Shown(r)
  BY <1>9 DEF Shown, Selected
<1>12. made \in [Forks -> Seq(Nat)] /\ toClient \in Seq(Forks \X Seq(Nat)) /\ followed = FALSE
  BY DEF Init
<1> QED
  BY <1>8, <1>10, <1>11, <1>12 DEF StraceInv, Drawn

\* There is a first fork.
LEMMA FirstFork == Min(Forks) \in Forks
<1> DEFINE R == {ss \in Nat \X Nat : ss[1] < ss[2]}
<1>1. IsWellFoundedOn(R, Nat)
  BY NatLessThanWellFounded DEF OpToRel
<1>2. \A x, y \in Nat : <<y, x>> \in R <=> y < x
  OBVIOUS
<1> HIDE DEF R
<1>3. PICK x \in Forks : \A y \in Forks : ~(<<y, x>> \in R)
  BY <1>1, WFMin, ForksAssumption
<1>4. \A y \in Forks : x <= y
  <2>1. x \in Nat /\ \A y \in Forks : y \in Nat
    BY ForksAssumption
  <2>2. \A y \in Forks : ~(y < x)
    BY <1>2, <1>3, <2>1
  <2> QED
    BY <2>1, <2>2
<1> QED
  BY <1>4 DEF Min

\* The queue is taken, and the page is otherwise the same.
LEMMA TakePendKeeps ==
  ASSUME NEW p, PageOK(p)
  PROVE  /\ PageOK(TakePend(p)) /\ TakePend(p).pend = <<>>
         /\ Shown(TakePend(p)) <=> Shown(p)
         /\ AtPosition(TakePend(p)) <=> AtPosition(p)
<1>1. /\ TakePend(p).s = p.s /\ TakePend(p).traces = p.traces
      /\ TakePend(p).shown = p.shown /\ TakePend(p).pend = <<>>
  BY DEF PageOK, Pages, TakePend
<1>2. PageOK(TakePend(p))
  BY DEF PageOK, Pages, TakePend, Queues
<1> QED
  BY <1>1, <1>2 DEF Shown, AtPosition, Selected

\* A redraw leaves the window where it is.
LEMMA RedrawStays ==
  ASSUME NEW p, PageOK(p)
  PROVE  AtPosition(RedrawStrace(p)) <=> AtPosition(p)
  BY RedrawShows DEF AtPosition, Selected

\* Session._process: whatever waits, everything is drawn afterwards or will be,
\* and the window follows the position if it did or if the autorun ran.
LEMMA ProcessKeeps ==
  ASSUME NEW p, PageOK(p), Drawn(p)
  PROVE  /\ PageOK(RunAll(TakePend(p), p.pend))
         /\ Drawn(RunAll(TakePend(p), p.pend))
         /\ Waits(p, "update") \/ AtPosition(p) => AtPosition(RunAll(TakePend(p), p.pend))
<1> DEFINE b == TakePend(p)
<1>1. PageOK(b) /\ (Shown(b) <=> Shown(p)) /\ (AtPosition(b) <=> AtPosition(p))
  BY TakePendKeeps
<1>2. p.pend \in Queues
  BY DEF PageOK, Pages
<1> HIDE DEF b
<1>3. CASE p.pend = <<>>
  <2>1. RunAll(b, p.pend) = b
    BY <1>3, RunsOfQueue
  <2>2. ~Waits(p, "redraw") /\ ~Waits(p, "update")
    BY <1>2, <1>3, WaitingIn DEF Waits
  <2> QED
    BY <1>1, <2>1, <2>2 DEF Drawn, b
<1>4. CASE p.pend = <<"redraw">>
  <2>1. RunAll(b, p.pend) = RedrawStrace(b)
    BY <1>4, RunsOfQueue DEF Run
  <2>2. ~Waits(p, "update")
    BY <1>2, <1>4, WaitingIn DEF Waits, Queues
  <2> QED
    BY <1>1, <2>1, <2>2, RedrawShows, RedrawStays DEF Drawn, b
<1>5. CASE p.pend = <<"update">>
  <2>1. RunAll(b, p.pend) = UpdateSview(b)
    BY <1>5, RunsOfQueue DEF Run
  <2> QED
    BY <1>1, <2>1, UpdateFollows DEF Drawn, b
<1>6. CASE p.pend = <<"redraw", "update">>
  <2>1. RunAll(b, p.pend) = UpdateSview(RedrawStrace(b))
    BY <1>6, RunsOfQueue DEF Run
  <2>2. PageOK(RedrawStrace(b))
    BY <1>1, RedrawShows
  <2> QED
    BY <2>1, <2>2, UpdateFollows DEF Drawn, b
<1>7. CASE p.pend = <<"update", "redraw">>
  <2>1. RunAll(b, p.pend) = RedrawStrace(UpdateSview(b))
    BY <1>7, RunsOfQueue DEF Run
  <2>2. PageOK(UpdateSview(b)) /\ AtPosition(UpdateSview(b))
    BY <1>1, UpdateFollows
  <2> QED
    BY <2>1, <2>2, RedrawShows, RedrawStays DEF Drawn, b
<1> QED
  BY <1>2, <1>3, <1>4, <1>5, <1>6, <1>7 DEF Queues

\* on_strace draws the calls of a fork; the window of the others stays.
LEMMA DeliverKeeps ==
  ASSUME NEW p, PageOK(p), NEW f \in Forks, NEW dat \in Seq(Nat)
  PROVE  /\ PageOK(OnStrace(p, f, dat)) /\ Drawn(OnStrace(p, f, dat))
         /\ f # p.s.forknum /\ Following(p) => Following(OnStrace(p, f, dat))
<1> DEFINE q == [p EXCEPT !.traces[f] = dat]
<1>1. q.s = p.s /\ q.pend = p.pend /\ q.traces = [p.traces EXCEPT ![f] = dat]
  BY DEF PageOK, Pages
<1>2. PageOK(q)
  <2>1. q \in Pages
    BY DEF PageOK, Pages
  <2>2. q.traces[None] = None
    BY <1>1, ForksAssumption DEF PageOK, Pages
  <2>3. q.deps = p.deps
    BY DEF PageOK, Pages
  <2> HIDE DEF q
  <2> QED
    BY <1>1, <2>1, <2>2, <2>3 DEF PageOK
<1>3. f # p.s.forknum => Selected(q) = Selected(p)
  BY <1>1 DEF PageOK, Pages, Selected
<1> HIDE DEF q
<1>4. f # p.s.forknum /\ AtPosition(p) => AtPosition(q)
  BY <1>1, <1>3 DEF AtPosition
<1>5. OnStrace(p, f, dat) = RedrawStrace(q)
  BY DEF OnStrace, q
<1>6. PageOK(RedrawStrace(q)) /\ Shown(RedrawStrace(q)) /\ RedrawStrace(q).pend = p.pend
  BY <1>1, <1>2, RedrawShows
<1>7. AtPosition(RedrawStrace(q)) <=> AtPosition(q)
  BY <1>2, RedrawStays
<1> QED
  BY <1>4, <1>5, <1>6, <1>7 DEF Drawn, Following, Waits

\* The wheel moves the window by one call, never in front of the first.
LEMMA WheelKeeps ==
  ASSUME NEW p, PageOK(p), Drawn(p), NEW d \in {-1, 1}
  PROVE  PageOK(WheelStrace(p, d)) /\ Drawn(WheelStrace(p, d))
<1> DEFINE t == Selected(p)
           sv == p.s.sview
           w == <<sv[1] + d, sv[2] + d>>
           moves == (d > 0 /\ sv[2] < Len(t)) \/ (d < 0 /\ sv[1] > 0)
<1>1. PICK a \in Nat : sv[1] = a /\ sv[2] = a + WindowSize
  BY DEF PageOK, Pages
<1>2. CASE ~(p.s.forknum = None \/ t = None) /\ moves
  <2>1. WheelStrace(p, d) = Set(p, "sview", w)
    BY <1>2 DEF WheelStrace, Selected
  <2>2. w = <<a + d, a + WindowSize + d>> /\ (d = 1 \/ (d = -1 /\ a > 0))
    BY <1>1, <1>2
  <2> HIDE DEF w
  <2>3. a + d \in Nat /\ a + WindowSize + d \in Nat /\ a + WindowSize + d = (a + d) + WindowSize
    BY <2>2, WindowAssumption
  <2>4. w \in Nat \X Nat /\ w[2] = w[1] + WindowSize
    BY <2>2, <2>3
  <2>5. PageOK(Set(p, "sview", w)) /\ Waits(Set(p, "sview", w), "redraw")
    BY <2>4, SetSview
  <2> QED
    BY <2>1, <2>5 DEF Drawn
<1>3. CASE ~(~(p.s.forknum = None \/ t = None) /\ moves)
  <2>1. WheelStrace(p, d) = p
    BY <1>3 DEF WheelStrace, Selected
  <2> QED
    BY <2>1
<1> QED
  BY <1>2, <1>3

\* Every step keeps the invariant.
LEMMA StraceStep == StraceInv /\ [Next]_vars => StraceInv'
<1> SUFFICES ASSUME StraceInv, [Next]_vars PROVE StraceInv'
  OBVIOUS
<1>a. /\ PageOK(page) /\ Drawn(page) /\ followed \in BOOLEAN
      /\ made \in [Forks -> Seq(Nat)] /\ toClient \in Seq(Forks \X Seq(Nat))
  BY DEF StraceInv
<1>b. followed => Following(page)
  BY DEF StraceInv
<1>1. CASE First
  <2> DEFINE q == Set(page, "forknum", Min(Forks))
  <2>1. PageOK(q) /\ Waits(q, "redraw")
    BY <1>a, FirstFork, SetForknum
  <2> HIDE DEF q
  <2>2. MaxClnum \in Nat
    BY ForksAssumption
  <2>3. /\ PageOK(Set(q, "clnum", MaxClnum)) /\ Waits(Set(q, "clnum", MaxClnum), "update")
        /\ Waits(Set(q, "clnum", MaxClnum), "redraw")
    BY <2>1, <2>2, SetClnum
  <2>4. page' = Set(q, "clnum", MaxClnum) /\ UNCHANGED <<made, toClient, followed>>
    BY <1>1 DEF First, q
  <2>5. PageOK(page') /\ Drawn(page') /\ Following(page')
    BY <2>3, <2>4 DEF Drawn, Following
  <2> QED
    BY <1>a, <2>4, <2>5 DEF StraceInv
<1>2. ASSUME NEW f \in Forks, SelectFork(f) PROVE StraceInv'
  <2>1. page' = Set(page, "forknum", f) /\ UNCHANGED <<made, toClient, followed>>
    BY <1>2 DEF SelectFork
  <2>2. PageOK(page') /\ Drawn(page') /\ Following(page')
    BY <1>a, <2>1, SetForknum DEF Drawn, Following
  <2> QED
    BY <1>a, <2>1, <2>2 DEF StraceInv
<1>3. ASSUME NEW n \in 0..MaxClnum, SelectClnum(n) PROVE StraceInv'
  <2>1. page' = Set(page, "clnum", n) /\ UNCHANGED <<made, toClient, followed>>
    BY <1>3 DEF SelectClnum
  <2>2. n \in Nat
    BY ForksAssumption
  <2>3. PageOK(page') /\ Drawn(page') /\ Following(page')
    BY <1>a, <2>1, <2>2, SetClnum DEF Drawn, Following
  <2> QED
    BY <1>a, <2>1, <2>3 DEF StraceInv
<1>4. CASE Deliver
  <2>1. /\ toClient # <<>> /\ page' = OnStrace(page, Head(toClient)[1], Head(toClient)[2])
        /\ toClient' = Tail(toClient) /\ made' = made
    BY <1>4 DEF Deliver
  <2>2. Head(toClient) \in Forks \X Seq(Nat) /\ Tail(toClient) \in Seq(Forks \X Seq(Nat))
    BY <1>a, <2>1
  <2>3. PICK f \in Forks, dat \in Seq(Nat) : Head(toClient)[1] = f /\ Head(toClient)[2] = dat
    BY <2>2
  <2>4. followed' = (followed /\ f # page.s.forknum)
    BY <1>4, <2>3 DEF Deliver
  <2>5. page' = OnStrace(page, f, dat)
    BY <2>1, <2>3
  <2>6. PageOK(page') /\ Drawn(page') /\ (f # page.s.forknum /\ Following(page) => Following(page'))
    BY <1>a, <2>5, DeliverKeeps
  <2>7. followed' \in BOOLEAN /\ (followed' => Following(page'))
    BY <1>b, <2>4, <2>6
  <2> QED
    BY <1>a, <2>1, <2>2, <2>6, <2>7 DEF StraceInv
<1>5. CASE ProcessTimeout
  <2>1. page' = RunAll(TakePend(page), page.pend) /\ UNCHANGED <<made, toClient>>
    BY <1>5 DEF ProcessTimeout
  <2>2. followed' = (followed \/ Waits(page, "update"))
    BY <1>5 DEF ProcessTimeout, Waits
  <2>3. /\ PageOK(page') /\ Drawn(page')
        /\ Waits(page, "update") \/ AtPosition(page) => AtPosition(page')
    BY <1>a, <2>1, ProcessKeeps
  <2>4. followed' \in BOOLEAN
    BY <2>2
  <2>5. followed' => Following(page')
    BY <1>b, <2>2, <2>3 DEF Following
  <2> QED
    BY <1>a, <2>1, <2>3, <2>4, <2>5 DEF StraceInv
<1>6. ASSUME NEW d \in {-1, 1}, Wheel(d) PROVE StraceInv'
  <2>1. page' = WheelStrace(page, d) /\ followed' = FALSE /\ UNCHANGED <<made, toClient>>
    BY <1>6 DEF Wheel
  <2>2. PageOK(page') /\ Drawn(page')
    BY <1>a, <2>1, WheelKeeps
  <2> QED
    BY <1>a, <2>1, <2>2 DEF StraceInv
<1>7. ASSUME NEW f \in Forks, Syscall(f) PROVE StraceInv'
  <2>1. /\ made' = [made EXCEPT ![f] = Append(made[f], CallGap * (Len(made[f]) + 1))]
        /\ UNCHANGED <<page, toClient, followed>>
    BY <1>7 DEF Syscall
  <2>2. PICK l \in Nat : l = Len(made[f])
    BY <1>a
  <2>3. CallGap * (l + 1) \in Nat
    BY <2>2, ForksAssumption
  <2>4. made' \in [Forks -> Seq(Nat)]
    BY <1>a, <2>1, <2>2, <2>3
  <2> QED
    BY <1>a, <1>b, <2>1, <2>4 DEF StraceInv
<1>8. ASSUME NEW f \in Forks, PushStrace(f) PROVE StraceInv'
  <2>1. toClient' = <<<<f, made[f]>>>> /\ UNCHANGED <<page, made, followed>>
    BY <1>8 DEF PushStrace
  <2>2. toClient' \in Seq(Forks \X Seq(Nat))
    BY <1>a, <2>1
  <2> QED
    BY <1>a, <1>b, <2>1, <2>2 DEF StraceInv
<1>9. CASE UNCHANGED vars
  BY <1>a, <1>b, <1>9 DEF StraceInv, vars
<1> QED
  BY <1>1, <1>2, <1>3, <1>4, <1>5, <1>6, <1>7, <1>8, <1>9 DEF Next

\* The invariant of the panel.
LEMMA StraceInvariant == Spec => []StraceInv
  BY StraceInit, StraceStep, PTL DEF Spec

-----------------------------------------------------------------------------
(* The theorems.                                                           *)

\* Known is what the page has for the selected fork.
LEMMA KnownSelected == StraceInv => Known = Selected(page)
  BY DEF StraceInv, PageOK, Known, Selected

\* Nothing waits: the panel is drawn, and the window follows the position.
LEMMA Settled ==
  ASSUME StraceInv, page.pend = <<>>
  PROVE  Shown(page) /\ (followed => AtPosition(page))
<1>1. ~Waits(page, "redraw") /\ ~Waits(page, "update")
  BY WaitingIn DEF Waits, StraceInv, PageOK, Pages
<1> QED
  BY <1>1 DEF StraceInv, Drawn, Following

\* Whatever the order of the two autoruns, the messages, the wheel and the
\* selections, the panel shows a window of the selected fork's calls as they came
\* last (redraw_strace, "updating sview", on_strace, the wheel handler).
THEOREM StraceWindowShown == Spec => []StraceShown
<1>1. StraceInv => SviewIsWindow
  <2> SUFFICES ASSUME StraceInv PROVE SviewIsWindow
    OBVIOUS
  <2>1. page.s.sview \in Nat \X Nat /\ page.s.sview[2] = page.s.sview[1] + WindowSize
    BY DEF StraceInv, PageOK, Pages
  <2> QED
    BY <2>1 DEF SviewIsWindow
<1>2. StraceInv => SliceShown
  BY KnownSelected, Settled DEF SliceShown, Shown
<1>3. StraceInv => StraceShown
  BY <1>1, <1>2 DEF StraceShown
<1> QED
  BY <1>3, StraceInvariant, PTL

\* When the window was last set for the position, the last call made up to it and
\* the next one are drawn, for every window larger than the calls kept in front of
\* the position (the autorun "updating sview").
THEOREM StracePositionShown == Spec => []PositionShown
<1>1. StraceInv => PositionShown
  <2> SUFFICES ASSUME StraceInv, page.pend = <<>>, followed, Known # None,
                      NEW j \in {CallsUpTo(Known, page.s.clnum), CallsUpTo(Known, page.s.clnum) + 1},
                      j \in DOMAIN Known
               PROVE  Contains(page.shown, Known[j])
    BY DEF PositionShown
  <2> DEFINE t == Known
             i == CallsUpTo(t, page.s.clnum)
             w == Window(i, Len(t))
  <2>1. t = Selected(page)
    BY KnownSelected
  <2>2. t \in Seq(Nat)
    BY <2>1 DEF StraceInv, PageOK, Pages, Selected
  <2>3. page.shown = Slice(t, w)
    BY <2>1, Settled DEF Shown, AtPosition
  <2> HIDE DEF t
  <2>4. i \in Nat /\ i <= Len(t) /\ Len(t) \in Nat /\ DOMAIN t = 1 .. Len(t)
    BY <2>2, CallsBounded
  <2>5. j \in {i, i + 1} /\ j \in DOMAIN t
    BY DEF t
  <2> HIDE DEF i
  <2>6. /\ w \in Nat \X Nat
        /\ i >= 1 => w[1] < i
        /\ i < Len(t) => i + 1 <= w[2]
        /\ i >= 1 => i <= w[2]
        /\ w[1] < i + 1
    BY <2>4, WindowIs
  <2> HIDE DEF w
  <2>7. w[1] < j /\ j <= w[2]
    BY <2>4, <2>5, <2>6
  <2>8. Contains(Slice(t, w), t[j])
    BY <2>2, <2>5, <2>6, <2>7, SliceIs
  <2> QED
    BY <2>3, <2>8 DEF t
<1> QED
  BY <1>1, StraceInvariant, PTL
=============================================================================
