----------------------------- MODULE FoldProofs -----------------------------
(***************************************************************************)
(* FoldLeft over a list of any length, unrolled into its steps: what the   *)
(* client's loops over a queue or a list compute.  The operator that is    *)
(* folded is a parameter; a module instantiates this one for each of its   *)
(* loops.                                                                  *)
(***************************************************************************)
EXTENDS Integers, FiniteSetsExt, WellFoundedInduction, TLAPS

CONSTANT Op(_, _)

-----------------------------------------------------------------------------
(* Numbers.                                                                *)

\* A set of naturals has a least element.
LEMMA LeastElement ==
  ASSUME NEW T \in SUBSET Nat, T # {}
  PROVE  \E x \in T : \A y \in T : x <= y
<1> DEFINE R == {ss \in Nat \X Nat : ss[1] < ss[2]}
<1>1. IsWellFoundedOn(R, Nat)
  BY NatLessThanWellFounded DEF OpToRel
<1>2. \A x, y \in Nat : <<y, x>> \in R <=> y < x
  OBVIOUS
<1> HIDE DEF R
<1>3. PICK x \in T : \A y \in T : ~(<<y, x>> \in R)
  BY <1>1, WFMin
<1>4. \A y \in T : ~(y < x)
  BY <1>2, <1>3
<1> QED
  BY <1>4

\* Induction up to n, about membership in a set.
LEMMA UpTo ==
  ASSUME NEW n \in Nat, NEW S, 0 \in S, \A i \in 1 .. n : i - 1 \in S => i \in S
  PROVE  0 .. n \subseteq S
<1> DEFINE T == {i \in 0 .. n : i \notin S}
<1> SUFFICES ASSUME T # {} PROVE FALSE
  OBVIOUS
<1>1. T \in SUBSET Nat
  OBVIOUS
<1>2. PICK x \in T : \A y \in T : x <= y
  <2> HIDE DEF T
  <2> QED
    BY <1>1, LeastElement
<1>3. x \in 1 .. n
  OBVIOUS
<1>4. x - 1 \notin T /\ x - 1 \in 0 .. n
  <2>1. ~(x <= x - 1) /\ x - 1 \in 0 .. n
    BY <1>3
  <2> QED
    BY <1>2, <2>1
<1> QED
  BY <1>3, <1>4

\* The largest of the numbers up to n, and of a set that holds n.
LEMMA MaxUpTo ==
  ASSUME NEW n \in Nat, NEW s \in SUBSET (1 .. n), n \in s
  PROVE  Max(s) = n
<1>1. \A x \in s : x \in Nat /\ x <= n
  OBVIOUS
<1>2. \A x \in s : (\A y \in s : x >= y) <=> x = n
  BY <1>1
<1> QED
  BY <1>2 DEF Max

-----------------------------------------------------------------------------
(* The fold.                                                               *)

\* The function FoldLeft chooses: it takes the positions from the largest down.
IsFold(g, b, q) ==
  g = [s \in SUBSET (DOMAIN q) |-> IF s = {} THEN b ELSE Op(g[s \ {Max(s)}], q[Max(s)])]

Result(b, q) == (CHOOSE g : IsFold(g, b, q))[DOMAIN q]

\* r has what is left after each element of q.
Steps(r, b, q, n) ==
  /\ r[0] = b /\ Result(b, q) = r[n]
  /\ \A i \in 1 .. n : r[i] = Op(r[i - 1], q[i])

\* g gives the fold over every set of the first n positions of q, from the
\* largest down.
FoldUpTo(g, b, q, n) ==
  g = [s \in SUBSET (1 .. n) |-> IF s = {} THEN b ELSE Op(g[s \ {Max(s)}], q[Max(s)])]

\* There is such a function.
LEMMA FoldExists ==
  ASSUME NEW b, NEW q, NEW n \in Nat
  PROVE  \E g : FoldUpTo(g, b, q, n)
<1> DEFINE S == {i \in 0 .. n : \E g : FoldUpTo(g, b, q, i)}
<1>1. 0 \in S
  <2> DEFINE g == [s \in SUBSET (1 .. 0) |-> b]
  <2>1. \A s \in SUBSET (1 .. 0) : s = {}
    OBVIOUS
  <2>2. FoldUpTo(g, b, q, 0)
    BY <2>1 DEF FoldUpTo
  <2> QED
    BY <2>2
<1>2. ASSUME NEW i \in 1 .. n, i - 1 \in S PROVE i \in S
  <2>1. PICK g : FoldUpTo(g, b, q, i - 1)
    BY <1>2
  <2> DEFINE h == [s \in SUBSET (1 .. i) |->
                     IF i \in s THEN Op(g[s \ {i}], q[i]) ELSE g[s]]
  <2>2. ASSUME NEW s \in SUBSET (1 .. i)
        PROVE  h[s] = IF s = {} THEN b ELSE Op(h[s \ {Max(s)}], q[Max(s)])
    <3>1. CASE i \in s
      <4>1. Max(s) = i
        BY <3>1, MaxUpTo
      <4>2. s \ {i} \in SUBSET (1 .. i) /\ i \notin s \ {i}
        OBVIOUS
      <4>3. h[s \ {i}] = g[s \ {i}]
        BY <4>2
      <4> QED
        BY <3>1, <4>1, <4>3
    <3>2. CASE i \notin s
      <4>a. \A j \in 1 .. i : j # i => j \in 1 .. (i - 1)
        OBVIOUS
      <4>1. s \in SUBSET (1 .. (i - 1)) /\ s \ {Max(s)} \in SUBSET (1 .. i) /\ i \notin s \ {Max(s)}
        BY <3>2, <4>a
      <4>2. h[s] = g[s] /\ h[s \ {Max(s)}] = g[s \ {Max(s)}]
        BY <3>2, <4>1
      <4> HIDE DEF h
      <4> QED
        BY <2>1, <4>1, <4>2 DEF FoldUpTo
    <3> QED
      BY <3>1, <3>2
  <2>3. FoldUpTo(h, b, q, i)
    BY <2>2 DEF FoldUpTo
  <2> QED
    BY <2>3
<1> HIDE DEF S
<1>3. 0 .. n \subseteq S
  BY <1>1, <1>2, UpTo
<1> QED
  BY <1>3 DEF S

\* FoldLeft is the chosen one, applied to all positions.
LEMMA FoldChosen ==
  ASSUME NEW b, NEW q, NEW n \in Nat, DOMAIN q = 1 .. n
  PROVE  \E g : FoldUpTo(g, b, q, n) /\ Result(b, q) = g[1 .. n]
<1> DEFINE it == CHOOSE g : IsFold(g, b, q)
<1>1. Result(b, q) = it[DOMAIN q]
  BY DEF Result
<1>2. \E h : IsFold(h, b, q)
  <2>1. PICK h : FoldUpTo(h, b, q, n)
    BY FoldExists
  <2>2. IsFold(h, b, q)
    BY <2>1 DEF FoldUpTo, IsFold
  <2> QED
    BY <2>2
<1>3. IsFold(it, b, q)
  BY <1>2
<1>4. FoldUpTo(it, b, q, n)
  BY <1>3 DEF FoldUpTo, IsFold
<1> QED
  BY <1>1, <1>4

\* A fold is reached step by step.
LEMMA FoldSteps ==
  ASSUME NEW b, NEW q, NEW n \in Nat, DOMAIN q = 1 .. n
  PROVE  \E r : Steps(r, b, q, n)
<1>1. PICK g : FoldUpTo(g, b, q, n) /\ Result(b, q) = g[1 .. n]
  BY FoldChosen
<1> DEFINE r == [i \in 0 .. n |-> g[1 .. i]]
<1>2. r[0] = b
  <2>1. 1 .. 0 = {} /\ {} \in SUBSET (1 .. n)
    OBVIOUS
  <2>2. g[{}] = b
    BY <1>1 DEF FoldUpTo
  <2> QED
    BY <2>1, <2>2
<1>3. r[n] = Result(b, q)
  BY <1>1
<1>4. ASSUME NEW i \in 1 .. n PROVE r[i] = Op(r[i - 1], q[i])
  <2>1. 1 .. i \in SUBSET (1 .. n) /\ 1 .. i # {} /\ i \in 1 .. i /\ i \in Nat
    OBVIOUS
  <2>2. Max(1 .. i) = i
    BY <2>1, MaxUpTo
  <2>3. (1 .. i) \ {i} = 1 .. (i - 1)
    OBVIOUS
  <2>4. g[1 .. i] = Op(g[(1 .. i) \ {Max(1 .. i)}], q[Max(1 .. i)])
    BY <1>1, <2>1 DEF FoldUpTo
  <2>5. r[i] = g[1 .. i] /\ r[i - 1] = g[1 .. (i - 1)]
    OBVIOUS
  <2> HIDE DEF r
  <2> QED
    BY <2>2, <2>3, <2>4, <2>5
<1> HIDE DEF r
<1>5. Steps(r, b, q, n)
  BY <1>2, <1>3, <1>4 DEF Steps
<1> QED
  BY <1>5
=============================================================================
