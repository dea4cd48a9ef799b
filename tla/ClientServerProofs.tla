-------------------------- MODULE ClientServerProofs --------------------------
(***************************************************************************)
(* For every scenario (traces, events, scripts loaded, autoruns followed)  *)
(* and every order of messages, timeouts, scripts and user events: the     *)
(* history records what is shown, IDA shows the page's address, and a page *)
(* nobody touches follows the trace.                                       *)
(***************************************************************************)
EXTENDS ClientServer, SessionProofs

-----------------------------------------------------------------------------
(* Sequences of anything.                                                  *)

IsSeq(q) == q \in Seq(ToSet(q))

LEMMA SeqIsSeq ==
  ASSUME NEW S, NEW q \in Seq(S)
  PROVE  IsSeq(q)
<1>1. PICK n \in Nat : n = Len(q) /\ DOMAIN q = 1 .. n
  OBVIOUS
<1>2. q \in [1 .. n -> ToSet(q)]
  BY <1>1 DEF ToSet
<1> QED
  BY <1>1, <1>2, SeqDef DEF IsSeq

LEMMA IsSeqLen ==
  ASSUME NEW q, IsSeq(q)
  PROVE  Len(q) \in Nat /\ DOMAIN q = 1 .. Len(q)
  BY DEF IsSeq

LEMMA IsSeqAppend ==
  ASSUME NEW q, IsSeq(q), NEW x
  PROVE  /\ IsSeq(Append(q, x)) /\ Len(Append(q, x)) = Len(q) + 1
         /\ \A i \in 1 .. Len(q) : Append(q, x)[i] = q[i]
         /\ Append(q, x)[Len(q) + 1] = x
<1> DEFINE S == ToSet(q) \cup {x}
<1>1. q \in Seq(S)
  BY DEF IsSeq
<1>2. x \in S
  OBVIOUS
<1> HIDE DEF S
<1>3. /\ Append(q, x) \in Seq(S) /\ Len(Append(q, x)) = Len(q) + 1
      /\ \A i \in 1 .. Len(q) : Append(q, x)[i] = q[i]
      /\ Append(q, x)[Len(q) + 1] = x
  BY <1>1, <1>2, AppendProperties
<1> QED
  BY <1>3, SeqIsSeq

LEMMA IsSeqConcat ==
  ASSUME NEW q, IsSeq(q), NEW r, IsSeq(r)
  PROVE  /\ IsSeq(q \o r) /\ Len(q \o r) = Len(q) + Len(r)
         /\ \A i \in 1 .. (Len(q) + Len(r)) : (q \o r)[i] = IF i <= Len(q) THEN q[i] ELSE r[i - Len(q)]
<1> DEFINE S == ToSet(q) \cup ToSet(r)
<1>1. q \in Seq(S) /\ r \in Seq(S)
  BY DEF IsSeq
<1> HIDE DEF S
<1>2. /\ q \o r \in Seq(S) /\ Len(q \o r) = Len(q) + Len(r)
      /\ \A i \in 1 .. (Len(q) + Len(r)) : (q \o r)[i] = IF i <= Len(q) THEN q[i] ELSE r[i - Len(q)]
  BY <1>1, ConcatProperties
<1> QED
  BY <1>2, SeqIsSeq

LEMMA IsSeqTail ==
  ASSUME NEW q, IsSeq(q), q # <<>>
  PROVE  /\ IsSeq(Tail(q)) /\ Len(q) > 0 /\ Len(Tail(q)) = Len(q) - 1 /\ Head(q) = q[1]
         /\ \A i \in 1 .. Len(Tail(q)) : Tail(q)[i] = q[i + 1]
<1>1. q \in Seq(ToSet(q)) /\ q # <<>>
  BY DEF IsSeq
<1>2. /\ Tail(q) \in Seq(ToSet(q)) /\ Len(Tail(q)) = Len(q) - 1
      /\ \A i \in 1 .. Len(Tail(q)) : Tail(q)[i] = q[i + 1]
  BY <1>1, HeadTailProperties
<1>3. Len(q) > 0 /\ Head(q) = q[1]
  BY <1>1
<1> QED
  BY <1>2, <1>3, SeqIsSeq

LEMMA IsSeqSub ==
  ASSUME NEW q, IsSeq(q), NEW a \in Int, NEW b \in Int, a >= 1, b <= Len(q), a <= b + 1
  PROVE  /\ IsSeq(SubSeq(q, a, b)) /\ Len(SubSeq(q, a, b)) = b - a + 1
         /\ \A i \in 1 .. (b - a + 1) : SubSeq(q, a, b)[i] = q[a + i - 1]
<1>1. PICK n \in Nat : n = Len(q) /\ DOMAIN q = 1 .. n
  BY DEF IsSeq
<1>2. \A i \in a .. b : q[i] \in ToSet(q)
  <2>1. \A i \in a .. b : i \in 1 .. n
    BY <1>1
  <2> QED
    BY <1>1, <2>1 DEF ToSet
<1>3. /\ SubSeq(q, a, b) \in Seq(ToSet(q)) /\ Len(SubSeq(q, a, b)) = IF a <= b THEN b - a + 1 ELSE 0
      /\ \A i \in 1 .. b - a + 1 : SubSeq(q, a, b)[i] = q[a + i - 1]
  BY <1>2, SubSeqProperties
<1>4. (IF a <= b THEN b - a + 1 ELSE 0) = b - a + 1
  OBVIOUS
<1> QED
  BY <1>3, <1>4, SeqIsSeq

\* The smaller of two bounds.
LEMMA MinOfTwo ==
  ASSUME NEW a \in Nat, NEW b \in Nat
  PROVE  Min({a, b}) \in Nat /\ Min({a, b}) <= a /\ Min({a, b}) <= b /\ Min({a, b}) \in {a, b}
<1>1. \E x \in {a, b} : \A y \in {a, b} : x <= y
  OBVIOUS
<1>2. Min({a, b}) \in {a, b} /\ \A y \in {a, b} : Min({a, b}) <= y
  BY <1>1 DEF Min
<1> QED
  BY <1>2

-----------------------------------------------------------------------------
(* Pages.                                                                  *)

PageFields ==
  {"s", "deps", "pend", "scenario", "out", "loaded", "view", "flags", "vt", "drawn", "overlays",
   "pictures", "down", "hist", "hpos", "timers", "back", "ws", "onopen", "ida", "lost"}

SessionVars ==
  {"forknum", "clnum", "iaddr", "iview", "daddr", "dview", "dirtyiaddr", "max_clnum", "cview", "pmaps"}

Fxns ==
  {"history", "rehighlight", "firstfork", "controls", "ida", "instructions", "memory", "registers",
   "clnum", "bounds", "change", "ichanges", "dchanges"}

\* What the history autorun depends on.
ViewVars == {"cview", "dview", "clnum", "daddr"}

\* A page has its fields and keeps no more entries than the browser.
Shape(p) ==
  /\ DOMAIN p = PageFields
  /\ DOMAIN p.s = SessionVars
  /\ DOMAIN p.deps = SessionVars
  /\ \A n \in SessionVars : p.deps[n] \in Seq(Fxns)
  /\ p.pend \in Seq(Fxns)
  /\ p.scenario \in DOMAIN Scenarios
  /\ p.loaded \in 0 .. 6
  /\ p.timers \in Nat
  /\ IsSeq(p.hist) /\ p.hpos \in 0 .. Len(p.hist)
  /\ p.hpos <= Scenarios[p.scenario].history \/ (p.hpos = 1 /\ p.hist[1] = None)

\* What setting a session variable needs of a page.
Frame(p) ==
  /\ DOMAIN p = PageFields
  /\ DOMAIN p.s = SessionVars
  /\ DOMAIN p.deps = SessionVars
  /\ \A n \in SessionVars : p.deps[n] \in Seq(Fxns)
  /\ p.pend \in Seq(Fxns)
  /\ p.scenario \in DOMAIN Scenarios

LEMMA ShapeFrame ==
  ASSUME NEW p, Shape(p)
  PROVE  Frame(p)
  BY DEF Shape, Frame

\* The autorun that opens the socket to IDA, once it is registered or has opened
\* it, runs again when iaddr is set.
IdaReg(p) ==
  p.ws # "none" \/ Contains(p.pend, "ida") \/ (\E n \in SessionVars : Contains(p.deps[n], "ida")) =>
    Contains(p.deps["iaddr"], "ida")

\* IDA has iaddr, or gets it when the socket opens.
IdaTold(p) ==
  ~p.lost => (p.ws = "open" => p.ida = p.s["iaddr"]) /\ (p.ws = "connecting" => p.onopen = p.s["iaddr"])

\* The history autorun runs again when the view moves.
HistoryReg(p) ==
  Scenarios[p.scenario].history > 0 => \A n \in ViewVars : Contains(p.deps[n], "history")

\* The current entry is the view or the page as it was loaded, or a timeout will
\* record the view.
HistoryTold(p) ==
  p.timers > 0 \/ p.hpos = 0 \/ p.hist[p.hpos] = None \/ \A k \in ViewVars : p.hist[p.hpos][k] = p.s[k]

\* Going back goes somewhere.
NoRepeats(h) == \A i \in 1 .. (Len(h) - 1) : h[i] # h[i + 1]

\* What holds of a page that has loaded the first ld scripts, between the steps
\* of the event loop, and, with the autoruns of A still to be run, within one.
Good(p, A, ld) ==
  /\ Shape(p) /\ p.loaded = ld /\ ld >= 1
  /\ IdaReg(p) /\ HistoryReg(p) /\ NoRepeats(p.hist)
  /\ "ida" \in A => Contains(p.deps["iaddr"], "ida")
  /\ Contains(p.pend, "ida") \/ "ida" \in A \/ IdaTold(p)
  /\ Contains(p.pend, "history") \/ "history" \in A \/ HistoryTold(p)

\* A step that only draws or asks.
Same(p, q) ==
  /\ DOMAIN q = DOMAIN p
  /\ q.s = p.s /\ q.deps = p.deps /\ q.pend = p.pend /\ q.scenario = p.scenario
  /\ q.loaded = p.loaded /\ q.hist = p.hist /\ q.hpos = p.hpos /\ q.timers = p.timers
  /\ q.ws = p.ws /\ q.onopen = p.onopen /\ q.ida = p.ida /\ q.lost = p.lost

LEMMA GoodSame ==
  ASSUME NEW p, NEW q, NEW A, NEW ld, Good(p, A, ld), Same(p, q)
  PROVE  Good(q, A, ld)
  BY DEF Good, Shape, IdaReg, IdaTold, HistoryReg, HistoryTold, Same

LEMMA SameTrans ==
  ASSUME NEW p, NEW q, NEW r, Same(p, q), Same(q, r)
  PROVE  Same(p, r)
  BY DEF Same

\* Session.set.
LEMMA SetFields ==
  ASSUME NEW p, Frame(p), NEW n \in SessionVars, NEW v
  PROVE  LET q == Set(p, n, v)
         IN  /\ DOMAIN q = PageFields /\ Frame(q)
             /\ q.deps = p.deps /\ q.scenario = p.scenario
             /\ q.loaded = p.loaded /\ q.hist = p.hist /\ q.hpos = p.hpos /\ q.timers = p.timers
             /\ q.ws = p.ws /\ q.onopen = p.onopen /\ q.ida = p.ida /\ q.lost = p.lost
             /\ q.out = p.out /\ q.back = p.back
             /\ q.pend \in Seq(Fxns)
             /\ \A y : Contains(q.pend, y) <=> Contains(p.pend, y) \/ Contains(p.deps[n], y)
             /\ DOMAIN q.s = SessionVars /\ q.s[n] = v
             /\ \A k \in SessionVars : k # n => q.s[k] = p.s[k]
<1> DEFINE q == Set(p, n, v)
<1>1. /\ DOMAIN q = PageFields
      /\ q.s = [p.s EXCEPT ![n] = v] /\ q.pend = EnqueueAll(p.pend, p.deps[n])
      /\ q.deps = p.deps /\ q.scenario = p.scenario
      /\ q.loaded = p.loaded /\ q.hist = p.hist /\ q.hpos = p.hpos /\ q.timers = p.timers
      /\ q.ws = p.ws /\ q.onopen = p.onopen /\ q.ida = p.ida /\ q.lost = p.lost
      /\ q.out = p.out /\ q.back = p.back
  BY DEF Frame, Set, PageFields
<1>2. /\ q.pend \in Seq(Fxns)
      /\ \A y : Contains(q.pend, y) <=> Contains(p.pend, y) \/ Contains(p.deps[n], y)
  BY <1>1, EnqueueAllContains DEF Frame
<1> HIDE DEF q
<1>3. DOMAIN q.s = SessionVars /\ q.s[n] = v /\ \A k \in SessionVars : k # n => q.s[k] = p.s[k]
  BY <1>1 DEF Frame
<1>4. Frame(q)
  BY <1>1, <1>2, <1>3 DEF Frame
<1> QED
  BY <1>1, <1>2, <1>3, <1>4 DEF q

LEMMA GoodSet ==
  ASSUME NEW p, NEW A, NEW ld, Good(p, A, ld), NEW n \in SessionVars, NEW v
  PROVE  Good(Set(p, n, v), A, ld)
<1> DEFINE q == Set(p, n, v)
<1>1. Shape(p)
  BY DEF Good
<1>2. /\ DOMAIN q = PageFields
      /\ q.deps = p.deps /\ q.scenario = p.scenario
      /\ q.loaded = p.loaded /\ q.hist = p.hist /\ q.hpos = p.hpos /\ q.timers = p.timers
      /\ q.ws = p.ws /\ q.onopen = p.onopen /\ q.ida = p.ida /\ q.lost = p.lost
  BY <1>1, ShapeFrame, SetFields
<1>3. /\ q.pend \in Seq(Fxns)
      /\ \A y : Contains(q.pend, y) <=> Contains(p.pend, y) \/ Contains(p.deps[n], y)
  BY <1>1, ShapeFrame, SetFields
<1>4. DOMAIN q.s = SessionVars /\ \A k \in SessionVars : k # n => q.s[k] = p.s[k]
  BY <1>1, ShapeFrame, SetFields
<1> HIDE DEF q
<1>5. Shape(q) /\ q.loaded = p.loaded /\ IdaReg(q) /\ HistoryReg(q) /\ NoRepeats(q.hist)
  BY <1>1, <1>2, <1>3, <1>4 DEF Shape, Good, IdaReg, HistoryReg
<1>6. Contains(q.pend, "ida") \/ "ida" \in A \/ IdaTold(q)
  <2>1. CASE n = "iaddr" /\ p.ws # "none"
    BY <1>3, <2>1 DEF Good, IdaReg
  <2>2. CASE p.ws = "none"
    BY <1>2, <2>2 DEF IdaTold
  <2>3. CASE n # "iaddr"
    <3>1. q.s["iaddr"] = p.s["iaddr"]
      BY <1>4, <2>3 DEF SessionVars
    <3> QED
      BY <1>2, <1>3, <3>1 DEF Good, IdaTold
  <2> QED
    BY <2>1, <2>2, <2>3
<1>7. Contains(q.pend, "history") \/ "history" \in A \/ HistoryTold(q)
  <2>1. CASE Scenarios[p.scenario].history > 0 /\ n \in ViewVars
    BY <1>3, <2>1 DEF Good, HistoryReg
  <2>2. CASE ~(Scenarios[p.scenario].history > 0)
    <3>1. p.hpos = 0 \/ p.hist[p.hpos] = None
      BY <1>1, <2>2, HistoryAssumption DEF Shape, IsSeq
    <3> QED
      BY <1>2, <3>1 DEF HistoryTold
  <2>3. CASE n \notin ViewVars
    <3>1. \A k \in ViewVars : q.s[k] = p.s[k]
      BY <1>4, <2>3 DEF SessionVars, ViewVars
    <3> QED
      BY <1>2, <1>3, <3>1 DEF Good, HistoryTold
  <2> QED
    BY <2>1, <2>2, <2>3
<1> QED
  BY <1>2, <1>5, <1>6, <1>7 DEF Good, q

\* An entry has the view.
LEMMA KeysOfView == ViewVars \subseteq ToSet(HistoryKeys) /\ HistoryKeys \in Seq(SessionVars)
<1>1. /\ HistoryKeys[1] = "cview" /\ HistoryKeys[2] = "dview" /\ HistoryKeys[4] = "clnum"
      /\ HistoryKeys[5] = "daddr" /\ DOMAIN HistoryKeys = 1 .. 6
  BY DEF HistoryKeys
<1>2. {1, 2, 4, 5} \subseteq 1 .. 6
  OBVIOUS
<1>3. HistoryKeys \in Seq(SessionVars)
  BY DEF HistoryKeys, SessionVars
<1> QED
  BY <1>1, <1>2, <1>3 DEF ToSet, ViewVars

LEMMA EntryOfView ==
  ASSUME NEW p
  PROVE  \A k \in ViewVars : HistoryEntry(p)[k] = p.s[k]
  BY KeysOfView DEF HistoryEntry

\* push_history.
LEMMA GoodPushHistory ==
  ASSUME NEW p, NEW A, NEW ld, Good(p, A, ld)
  PROVE  Good(PushHistory(p), A, ld) /\ HistoryTold(PushHistory(p))
<1>1. Shape(p)
  BY DEF Good
<1> DEFINE e == HistoryEntry(p)
           h == Append(SubSeq(p.hist, 1, p.hpos), e)
           n == Min({Len(h), Scenarios[p.scenario].history})
           g == SubSeq(h, Len(h) - n + 1, Len(h))
           q == [p EXCEPT !.hist = g, !.hpos = n]
<1>2. CASE p.hpos > 0 /\ p.hist[p.hpos] = e
  <2>1. PushHistory(p) = p
    BY <1>2 DEF PushHistory
  <2>2. \A k \in ViewVars : e[k] = p.s[k]
    BY EntryOfView
  <2> QED
    BY <1>2, <2>1, <2>2 DEF HistoryTold
<1>3. CASE ~(p.hpos > 0 /\ p.hist[p.hpos] = e)
  <2>1. PushHistory(p) = q
    BY <1>3 DEF PushHistory
  <2>2. PICK l \in Nat, b \in Nat, o \in Nat :
          l = Len(p.hist) /\ b = p.hpos /\ b <= l /\ o = Scenarios[p.scenario].history
    BY <1>1, HistoryAssumption DEF Shape, IsSeq
  <2>3. /\ IsSeq(SubSeq(p.hist, 1, b)) /\ Len(SubSeq(p.hist, 1, b)) = b
        /\ \A i \in 1 .. b : SubSeq(p.hist, 1, b)[i] = p.hist[i]
    <3>1. /\ IsSeq(SubSeq(p.hist, 1, b)) /\ Len(SubSeq(p.hist, 1, b)) = b - 1 + 1
          /\ \A i \in 1 .. (b - 1 + 1) : SubSeq(p.hist, 1, b)[i] = p.hist[1 + i - 1]
      BY <1>1, <2>2, IsSeqSub DEF Shape
    <3>2. b - 1 + 1 = b /\ \A i \in 1 .. b : 1 + i - 1 = i
      OBVIOUS
    <3> QED
      BY <3>1, <3>2
  <2> DEFINE f == SubSeq(p.hist, 1, b)
  <2>4. /\ IsSeq(h) /\ Len(h) = b + 1 /\ h[b + 1] = e
        /\ \A i \in 1 .. b : h[i] = p.hist[i]
    <3>1. PICK t : t = f /\ IsSeq(t) /\ Len(t) = b /\ \A i \in 1 .. b : t[i] = p.hist[i]
      BY <2>3
    <3>2. /\ IsSeq(Append(t, e)) /\ Len(Append(t, e)) = Len(t) + 1
          /\ \A i \in 1 .. Len(t) : Append(t, e)[i] = t[i]
          /\ Append(t, e)[Len(t) + 1] = e
      <4> HIDE DEF e
      <4> QED
        BY <3>1, IsSeqAppend
    <3>3. h = Append(t, e)
      BY <2>2, <3>1
    <3> HIDE DEF h, e, f
    <3> QED
      BY <3>1, <3>2, <3>3
  <2> HIDE DEF e, h
  <2>5. n \in Nat /\ n <= b + 1 /\ n <= o
    <3>1. PICK c \in Nat : c = b + 1
      OBVIOUS
    <3>2. n = Min({c, o})
      BY <2>2, <2>4, <3>1
    <3> HIDE DEF n
    <3> QED
      BY <3>1, <3>2, MinOfTwo
  <2>6. b > 0 => h[b] # h[b + 1]
    BY <1>3, <2>2, <2>4
  <2>7. \A i \in 1 .. b : h[i] # h[i + 1]
    <3>1. ASSUME NEW i \in 1 .. b, i # b PROVE h[i] # h[i + 1]
      <4>1. i + 1 \in 1 .. b /\ i \in 1 .. (l - 1)
        BY <2>2, <3>1
      <4>2. p.hist[i] # p.hist[i + 1]
        BY <2>2, <4>1 DEF Good, NoRepeats
      <4> QED
        BY <2>4, <4>1, <4>2
    <3> QED
      BY <2>6, <3>1
  <2> HIDE DEF n
  <2>8. /\ IsSeq(g) /\ Len(g) = n /\ \A i \in 1 .. n : g[i] = h[b + 1 - n + i]
    <3>1. PICK a \in Int, c \in Int : a = b + 1 - n + 1 /\ c = b + 1
      BY <2>5
    <3>2. /\ IsSeq(SubSeq(h, a, c)) /\ Len(SubSeq(h, a, c)) = c - a + 1
          /\ \A i \in 1 .. (c - a + 1) : SubSeq(h, a, c)[i] = h[a + i - 1]
      BY <2>4, <2>5, <3>1, IsSeqSub
    <3>3. c - a + 1 = n /\ \A i \in 1 .. n : a + i - 1 = b + 1 - n + i
      BY <2>5, <3>1
    <3>4. g = SubSeq(h, a, c)
      <4>1. Len(h) - n + 1 = a /\ Len(h) = c
        BY <2>4, <2>5, <3>1
      <4> QED
        BY <4>1
    <3> HIDE DEF g
    <3> QED
      BY <3>2, <3>3, <3>4
  <2>9. /\ DOMAIN q = PageFields
        /\ q.hist = g /\ q.hpos = n
        /\ q.s = p.s /\ q.deps = p.deps /\ q.pend = p.pend /\ q.scenario = p.scenario
        /\ q.loaded = p.loaded /\ q.timers = p.timers
        /\ q.ws = p.ws /\ q.onopen = p.onopen /\ q.ida = p.ida /\ q.lost = p.lost
    BY <1>1 DEF Shape, PageFields
  <2> HIDE DEF g, q
  <2>10. NoRepeats(g)
    <3>1. ASSUME NEW i \in 1 .. (n - 1) PROVE g[i] # g[i + 1]
      <4>1. PICK j \in 1 .. b : j = b + 1 - n + i
        BY <2>5
      <4>2. i \in 1 .. n /\ i + 1 \in 1 .. n /\ b + 1 - n + (i + 1) = j + 1
        BY <2>5, <4>1
      <4>3. g[i] = h[j] /\ g[i + 1] = h[j + 1]
        BY <2>8, <4>1, <4>2
      <4> QED
        BY <2>7, <4>3
    <3> QED
      BY <2>8, <3>1 DEF NoRepeats
  <2>11. n = 0 \/ g[n] = e
    <3>1. n # 0 => n \in 1 .. n /\ b + 1 - n + n = b + 1
      BY <2>5
    <3> QED
      BY <2>4, <2>8, <3>1
  <2>12. \A k \in ViewVars : e[k] = p.s[k]
    BY EntryOfView DEF e
  <2>13. HistoryTold(q)
    BY <2>9, <2>11, <2>12 DEF HistoryTold
  <2>14. Shape(q)
    BY <1>1, <2>2, <2>5, <2>8, <2>9 DEF Shape
  <2>15. q.loaded = p.loaded /\ IdaReg(q) /\ HistoryReg(q) /\ NoRepeats(q.hist)
    BY <2>9, <2>10 DEF Good, IdaReg, HistoryReg
  <2>16. Contains(q.pend, "ida") \/ "ida" \in A \/ IdaTold(q)
    BY <2>9 DEF Good, IdaTold
  <2> QED
    BY <2>1, <2>9, <2>13, <2>14, <2>15, <2>16 DEF Good
<1> QED
  BY <1>2, <1>3

-----------------------------------------------------------------------------
(* Functions of the page that draw or ask.                                 *)

LEMMA SameEmit ==
  ASSUME NEW p, DOMAIN p = PageFields, NEW call
  PROVE  Same(p, Emit(p, call))
  BY DEF Same, Emit, PageFields

LEMMA SameDraw ==
  ASSUME NEW p, DOMAIN p = PageFields, NEW v
  PROVE  /\ Same(p, [p EXCEPT !.out = v]) /\ Same(p, [p EXCEPT !.vt = v]) /\ Same(p, [p EXCEPT !.drawn = v])
         /\ Same(p, [p EXCEPT !.flags = v]) /\ Same(p, [p EXCEPT !.pictures = v])
         /\ Same(p, [p EXCEPT !.overlays = v]) /\ Same(p, [p EXCEPT !.view = v])
         /\ Same(p, [p EXCEPT !.down = v]) /\ Same(p, [p EXCEPT !.back = v])
  BY DEF Same, PageFields

LEMMA SameFields ==
  ASSUME NEW p, DOMAIN p = PageFields, NEW q, Same(p, q)
  PROVE  DOMAIN q = PageFields
  BY DEF Same

LEMMA SameFlags ==
  ASSUME NEW p, DOMAIN p = PageFields, NEW type, NEW at
  PROVE  Same(p, AddFlags(p, type, at)) /\ Same(p, RemoveFlags(p, type))
  BY DEF Same, PageFields, AddFlags, RemoveFlags

LEMMA SameView ==
  ASSUME NEW p, DOMAIN p = PageFields, NEW v
  PROVE  /\ Same(p, UpdateControls(p)) /\ Same(p, Rehighlight(p))
         /\ Same(p, [p EXCEPT !.view.instructions = v]) /\ Same(p, [p EXCEPT !.view.memory = v])
         /\ Same(p, [p EXCEPT !.view.registers = v]) /\ Same(p, [p EXCEPT !.view.clnum = v])
  BY DEF Same, PageFields, UpdateControls, Rehighlight

LEMMA SamePicture ==
  ASSUME NEW p, DOMAIN p = PageFields, NEW f
  PROVE  Same(p, UpdatePicture(p, f)) /\ Same(p, OnSetpicture(p, f))
  BY DEF Same, PageFields, UpdatePicture, OnSetpicture

LEMMA SameRedraw ==
  ASSUME NEW p, DOMAIN p = PageFields
  PROVE  Same(p, RedrawFlags(p))
<1> DEFINE a == [p EXCEPT !.vt = DOMAIN p.s.max_clnum]
           b == RemoveFlags(a, "zoom")
           c == AddFlags(b, "zoom", ZoomFlags(p))
           d == [c EXCEPT !.pictures = {f \in c.vt : Drawable(c, f)}]
           q == [d EXCEPT !.drawn = Visible(d)]
<1>1. Same(p, a) /\ DOMAIN a = PageFields
  BY DEF Same, PageFields
<1>2. RedrawVtimelines(p) = d
  BY DEF RedrawVtimelines
<1>3. RedrawFlags(p) \in {p, q}
  BY <1>2 DEF RedrawFlags
<1> HIDE DEF a
<1>4. Same(a, b) /\ DOMAIN b = PageFields
  BY <1>1, SameFlags, SameFields
<1> HIDE DEF b
<1>5. Same(b, c) /\ DOMAIN c = PageFields
  BY <1>4, SameFlags, SameFields
<1> HIDE DEF c
<1>6. Same(c, d) /\ DOMAIN d = PageFields
  BY <1>5, SameDraw, SameFields
<1> HIDE DEF d
<1>7. Same(d, q)
  BY <1>6, SameDraw
<1> HIDE DEF q
<1>8. Same(p, p)
  BY DEF Same
<1>9. Same(p, q)
  BY <1>1, <1>4, <1>5, <1>6, <1>7, SameTrans
<1> QED
  BY <1>3, <1>8, <1>9

-----------------------------------------------------------------------------
(* Functions of the page that set session variables.                       *)

LEMMA GoodFields ==
  ASSUME NEW p, NEW A, NEW ld, Good(p, A, ld)
  PROVE  DOMAIN p = PageFields
  BY DEF Good, Shape

LEMMA GoodRedraw ==
  ASSUME NEW p, NEW A, NEW ld, Good(p, A, ld)
  PROVE  Good(RedrawFlags(p), A, ld)
  BY GoodFields, SameRedraw, GoodSame

LEMMA GoodFlags ==
  ASSUME NEW p, NEW A, NEW ld, Good(p, A, ld), NEW type, NEW at
  PROVE  Good(AddFlags(p, type, at), A, ld) /\ Good(RemoveFlags(p, type), A, ld)
  BY GoodFields, SameFlags, GoodSame

LEMMA GoodEmit ==
  ASSUME NEW p, NEW A, NEW ld, Good(p, A, ld), NEW call
  PROVE  Good(Emit(p, call), A, ld)
  BY GoodFields, SameEmit, GoodSame

LEMMA GoodUpdateDview ==
  ASSUME NEW p, NEW A, NEW ld, Good(p, A, ld), NEW addr
  PROVE  Good(UpdateDview(p, addr), A, ld)
<1>1. Good(Set(p, "daddr", addr), A, ld)
  BY GoodSet DEF SessionVars
<1>2. Good(Set(Set(p, "daddr", addr), "dview", addr - 2), A, ld)
  BY <1>1, GoodSet DEF SessionVars
<1> QED
  BY <1>2, GoodPushHistory DEF UpdateDview

LEMMA GoodUpdateIaddr ==
  ASSUME NEW p, NEW A, NEW ld, Good(p, A, ld), NEW addr, NEW dirty
  PROVE  Good(UpdateIaddr(p, addr, dirty), A, ld)
<1> DEFINE a == Set(p, "iaddr", addr)
           b == Set(a, "dirtyiaddr", TRUE)
           c == Set(b, "iview", addr)
<1>1. Good(a, A, ld)
  BY GoodSet DEF SessionVars
<1>2. Good(b, A, ld)
  <2> HIDE DEF a
  <2> QED
    BY <1>1, GoodSet DEF SessionVars
<1>3. Good(c, A, ld)
  <2> HIDE DEF b
  <2> QED
    BY <1>2, GoodSet DEF SessionVars
<1>4. UpdateIaddr(p, addr, dirty) = PushHistory(IF dirty THEN c ELSE a)
  BY DEF UpdateIaddr
<1> HIDE DEF a, c
<1>5. Good(IF dirty THEN c ELSE a, A, ld)
  BY <1>1, <1>3
<1> QED
  BY <1>4, <1>5, GoodPushHistory

LEMMA GoodZoomOutMax ==
  ASSUME NEW p, NEW A, NEW ld, Good(p, A, ld)
  PROVE  Good(ZoomOutMax(p), A, ld)
<1>1. Good(Set(p, "cview", <<0, AbsMaxclnum(p)>>), A, ld)
  BY GoodSet DEF SessionVars
<1>2. Good(PushHistory(Set(p, "cview", <<0, AbsMaxclnum(p)>>)), A, ld)
  BY <1>1, GoodPushHistory
<1> QED
  BY <1>2 DEF ZoomOutMax

LEMMA GoodSetDefault ==
  ASSUME NEW p, NEW A, NEW ld, Good(p, A, ld), NEW n \in SessionVars, NEW v
  PROVE  Good(SetDefault(p, n, v), A, ld)
  BY GoodSet DEF SetDefault

LEMMA GoodUpdateMaxclnum ==
  ASSUME NEW p, NEW A, NEW ld, Good(p, A, ld), NEW msg
  PROVE  Good(UpdateMaxclnum(p, msg), A, ld)
<1> DEFINE a == Set(p, "max_clnum", msg)
           b == IF a.s.cview = None \/ a.s.cview[1] = 0 THEN ZoomOutMax(a) ELSE a
           q == SetDefault(b, "forknum", 0)
           f == q.s.forknum
           r == SetDefault(q, "clnum", msg[f][2])
           t == Set(r, "clnum", msg[f][2])
<1>1. Good(a, A, ld)
  BY GoodSet DEF SessionVars
<1>2. UpdateMaxclnum(p, msg) \in {q, t, r}
  BY DEF UpdateMaxclnum
<1> HIDE DEF a
<1>3. Good(b, A, ld)
  BY <1>1, GoodZoomOutMax
<1> HIDE DEF b
<1>4. Good(q, A, ld)
  BY <1>3, GoodSetDefault DEF SessionVars
<1> HIDE DEF q
<1>5. Good(r, A, ld)
  BY <1>4, GoodSetDefault DEF SessionVars
<1> HIDE DEF r
<1>6. Good(t, A, ld)
  BY <1>5, GoodSet DEF SessionVars
<1> HIDE DEF t
<1> QED
  BY <1>2, <1>4, <1>5, <1>6

LEMMA GoodSetTwo ==
  ASSUME NEW p, NEW A, NEW ld, Good(p, A, ld), NEW m \in SessionVars, NEW u, NEW n \in SessionVars, NEW v
  PROVE  Good(Set(Set(p, m, u), n, v), A, ld)
<1>1. Good(Set(p, m, u), A, ld)
  BY GoodSet
<1> QED
  BY <1>1, GoodSet

LEMMA GoodOnSetclnum ==
  ASSUME NEW p, NEW A, NEW ld, Good(p, A, ld), NEW arg
  PROVE  Good(OnSetclnum(p, arg), A, ld)
<1>1. Good(Set(Set(p, "forknum", arg[1]), "clnum", arg[2]), A, ld)
  BY GoodSetTwo DEF SessionVars
<1> QED
  BY <1>1, GoodPushHistory DEF OnSetclnum

LEMMA GoodSelectFirstFork ==
  ASSUME NEW p, NEW A, NEW ld, Good(p, A, ld)
  PROVE  Good(SelectFirstFork(p), A, ld)
<1> DEFINE m == p.s.max_clnum
           q == Set(Set(p, "forknum", Min(DOMAIN m)), "clnum", m[Min(DOMAIN m)][2])
<1>1. Good(q, A, ld)
  BY GoodSetTwo DEF SessionVars
<1>2. SelectFirstFork(p) \in {p, q}
  BY DEF SelectFirstFork
<1> HIDE DEF q
<1> QED
  BY <1>1, <1>2

LEMMA GoodGoToFlag ==
  ASSUME NEW p, NEW A, NEW ld, Good(p, A, ld), NEW next, NEW data
  PROVE  Good(GoToFlag(p, next, data), A, ld)
<1> DEFINE cls == FlaggedClnums(p, data)
           after == {n \in cls : n > p.s.clnum}
           before == {n \in cls : n < p.s.clnum}
           q == IF next /\ after # {} THEN Set(p, "clnum", Min(after))
                ELSE IF ~next /\ before # {} THEN Set(p, "clnum", Max(before)) ELSE p
<1>1. GoToFlag(p, next, data) = PushHistory(q)
  BY DEF GoToFlag
<1> HIDE DEF after, before
<1>2. Good(q, A, ld)
  BY GoodSet DEF SessionVars
<1> HIDE DEF q
<1> QED
  BY <1>1, <1>2, GoodPushHistory

LEMMA GoodBoundsFlags ==
  ASSUME NEW p, NEW A, NEW ld, Good(p, A, ld)
  PROVE  Good(BoundsFlags(p), A, ld)
<1> DEFINE at == {<<f, p.s.max_clnum[f][i]>> : f \in DOMAIN p.s.max_clnum, i \in 1 .. 2}
           q == RedrawFlags(AddFlags(RemoveFlags(p, "bounds"), "bounds", at))
<1>1. BoundsFlags(p) \in {p, q}
  BY DEF BoundsFlags
<1> HIDE DEF at
<1>2. Good(q, A, ld)
  BY GoodFlags, GoodRedraw
<1> HIDE DEF q
<1> QED
  BY <1>1, <1>2

LEMMA GoodChangeFlag ==
  ASSUME NEW p, NEW A, NEW ld, Good(p, A, ld)
  PROVE  Good(ChangeFlag(p), A, ld)
<1> DEFINE q == RemoveFlags(p, "change")
           r == AddFlags(q, "change", {<<p.s.forknum, p.s.clnum>>})
           t == IF None \in {p.s.forknum, p.s.clnum} THEN q ELSE r
<1>1. ChangeFlag(p) = RedrawFlags(t)
  BY DEF ChangeFlag
<1>2. Good(q, A, ld)
  BY GoodFlags
<1> HIDE DEF q
<1>3. Good(r, A, ld)
  BY <1>2, GoodFlags
<1> HIDE DEF r
<1>4. Good(t, A, ld)
  BY <1>2, <1>3
<1> HIDE DEF t
<1> QED
  BY <1>1, <1>4, GoodRedraw

LEMMA GoodGetchanges ==
  ASSUME NEW p, NEW A, NEW ld, Good(p, A, ld)
  PROVE  Good(EmitGetchangesI(p), A, ld) /\ Good(EmitGetchangesD(p), A, ld)
<1>1. Good(EmitGetchangesI(p), A, ld)
  BY GoodEmit DEF EmitGetchangesI
<1> DEFINE Ask(q, type) == Emit(q, <<"getchanges", p.s.daddr, type, p.s.cview, GetCscale(p), p.s.clnum>>)
           a == Ask(p, "L")
           b == Ask(a, "S")
<1>2. EmitGetchangesD(p) = b
  BY DEF EmitGetchangesD
<1>3. Good(a, A, ld)
  BY GoodEmit
<1> HIDE DEF a
<1>4. Good(b, A, ld)
  BY <1>3, GoodEmit
<1> HIDE DEF b
<1> QED
  BY <1>1, <1>2, <1>4

LEMMA GoodOnChanges ==
  ASSUME NEW p, NEW A, NEW ld, Good(p, A, ld), NEW msg
  PROVE  Good(OnChanges(p, msg), A, ld)
<1> DEFINE here == {a[2] : a \in {b \in msg.at : b[1] = p.s.forknum}}
           follow == /\ msg.type = "I" /\ p.s.forknum \in msg.forks
                     /\ p.s.clnum \notin here /\ p.s.dirtyiaddr = TRUE
           to == Closest(here, p.s.clnum)
           moved == IF here = {} THEN p ELSE Set(p, "clnum", to)
           still == Set(moved, "dirtyiaddr", FALSE)
           q == IF follow THEN still ELSE p
           type == FlagType[msg.type]
           c == RemoveFlags(q, type)
           d == AddFlags(c, type, msg.at)
<1>1. OnChanges(p, msg) = RedrawFlags(d)
  BY DEF OnChanges
<1> HIDE DEF to, here, follow
<1>2. Good(moved, A, ld)
  BY GoodSet DEF SessionVars
<1> HIDE DEF moved
<1>3. Good(still, A, ld)
  BY <1>2, GoodSet DEF SessionVars
<1> HIDE DEF still
<1>4. Good(q, A, ld)
  BY <1>3
<1> HIDE DEF q, type
<1>5. Good(c, A, ld)
  BY <1>4, GoodFlags
<1> HIDE DEF c
<1>6. Good(d, A, ld)
  BY <1>5, GoodFlags
<1> HIDE DEF d
<1> QED
  BY <1>1, <1>6, GoodRedraw

LEMMA GoodDeleteAllForks ==
  ASSUME NEW p, NEW A, NEW ld, Good(p, A, ld)
  PROVE  Good(DeleteAllForks(p), A, ld)
<1> DEFINE fs == Ascending(IF p.s.max_clnum = None THEN {} ELSE DOMAIN p.s.max_clnum)
           o == p.out \o [i \in DOMAIN fs |-> <<"deletefork", fs[i]>>]
           q == [p EXCEPT !.out = o]
<1>1. DeleteAllForks(p) = RedrawFlags(q)
  BY DEF DeleteAllForks
<1> HIDE DEF o
<1>2. Good(q, A, ld)
  BY GoodFields, SameDraw, GoodSame
<1> HIDE DEF q
<1> QED
  BY <1>1, <1>2, GoodRedraw

LEMMA GoodWheelVtimeline ==
  ASSUME NEW p, NEW A, NEW ld, Good(p, A, ld), NEW d, NEW move
  PROVE  Good(WheelVtimeline(p, d, move), A, ld)
<1>1. \A v : Good(Set(p, "cview", v), A, ld)
  BY GoodSet DEF SessionVars
<1>2. WheelVtimeline(p, d, move) = p \/ \E v : WheelVtimeline(p, d, move) = Set(p, "cview", v)
  BY DEF WheelVtimeline
<1> QED
  BY <1>1, <1>2

LEMMA GoodMouseUp ==
  ASSUME NEW p, NEW A, NEW ld, Good(p, A, ld), NEW up, NEW f
  PROVE  Good(MouseUp(p, up, f), A, ld)
<1>1. \A v : Good(Set(p, "cview", v), A, ld)
  BY GoodSet DEF SessionVars
<1>2. Good(Set(Set(p, "clnum", up), "forknum", f), A, ld)
  BY GoodSetTwo DEF SessionVars
<1>3. \/ MouseUp(p, up, f) = p \/ MouseUp(p, up, f) = PushHistory(Set(Set(p, "clnum", up), "forknum", f))
      \/ \E v : MouseUp(p, up, f) = PushHistory(Set(p, "cview", v))
  BY DEF MouseUp
<1> QED
  BY <1>1, <1>2, <1>3, GoodPushHistory

LEMMA GoodAsk ==
  ASSUME NEW p, NEW A, NEW ld, Good(p, A, ld)
  PROVE  /\ Good(EmitGetinstructions(p), A, ld) /\ Good(EmitGetmemory(p), A, ld)
         /\ Good(EmitGetregisters(p), A, ld) /\ Good(EmitGetclnum(p), A, ld)
<1>1. \A c : Good(Emit(p, c), A, ld)
  BY GoodEmit
<1>2. Good([p EXCEPT !.view.memory = None], A, ld)
  BY GoodFields, SameView, GoodSame
<1> QED
  BY <1>1, <1>2 DEF EmitGetinstructions, EmitGetmemory, EmitGetregisters, EmitGetclnum

\* Answers are rendered.
LEMMA GoodRehighlight ==
  ASSUME NEW p, NEW A, NEW ld, Good(p, A, ld)
  PROVE  Good(Rehighlight(p), A, ld) /\ Good(UpdateControls(p), A, ld)
  BY GoodFields, SameView, GoodSame

LEMMA GoodRender ==
  ASSUME NEW p, NEW A, NEW ld, Good(p, A, ld), NEW at
  PROVE  /\ Good([p EXCEPT !.view.instructions = at], A, ld)
         /\ Good(OnMemory(p, at), A, ld) /\ Good(OnRegisters(p, at), A, ld) /\ Good(OnClnum(p, at), A, ld)
<1>1. /\ Good([p EXCEPT !.view.instructions = at], A, ld) /\ Good([p EXCEPT !.view.memory = at], A, ld)
      /\ Good([p EXCEPT !.view.registers = at], A, ld) /\ Good([p EXCEPT !.view.clnum = at], A, ld)
  <2> DEFINE a == [p EXCEPT !.view.instructions = at]
             b == [p EXCEPT !.view.memory = at]
             c == [p EXCEPT !.view.registers = at]
             d == [p EXCEPT !.view.clnum = at]
  <2>1. Same(p, a) /\ Same(p, b) /\ Same(p, c) /\ Same(p, d)
    BY GoodFields, SameView
  <2> HIDE DEF a, b, c, d
  <2>2. Good(a, A, ld) /\ Good(b, A, ld) /\ Good(c, A, ld) /\ Good(d, A, ld)
    BY <2>1, GoodSame
  <2> QED
    BY <2>2 DEF a, b, c, d
<1>2. Good(OnMemory(p, at), A, ld)
  BY <1>1, GoodRehighlight DEF OnMemory
<1>3. Good(OnRegisters(p, at), A, ld)
  BY <1>1, GoodRehighlight DEF OnRegisters
<1>4. Good(OnClnum(p, at), A, ld)
  BY <1>1 DEF OnClnum
<1> QED
  BY <1>1, <1>2, <1>3, <1>4

LEMMA GoodOnInstructions ==
  ASSUME NEW p, NEW A, NEW ld, Good(p, A, ld), NEW msg
  PROVE  Good(OnInstructions(p, msg), A, ld)
<1> DEFINE n == p.s.clnum
           a == Set(Set(p, "iaddr", msg.rows[n]), "iview", msg.rows[n])
           throwing == {i \in DOMAIN msg.rows : ~Typed(p) /\ msg.rows[i] \notin Plain}
           q == IF n \in DOMAIN msg.rows /\ \A i \in throwing : n <= i THEN a ELSE p
           r == [q EXCEPT !.view.instructions = msg]
<1>1. OnInstructions(p, msg) \in {Rehighlight(r), q}
  BY DEF OnInstructions
<1>2. Good(a, A, ld)
  BY GoodSetTwo DEF SessionVars
<1> HIDE DEF a
<1>3. Good(q, A, ld)
  BY <1>2
<1> HIDE DEF q
<1>4. Good(r, A, ld)
  BY <1>3, GoodRender
<1> HIDE DEF r
<1> QED
  BY <1>1, <1>3, <1>4, GoodRehighlight

LEMMA GoodOnIdaIaddr ==
  ASSUME NEW p, NEW A, NEW ld, Good(p, A, ld), NEW addr
  PROVE  Good(OnIdaIaddr(p, addr), A, ld)
  BY GoodSetTwo DEF OnIdaIaddr, SessionVars

LEMMA GoodOnSetpicture ==
  ASSUME NEW p, NEW A, NEW ld, Good(p, A, ld), NEW f
  PROVE  Good(OnSetpicture(p, f), A, ld)
  BY GoodFields, SamePicture, GoodSame

-----------------------------------------------------------------------------
(* The socket to IDA and the timeouts.                                     *)

SocketFields == {"ws", "onopen", "ida", "lost", "timers"}

\* q is p but for the socket and the timeouts.
SocketOnly(p, q) ==
  /\ DOMAIN q = DOMAIN p
  /\ q.s = p.s /\ q.deps = p.deps /\ q.pend = p.pend /\ q.scenario = p.scenario
  /\ q.loaded = p.loaded /\ q.hist = p.hist /\ q.hpos = p.hpos

\* The socket opens.
LEMMA GoodOnOpen ==
  ASSUME NEW p, NEW A, NEW ld, Good(p, A, ld), p.ws = "connecting"
  PROVE  Good(OnOpen(p), A, ld)
<1> DEFINE q == OnOpen(p)
<1>1. /\ SocketOnly(p, q) /\ q.ws = "open" /\ q.ida = p.onopen /\ q.lost = p.lost /\ q.timers = p.timers
  BY DEF Good, Shape, PageFields, OnOpen, SocketOnly
<1> HIDE DEF q
<1>2. Shape(q)
  BY <1>1 DEF Good, Shape, SocketOnly
<1>3. IdaReg(q) /\ HistoryReg(q) /\ NoRepeats(q.hist) /\ q.loaded = p.loaded
  BY <1>1 DEF Good, IdaReg, HistoryReg, SocketOnly
<1>4. IdaTold(p) => IdaTold(q)
  BY <1>1 DEF IdaTold, SocketOnly
<1>5. HistoryTold(p) => HistoryTold(q)
  BY <1>1 DEF HistoryTold, SocketOnly
<1>6. q.pend = p.pend /\ q.deps = p.deps
  BY <1>1 DEF SocketOnly
<1> QED
  BY <1>2, <1>3, <1>4, <1>5, <1>6 DEF Good, q

\* IDA goes away.
LEMMA GoodClosed ==
  ASSUME NEW p, NEW A, NEW ld, Good(p, A, ld), p.ws \in {"connecting", "open"}
  PROVE  Good([p EXCEPT !.ws = "closed"], A, ld)
<1> DEFINE q == [p EXCEPT !.ws = "closed"]
<1>1. /\ SocketOnly(p, q) /\ q.ws = "closed" /\ q.timers = p.timers
  BY DEF Good, Shape, PageFields, SocketOnly
<1> HIDE DEF q
<1>2. Shape(q)
  BY <1>1 DEF Good, Shape, SocketOnly
<1>3. IdaReg(q) /\ HistoryReg(q) /\ NoRepeats(q.hist) /\ q.loaded = p.loaded
  BY <1>1 DEF Good, IdaReg, HistoryReg, SocketOnly
<1>4. IdaTold(q)
  BY <1>1 DEF IdaTold
<1>5. HistoryTold(p) => HistoryTold(q)
  BY <1>1 DEF HistoryTold, SocketOnly
<1>6. q.pend = p.pend /\ q.deps = p.deps
  BY <1>1 DEF SocketOnly
<1> QED
  BY <1>2, <1>3, <1>4, <1>5, <1>6 DEF Good, q

\* do_ida_socket, as far as the page that has opened the socket is concerned.
LEMMA IdaSocket ==
  ASSUME NEW p, Shape(p)
  PROVE  LET q == DoIdaSocket(p)
         IN  SocketOnly(p, q) /\ q.timers = p.timers /\ IdaTold(q)
  BY DEF Shape, PageFields, DoIdaSocket, SocketOnly, IdaTold

\* The history autorun.
LEMMA HistoryRun ==
  ASSUME NEW p, Shape(p)
  PROVE  LET q == HistoryAutorun(p)
         IN  /\ SocketOnly(p, q) /\ q.timers \in Nat /\ q.timers > 0
             /\ q.ws = p.ws /\ q.onopen = p.onopen /\ q.ida = p.ida /\ q.lost = p.lost
  BY HistoryAssumption DEF Shape, PageFields, HistoryAutorun, SocketOnly

LEMMA RunIda ==
  ASSUME NEW p, NEW A, NEW ld, Good(p, A, ld)
  PROVE  LET q == Run(p, "ida")
         IN  /\ Shape(q) /\ q.loaded = p.loaded /\ q.pend = p.pend /\ q.deps = p.deps /\ q.hist = p.hist
             /\ HistoryReg(q) /\ IdaTold(q) /\ (HistoryTold(p) => HistoryTold(q))
             /\ q.scenario = p.scenario
<1> DEFINE q == DoIdaSocket(p)
<1>1. Run(p, "ida") = q
  BY DEF Run
<1>2. SocketOnly(p, q) /\ q.timers = p.timers /\ IdaTold(q)
  BY IdaSocket DEF Good
<1> HIDE DEF q
<1>3. Shape(q)
  BY <1>2 DEF Good, Shape, SocketOnly
<1>4. HistoryReg(q)
  BY <1>2 DEF Good, HistoryReg, SocketOnly
<1>5. HistoryTold(p) => HistoryTold(q)
  BY <1>2 DEF HistoryTold, SocketOnly
<1> QED
  BY <1>1, <1>2, <1>3, <1>4, <1>5 DEF SocketOnly

\* The autorun of ida.js, registered: B may or may not hold it once more.
LEMMA RunIdaAgain ==
  ASSUME NEW p, NEW A, NEW ld, Good(p, A, ld), Contains(p.deps["iaddr"], "ida"),
         NEW B, A \ {"ida"} \subseteq B
  PROVE  Good(Run(p, "ida"), B, ld)
<1> DEFINE q == Run(p, "ida")
<1>1. /\ Shape(q) /\ q.loaded = p.loaded /\ q.pend = p.pend /\ q.deps = p.deps /\ q.hist = p.hist
      /\ HistoryReg(q) /\ IdaTold(q) /\ (HistoryTold(p) => HistoryTold(q))
  BY RunIda
<1> HIDE DEF q
<1>2. IdaReg(q)
  BY <1>1 DEF IdaReg
<1>3. "history" \in A => "history" \in B
  OBVIOUS
<1>4. Contains(q.pend, "history") \/ "history" \in B \/ HistoryTold(q)
  BY <1>1, <1>3 DEF Good
<1> QED
  BY <1>1, <1>2, <1>4 DEF Good, q

LEMMA RunHistory ==
  ASSUME NEW p, NEW A, NEW ld, Good(p, A, ld), NEW B, A \ {"history"} \subseteq B, B \subseteq A
  PROVE  Good(Run(p, "history"), B, ld)
<1> DEFINE q == HistoryAutorun(p)
<1>1. Run(p, "history") = q
  BY DEF Run
<1>2. /\ SocketOnly(p, q) /\ q.timers \in Nat /\ q.timers > 0
      /\ q.ws = p.ws /\ q.onopen = p.onopen /\ q.ida = p.ida /\ q.lost = p.lost
  BY HistoryRun DEF Good
<1> HIDE DEF q
<1>3. Shape(q)
  BY <1>2 DEF Good, Shape, SocketOnly
<1>4. HistoryReg(q) /\ IdaReg(q) /\ NoRepeats(q.hist) /\ q.loaded = p.loaded
  BY <1>2 DEF Good, HistoryReg, IdaReg, SocketOnly
<1>5. HistoryTold(q)
  BY <1>2 DEF HistoryTold
<1>6. q.pend = p.pend /\ q.deps = p.deps
  BY <1>2 DEF SocketOnly
<1>7. IdaTold(p) => IdaTold(q)
  BY <1>2 DEF IdaTold, SocketOnly
<1>8. "ida" \in A <=> "ida" \in B
  OBVIOUS
<1>9. /\ "ida" \in B => Contains(q.deps["iaddr"], "ida")
      /\ Contains(q.pend, "ida") \/ "ida" \in B \/ IdaTold(q)
  BY <1>6, <1>7, <1>8 DEF Good
<1> QED
  BY <1>1, <1>3, <1>4, <1>5, <1>9 DEF Good

LEMMA RunOther ==
  ASSUME NEW p, NEW A, NEW ld, Good(p, A, ld), NEW f \in Fxns \ {"ida", "history"}
  PROVE  Good(Run(p, f), A, ld)
<1>1. CASE f = "rehighlight"
  BY <1>1, GoodRehighlight DEF Run
<1>2. CASE f = "firstfork"
  BY <1>2, GoodSelectFirstFork DEF Run
<1>3. CASE f = "controls"
  BY <1>3, GoodRehighlight DEF Run
<1>4. CASE f \in {"instructions", "memory", "registers", "clnum"}
  BY <1>4, GoodAsk DEF Run
<1>5. CASE f = "bounds"
  BY <1>5, GoodBoundsFlags DEF Run
<1>6. CASE f = "change"
  BY <1>6, GoodChangeFlag DEF Run
<1>7. CASE f \in {"ichanges", "dchanges"}
  BY <1>7, GoodGetchanges DEF Run
<1> QED
  BY <1>1, <1>2, <1>3, <1>4, <1>5, <1>6, <1>7 DEF Fxns

\* Only two of the autoruns to be run matter.
LEMMA GoodBut ==
  ASSUME NEW p, NEW A, NEW ld, Good(p, A, ld), NEW B, A \cap {"ida", "history"} = B \cap {"ida", "history"}
  PROVE  Good(p, B, ld)
  BY DEF Good

LEMMA RunGood ==
  ASSUME NEW p, NEW A, NEW ld, Good(p, A, ld), NEW f \in Fxns, f \in A,
         NEW B, A \subseteq B \cup {f}, B \subseteq A
  PROVE  Good(Run(p, f), B, ld)
<1>1. CASE f = "ida"
  <2>1. Contains(p.deps["iaddr"], "ida")
    BY <1>1 DEF Good
  <2> QED
    BY <1>1, <2>1, RunIdaAgain
<1>2. CASE f = "history"
  BY <1>2, RunHistory
<1>3. CASE f \notin {"ida", "history"}
  <2>1. Good(Run(p, f), A, ld)
    BY <1>3, RunOther
  <2>2. A \cap {"ida", "history"} = B \cap {"ida", "history"}
    BY <1>3
  <2> QED
    BY <2>1, <2>2, GoodBut
<1> QED
  BY <1>1, <1>2, <1>3

-----------------------------------------------------------------------------
(* Loops over autoruns, keys and scripts.                                  *)

RunFold == INSTANCE FoldProofs WITH Op <- Run
StartFold == INSTANCE FoldProofs WITH Op <- Start
RestoreFold == INSTANCE FoldProofs WITH Op <- RestoreKey
LoadFold == INSTANCE FoldProofs WITH Op <- LoadNext

LEMMA RunAllIsFold ==
  ASSUME NEW p, NEW q
  PROVE  RunAll(p, q) = RunFold!Result(p, q)
  BY Zenon DEF RunAll, FoldLeft, MapThenFoldSet, Max, RunFold!Result, RunFold!IsFold, RunFold!Max

LEMMA StartAllIsFold ==
  ASSUME NEW p, NEW q
  PROVE  StartAll(p, q) = StartFold!Result(p, q)
  BY Zenon DEF StartAll, FoldLeft, MapThenFoldSet, Max, StartFold!Result, StartFold!IsFold, StartFold!Max

LEMMA RestoreAllIsFold ==
  ASSUME NEW p, NEW q
  PROVE  RestoreAll(p, q) = RestoreFold!Result(p, q)
  BY Zenon DEF RestoreAll, FoldLeft, MapThenFoldSet, Max, RestoreFold!Result, RestoreFold!IsFold, RestoreFold!Max

LEMMA LoadAllIsFold ==
  ASSUME NEW p, NEW q
  PROVE  LoadAll(p, q) = LoadFold!Result(p, q)
  BY Zenon DEF LoadAll, FoldLeft, MapThenFoldSet, Max, LoadFold!Result, LoadFold!IsFold, LoadFold!Max

LEMMA GoodTakePend ==
  ASSUME NEW p, NEW ld, Good(p, {}, ld)
  PROVE  Good(TakePend(p), ToSet(p.pend), ld)
<1> DEFINE q == TakePend(p)
<1>1. Shape(p)
  BY DEF Good
<1>2. /\ DOMAIN q = PageFields /\ q.pend = <<>>
      /\ q.s = p.s /\ q.deps = p.deps /\ q.scenario = p.scenario
      /\ q.loaded = p.loaded /\ q.hist = p.hist /\ q.hpos = p.hpos /\ q.timers = p.timers
      /\ q.ws = p.ws /\ q.onopen = p.onopen /\ q.ida = p.ida /\ q.lost = p.lost
  BY <1>1 DEF Shape, TakePend, PageFields
<1>3. \A y : Contains(p.pend, y) <=> y \in ToSet(p.pend)
  <2>1. PICK n \in Nat : n = Len(p.pend) /\ DOMAIN p.pend = 1 .. n
    BY <1>1 DEF Shape
  <2> QED
    BY <2>1 DEF Contains, ToSet
<1>4. \A y : ~Contains(q.pend, y)
  BY <1>2 DEF Contains
<1> HIDE DEF q
<1>5. Shape(q)
  BY <1>1, <1>2 DEF Shape
<1>6. IdaReg(q) /\ HistoryReg(q) /\ NoRepeats(q.hist)
  BY <1>2, <1>4 DEF Good, IdaReg, HistoryReg
<1>7. (IdaTold(p) => IdaTold(q)) /\ (HistoryTold(p) => HistoryTold(q))
  BY <1>2 DEF IdaTold, HistoryTold
<1>8. "ida" \in ToSet(p.pend) => Contains(q.deps["iaddr"], "ida")
  BY <1>2, <1>3 DEF Good, IdaReg
<1> QED
  BY <1>2, <1>3, <1>5, <1>6, <1>7, <1>8 DEF Good, q

\* Session._process.
LEMMA GoodProcess ==
  ASSUME NEW p, NEW ld, Good(p, {}, ld)
  PROVE  Good(RunAll(TakePend(p), p.pend), {}, ld)
<1> DEFINE q == p.pend
           b == TakePend(p)
<1>1. PICK n \in Nat : n = Len(q) /\ DOMAIN q = 1 .. n
  BY DEF Good, Shape
<1>a. \A i \in 1 .. n : q[i] \in Fxns
  BY <1>1 DEF Good, Shape
<1>2. Good(b, ToSet(q), ld)
  BY GoodTakePend
<1> HIDE DEF b, q
<1>3. PICK r : RunFold!Steps(r, b, q, n)
  BY <1>1, RunFold!FoldSteps
<1>4. /\ r[0] = b /\ RunAll(b, q) = r[n]
      /\ \A i \in 1 .. n : r[i] = Run(r[i - 1], q[i])
  BY <1>3, RunAllIsFold DEF RunFold!Steps
<1> DEFINE A(i) == {q[j] : j \in (i + 1) .. n}
           T == {i \in 0 .. n : Good(r[i], A(i), ld)}
<1>5. 0 \in T
  <2>1. A(0) = ToSet(q)
    BY <1>1 DEF ToSet
  <2> HIDE DEF A
  <2> QED
    BY <1>2, <1>4, <2>1
<1>6. ASSUME NEW i \in 1 .. n, i - 1 \in T PROVE i \in T
  <2>a. PICK f \in Fxns : f = q[i]
    BY <1>a
  <2>b. PICK c : c = r[i - 1]
    OBVIOUS
  <2>1. c = r[i - 1] /\ f = q[i]
    BY <2>a, <2>b
  <2>2. Good(c, A(i - 1), ld)
    BY <1>6, <2>1
  <2>3. \A j : j \in (i - 1 + 1) .. n <=> j = i \/ j \in (i + 1) .. n
    OBVIOUS
  <2>4. f \in A(i - 1) /\ A(i - 1) \subseteq A(i) \cup {f} /\ A(i) \subseteq A(i - 1)
    BY <2>1, <2>3
  <2> HIDE DEF A
  <2>5. Good(Run(c, f), A(i), ld)
    BY <2>2, <2>4, RunGood
  <2> QED
    BY <1>4, <2>1, <2>5
<1> HIDE DEF T
<1>7. n \in T
  <2>1. 0 .. n \subseteq T
    BY <1>5, <1>6, RunFold!UpTo
  <2> QED
    BY <2>1
<1>8. A(n) = {}
  OBVIOUS
<1>9. Good(r[n], A(n), ld)
  BY <1>7 DEF T
<1> HIDE DEF A
<1> QED
  BY <1>4, <1>8, <1>9 DEF b, q

\* onpopstate, after the position in the history has moved: the view is the entry,
\* or a variable of it was set.
LEMMA GoodRestore ==
  ASSUME NEW p, NEW ld, Good(p, {"history"}, ld), Scenarios[p.scenario].history > 0
  PROVE  Good(RestoreAll(p, HistoryKeys), {}, ld)
<1> DEFINE q == HistoryKeys
           e == p.hist[p.hpos]
<1>1. PICK n \in Nat : n = Len(q) /\ DOMAIN q = 1 .. n
  BY KeysOfView
<1>a. \A i \in 1 .. n : q[i] \in SessionVars
  BY <1>1, KeysOfView
<1>b. \A k \in ViewVars : \E j \in 1 .. n : q[j] = k
  BY <1>1, KeysOfView DEF ToSet
<1> HIDE DEF q
<1>2. PICK r : RestoreFold!Steps(r, p, q, n)
  BY <1>1, RestoreFold!FoldSteps
<1>3. /\ r[0] = p /\ RestoreAll(p, q) = r[n]
      /\ \A i \in 1 .. n : r[i] = RestoreKey(r[i - 1], q[i])
  BY <1>2, RestoreAllIsFold DEF RestoreFold!Steps
<1> DEFINE Restored(c, i) == \A j \in 1 .. i : q[j] \in ViewVars => c.s[q[j]] = e[q[j]]
           W(i) == /\ Good(r[i], {"history"}, ld) /\ r[i].hist = p.hist /\ r[i].hpos = p.hpos
                   /\ r[i].scenario = p.scenario
                   /\ Contains(r[i].pend, "history") \/ Restored(r[i], i)
           T == {i \in 0 .. n : W(i)}
<1>4. 0 \in T
  BY <1>3
<1>5. ASSUME NEW i \in 1 .. n, i - 1 \in T PROVE i \in T
  <2>a. PICK k \in SessionVars : k = q[i]
    BY <1>a
  <2>b. PICK c : c = r[i - 1]
    OBVIOUS
  <2>1. /\ Good(c, {"history"}, ld) /\ c.hist = p.hist /\ c.hpos = p.hpos /\ c.scenario = p.scenario
        /\ Contains(c.pend, "history") \/ Restored(c, i - 1)
    BY <1>5, <2>b
  <2>2. \A j : j \in 1 .. i <=> j \in 1 .. (i - 1) \/ j = i
    OBVIOUS
  <2>3. PICK d : d = RestoreKey(c, k) /\ r[i] = d
    BY <1>3, <2>a, <2>b
  <2>4. CASE d = c /\ c.s[k] = e[k]
    <3>1. Restored(c, i - 1) => Restored(c, i)
      BY <2>2, <2>4, <2>a
    <3> HIDE DEF Restored
    <3> QED
      BY <2>1, <2>3, <2>4, <3>1
  <2>5. CASE d = Set(c, k, e[k])
    <3>1. Good(d, {"history"}, ld)
      BY <2>1, <2>5, GoodSet
    <3>2. /\ d.hist = c.hist /\ d.hpos = c.hpos /\ d.scenario = c.scenario
          /\ \A y : Contains(d.pend, y) <=> Contains(c.pend, y) \/ Contains(c.deps[k], y)
          /\ d.s[k] = e[k] /\ \A m \in SessionVars : m # k => d.s[m] = c.s[m]
      BY <2>1, <2>5, ShapeFrame, SetFields DEF Good
    <3>3. CASE k \in ViewVars
      <4>1. Scenarios[c.scenario].history > 0
        BY <2>1
      <4>2. Contains(c.deps[k], "history")
        BY <2>1, <3>3, <4>1 DEF Good, HistoryReg
      <4> QED
        BY <2>1, <2>3, <3>1, <3>2, <4>2
    <3>4. CASE k \notin ViewVars
      <4>1. ASSUME Restored(c, i - 1) PROVE Restored(d, i)
        <5>1. ASSUME NEW j \in 1 .. i, q[j] \in ViewVars PROVE d.s[q[j]] = e[q[j]]
          <6>1. j \in 1 .. (i - 1)
            BY <2>2, <2>a, <3>4, <5>1
          <6>2. c.s[q[j]] = e[q[j]]
            BY <4>1, <5>1, <6>1
          <6>3. q[j] \in SessionVars /\ q[j] # k
            BY <1>a, <3>4, <5>1
          <6> QED
            BY <3>2, <6>2, <6>3
        <5> QED
          BY <5>1
      <4> HIDE DEF Restored
      <4> QED
        BY <2>1, <2>3, <3>1, <3>2, <4>1
    <3> QED
      BY <3>3, <3>4
  <2>6. (d = c /\ c.s[k] = e[k]) \/ d = Set(c, k, e[k])
    BY <2>1, <2>3 DEF RestoreKey
  <2> QED
    BY <2>4, <2>5, <2>6
<1> HIDE DEF T
<1>6. n \in T
  <2>1. 0 .. n \subseteq T
    BY <1>4, <1>5, RestoreFold!UpTo
  <2> QED
    BY <2>1
<1>7. PICK c : c = r[n]
  OBVIOUS
<1>8. /\ Good(c, {"history"}, ld) /\ c.hist = p.hist /\ c.hpos = p.hpos
      /\ Contains(c.pend, "history") \/ Restored(c, n)
  BY <1>6, <1>7 DEF T
<1>9. ASSUME Restored(c, n) PROVE HistoryTold(c)
  <2>1. \A k \in ViewVars : c.s[k] = e[k]
    BY <1>9, <1>b
  <2> QED
    BY <1>8, <2>1 DEF HistoryTold
<1> HIDE DEF Restored
<1>10. Good(c, {}, ld)
  BY <1>8, <1>9 DEF Good
<1> QED
  BY <1>3, <1>7, <1>10 DEF q

-----------------------------------------------------------------------------
(* The scripts.                                                            *)

LEMMA AppendContains ==
  ASSUME NEW S, NEW b \in Seq(S), NEW x \in S
  PROVE  /\ Append(b, x) \in Seq(S)
         /\ \A y : Contains(Append(b, x), y) <=> Contains(b, y) \/ y = x
<1>1. /\ Append(b, x) \in Seq(S) /\ Len(Append(b, x)) = Len(b) + 1
      /\ \A i \in 1 .. Len(b) : Append(b, x)[i] = b[i]
      /\ Append(b, x)[Len(b) + 1] = x
  BY AppendProperties
<1> DEFINE c == Append(b, x)
<1> HIDE DEF c
<1>2. PICK l \in Nat : l = Len(b)
  OBVIOUS
<1>3. \A y : Contains(c, y) <=> Contains(b, y) \/ y = x
  BY <1>1, <1>2 DEF Contains, c
<1> QED
  BY <1>1, <1>3 DEF c

\* t is q with the autorun f registered for the variables in T.
Registered(q, t, f, T) ==
  /\ DOMAIN t = PageFields /\ t.pend = q.pend
  /\ t.s = q.s /\ t.scenario = q.scenario
  /\ t.loaded = q.loaded /\ t.hist = q.hist /\ t.hpos = q.hpos /\ t.timers = q.timers
  /\ t.ws = q.ws /\ t.onopen = q.onopen /\ t.ida = q.ida /\ t.lost = q.lost
  /\ Shape(t)
  /\ \A n \in SessionVars : \A y : Contains(t.deps[n], y) <=> Contains(q.deps[n], y) \/ (n \in T /\ y = f)

LEMMA AutorunRegisters ==
  ASSUME NEW q, Shape(q), NEW f \in Fxns, NEW T
  PROVE  Registered(q, Autorun(q, f, T), f, T)
<1> DEFINE t == Autorun(q, f, T)
<1>1. /\ DOMAIN t = PageFields /\ t.pend = q.pend
      /\ t.s = q.s /\ t.scenario = q.scenario
      /\ t.loaded = q.loaded /\ t.hist = q.hist /\ t.hpos = q.hpos /\ t.timers = q.timers
      /\ t.ws = q.ws /\ t.onopen = q.onopen /\ t.ida = q.ida /\ t.lost = q.lost
  BY DEF Shape, Autorun, PageFields
<1>2. t.deps = [n \in SessionVars |-> IF n \in T THEN Append(q.deps[n], f) ELSE q.deps[n]]
  BY DEF Shape, Autorun, PageFields
<1> HIDE DEF t
<1>3. ASSUME NEW n \in SessionVars
      PROVE  /\ t.deps[n] \in Seq(Fxns)
             /\ \A y : Contains(t.deps[n], y) <=> Contains(q.deps[n], y) \/ (n \in T /\ y = f)
  <2>1. PICK b \in Seq(Fxns) : b = q.deps[n]
    BY DEF Shape
  <2>2. Append(b, f) \in Seq(Fxns) /\ \A y : Contains(Append(b, f), y) <=> Contains(b, y) \/ y = f
    BY AppendContains
  <2>3. t.deps[n] = IF n \in T THEN Append(b, f) ELSE b
    BY <1>2, <2>1
  <2> QED
    BY <2>1, <2>2, <2>3
<1>4. DOMAIN t.deps = SessionVars
  BY <1>2
<1>5. Shape(t)
  BY <1>1, <1>3, <1>4 DEF Shape
<1> QED
  BY <1>1, <1>3, <1>5 DEF Registered, t

\* An autorun other than the one of ida.js is registered.
LEMMA GoodRegistered ==
  ASSUME NEW q, NEW ld, Good(q, {}, ld), NEW t, NEW f, f # "ida", NEW T, Registered(q, t, f, T)
  PROVE  Good(t, {}, ld)
<1>1. Shape(t)
  BY DEF Registered
<1>2. \A n \in SessionVars : Contains(t.deps[n], "ida") <=> Contains(q.deps[n], "ida")
  BY DEF Registered
<1>3. IdaReg(t)
  <2>1. "iaddr" \in SessionVars
    BY DEF SessionVars
  <2> QED
    BY <1>2, <2>1 DEF Good, IdaReg, Registered
<1>4. HistoryReg(t)
  <2>1. ViewVars \subseteq SessionVars
    BY DEF ViewVars, SessionVars
  <2> QED
    BY <2>1 DEF Good, HistoryReg, Registered
<1>5. IdaTold(q) => IdaTold(t)
  BY DEF IdaTold, Registered
<1>6. HistoryTold(q) => HistoryTold(t)
  BY DEF HistoryTold, Registered
<1> QED
  BY <1>1, <1>3, <1>4, <1>5, <1>6 DEF Good, Registered

LEMMA GoodStart ==
  ASSUME NEW p, NEW ld, Good(p, {}, ld), NEW f \in Fxns
  PROVE  Good(Start(p, f), {}, ld)
<1> DEFINE q == Run(p, f)
           T == Tracked(p, f)
           t == Autorun(q, f, T)
<1>1. Start(p, f) \in {p, t}
  BY DEF Start
<1>2. CASE f = "ida"
  <2>1. /\ Shape(q) /\ q.loaded = p.loaded /\ q.pend = p.pend /\ q.deps = p.deps /\ q.hist = p.hist
        /\ HistoryReg(q) /\ IdaTold(q) /\ (HistoryTold(p) => HistoryTold(q))
        /\ q.scenario = p.scenario
    BY <1>2, RunIda
  <2>2. T = {"iaddr"}
    BY <1>2 DEF Tracked
  <2> HIDE DEF q, T
  <2>3. Registered(q, t, f, T)
    BY <2>1, AutorunRegisters
  <2> HIDE DEF t
  <2>4. Contains(t.deps["iaddr"], "ida")
    BY <1>2, <2>2, <2>3 DEF Registered, SessionVars
  <2>5. IdaReg(t)
    BY <2>4 DEF IdaReg
  <2>6. HistoryReg(t)
    <3>1. ViewVars \subseteq SessionVars
      BY DEF ViewVars, SessionVars
    <3> QED
      BY <2>1, <2>3, <3>1 DEF HistoryReg, Registered
  <2>7. IdaTold(t)
    BY <2>1, <2>3 DEF IdaTold, Registered
  <2>8. HistoryTold(q) => HistoryTold(t)
    BY <2>3 DEF HistoryTold, Registered
  <2>9. Good(t, {}, ld)
    BY <2>1, <2>3, <2>5, <2>6, <2>7, <2>8 DEF Good, Registered
  <2> QED
    BY <1>1, <2>9
<1>3. CASE f # "ida"
  <2>1. Good(q, {}, ld)
    <3>1. CASE f = "history"
      BY <3>1, RunHistory
    <3>2. CASE f # "history"
      BY <1>3, <3>2, RunOther
    <3> QED
      BY <3>1, <3>2
  <2> HIDE DEF q, T
  <2>2. Registered(q, t, f, T)
    BY <2>1, AutorunRegisters DEF Good
  <2> HIDE DEF t
  <2>3. Good(t, {}, ld)
    BY <1>3, <2>1, <2>2, GoodRegistered
  <2> QED
    BY <1>1, <2>3
<1> QED
  BY <1>2, <1>3

LEMMA GoodStartAll ==
  ASSUME NEW p, NEW ld, Good(p, {}, ld), NEW q \in Seq(Fxns)
  PROVE  Good(StartAll(p, q), {}, ld)
<1>1. PICK n \in Nat : n = Len(q) /\ DOMAIN q = 1 .. n
  OBVIOUS
<1>2. PICK r : StartFold!Steps(r, p, q, n)
  BY <1>1, StartFold!FoldSteps
<1>3. /\ r[0] = p /\ StartAll(p, q) = r[n]
      /\ \A i \in 1 .. n : r[i] = Start(r[i - 1], q[i])
  BY <1>2, StartAllIsFold DEF StartFold!Steps
<1> DEFINE T == {i \in 0 .. n : Good(r[i], {}, ld)}
<1>4. 0 \in T
  BY <1>3
<1>5. ASSUME NEW i \in 1 .. n, i - 1 \in T PROVE i \in T
  <2>a. PICK f \in Fxns : f = q[i]
    BY <1>1
  <2>b. PICK c : c = r[i - 1]
    OBVIOUS
  <2>1. Good(c, {}, ld)
    BY <1>5, <2>b
  <2>2. Good(Start(c, f), {}, ld)
    BY <2>1, GoodStart
  <2> QED
    BY <1>3, <2>a, <2>b, <2>2
<1> HIDE DEF T
<1>6. n \in T
  <2>1. 0 .. n \subseteq T
    BY <1>4, <1>5, StartFold!UpTo
  <2> QED
    BY <2>1
<1> QED
  BY <1>3, <1>6 DEF T

LEMMA ScriptsAre ==
  /\ Len(Scripts) = 6 /\ Scripts[1].autoruns = <<"history", "rehighlight">>
  /\ \A i \in 1 .. 6 : Scripts[i].autoruns \in Seq(Fxns)
<1>1. Len(Scripts) = 6
  BY DEF Scripts
<1>2. /\ Scripts[1].autoruns = <<"history", "rehighlight">>
      /\ Scripts[2].autoruns = <<"firstfork", "controls">>
      /\ Scripts[3].autoruns = <<"ida">>
      /\ Scripts[4].autoruns = <<"instructions">>
      /\ Scripts[5].autoruns = <<"memory", "registers", "clnum">>
      /\ Scripts[6].autoruns = <<"bounds", "change", "ichanges", "dchanges">>
  BY DEF Scripts
<1>3. /\ <<"history", "rehighlight">> \in Seq(Fxns)
      /\ <<"firstfork", "controls">> \in Seq(Fxns)
      /\ <<"ida">> \in Seq(Fxns)
      /\ <<"instructions">> \in Seq(Fxns)
      /\ <<"memory", "registers", "clnum">> \in Seq(Fxns)
      /\ <<"bounds", "change", "ichanges", "dchanges">> \in Seq(Fxns)
  BY DEF Fxns
<1>4. \A i \in 1 .. 6 : i = 1 \/ i = 2 \/ i = 3 \/ i = 4 \/ i = 5 \/ i = 6
  OBVIOUS
<1> QED
  BY <1>1, <1>2, <1>3, <1>4

\* A page on which no script has run.
Blank(p) ==
  /\ Shape(p) /\ p.pend = <<>> /\ p.hist = <<None>> /\ p.hpos = 1 /\ p.timers = 0 /\ p.ws = "none"
  /\ \A n \in SessionVars : p.deps[n] = <<>>

LEMMA NothingWaits ==
  \A y : ~Contains(<<>>, y)
  BY DEF Contains

\* base.js runs first: the history autorun is there before anything is set.
LEMMA StartHistory ==
  ASSUME NEW p, Blank(p), p.loaded = 1
  PROVE  Good(Start(p, "history"), {}, 1)
<1>1. Shape(p) /\ \A n \in SessionVars : \A y : ~Contains(p.deps[n], y)
  BY NothingWaits DEF Blank
<1>2. \A y : ~Contains(p.pend, y)
  BY NothingWaits DEF Blank
<1>3. NoRepeats(p.hist)
  BY DEF Blank, NoRepeats
<1>4. CASE "history" \notin Scenarios[p.scenario].followed
  <2>1. Start(p, "history") = p
    BY <1>4 DEF Start
  <2>2. ~(Scenarios[p.scenario].history > 0)
    BY <1>1, <1>4, HistoryAssumption DEF Shape
  <2>3. HistoryReg(p)
    BY <2>2 DEF HistoryReg
  <2>4. IdaReg(p)
    BY <1>1, <1>2 DEF IdaReg, Blank
  <2>5. IdaTold(p) /\ HistoryTold(p)
    BY DEF IdaTold, HistoryTold, Blank
  <2> QED
    BY <1>1, <1>3, <2>1, <2>3, <2>4, <2>5 DEF Good
<1>5. CASE "history" \in Scenarios[p.scenario].followed
  <2> DEFINE q == Run(p, "history")
             T == Tracked(p, "history")
             t == Autorun(q, "history", T)
  <2>1. Start(p, "history") = t
    BY <1>5 DEF Start
  <2>2. q = HistoryAutorun(p)
    BY DEF Run
  <2>3. T = ViewVars
    BY DEF Tracked, ViewVars
  <2>4. /\ SocketOnly(p, q) /\ q.timers \in Nat /\ q.timers > 0
        /\ q.ws = p.ws /\ q.onopen = p.onopen /\ q.ida = p.ida /\ q.lost = p.lost
    BY <1>1, <2>2, HistoryRun
  <2> HIDE DEF q, T
  <2>5. Shape(q)
    BY <1>1, <2>4 DEF Shape, SocketOnly
  <2>6. Registered(q, t, "history", T)
    BY <2>5, AutorunRegisters DEF Fxns
  <2> HIDE DEF t
  <2>7. Shape(t) /\ t.loaded = 1 /\ t.timers > 0 /\ t.ws = "none" /\ t.hist = p.hist /\ t.pend = p.pend
    BY <2>4, <2>6 DEF Registered, SocketOnly, Blank
  <2>8. \A n \in SessionVars : \A y : Contains(t.deps[n], y) <=> n \in ViewVars /\ y = "history"
    <3>1. q.deps = p.deps
      BY <2>4 DEF SocketOnly
    <3>2. \A n \in SessionVars : \A y :
            Contains(t.deps[n], y) <=> Contains(q.deps[n], y) \/ (n \in T /\ y = "history")
      BY <2>6 DEF Registered
    <3>3. ASSUME NEW n \in SessionVars, NEW y
          PROVE  Contains(t.deps[n], y) <=> n \in ViewVars /\ y = "history"
      <4>1. Contains(t.deps[n], y) <=> Contains(q.deps[n], y) \/ (n \in T /\ y = "history")
        BY <3>2
      <4>2. q.deps[n] = p.deps[n]
        BY <3>1
      <4>3. ~Contains(q.deps[n], y)
        BY <1>1, <4>2
      <4> QED
        BY <2>3, <4>1, <4>3
    <3> QED
      BY <3>3
  <2>9. HistoryReg(t)
    <3>1. ViewVars \subseteq SessionVars
      BY DEF ViewVars, SessionVars
    <3> QED
      BY <2>8, <3>1 DEF HistoryReg
  <2>10. IdaReg(t)
    BY <1>2, <2>7, <2>8 DEF IdaReg
  <2>11. IdaTold(t) /\ HistoryTold(t)
    BY <2>7 DEF IdaTold, HistoryTold
  <2> QED
    BY <1>3, <2>1, <2>7, <2>9, <2>10, <2>11 DEF Good
<1> QED
  BY <1>4, <1>5

LEMMA LoadedFields ==
  ASSUME NEW p, DOMAIN p = PageFields, NEW l
  PROVE  LET q == [p EXCEPT !.loaded = l]
         IN  /\ DOMAIN q = PageFields /\ q.loaded = l
             /\ q.s = p.s /\ q.deps = p.deps /\ q.pend = p.pend /\ q.scenario = p.scenario
             /\ q.hist = p.hist /\ q.hpos = p.hpos /\ q.timers = p.timers
             /\ q.ws = p.ws /\ q.onopen = p.onopen /\ q.ida = p.ida /\ q.lost = p.lost
  BY DEF PageFields

\* The first script.
LEMMA GoodLoadFirst ==
  ASSUME NEW p, Blank(p), p.loaded = 0
  PROVE  Good(LoadScript(p), {}, 1)
<1> DEFINE b == [p EXCEPT !.loaded = 1]
           q == <<"history", "rehighlight">>
<1>1. LoadScript(p) = StartAll(b, q)
  <2>1. p.loaded + 1 = 1 /\ Scripts[1].autoruns = q
    BY ScriptsAre
  <2>2. [p EXCEPT !.loaded = @ + 1] = b
    <3>1. [p EXCEPT !.loaded = @ + 1] = [p EXCEPT !.loaded = p.loaded + 1]
      OBVIOUS
    <3> QED
      BY <2>1, <3>1
  <2> HIDE DEF b, q
  <2> QED
    BY <2>1, <2>2 DEF LoadScript
<1>2. Blank(b) /\ b.loaded = 1
  <2>1. DOMAIN p = PageFields
    BY DEF Blank, Shape
  <2>2. /\ DOMAIN b = PageFields /\ b.loaded = 1
        /\ b.s = p.s /\ b.deps = p.deps /\ b.pend = p.pend /\ b.scenario = p.scenario
        /\ b.hist = p.hist /\ b.hpos = p.hpos /\ b.timers = p.timers /\ b.ws = p.ws
    BY <2>1, LoadedFields
  <2> HIDE DEF b
  <2>3. Shape(b)
    BY <2>2 DEF Blank, Shape
  <2> QED
    BY <2>2, <2>3 DEF Blank
<1> HIDE DEF b
<1>3. DOMAIN q = 1 .. 2 /\ q[1] = "history" /\ q[2] = "rehighlight"
  OBVIOUS
<1> HIDE DEF q
<1>4. PICK r : StartFold!Steps(r, b, q, 2)
  BY <1>3, StartFold!FoldSteps
<1>5. /\ r[0] = b /\ StartAll(b, q) = r[2]
      /\ \A i \in 1 .. 2 : r[i] = Start(r[i - 1], q[i])
  BY <1>4, StartAllIsFold DEF StartFold!Steps
<1>6. r[1] = Start(b, "history") /\ r[2] = Start(r[1], "rehighlight")
  <2>1. r[1] = Start(r[1 - 1], q[1]) /\ r[2] = Start(r[2 - 1], q[2])
    BY <1>5
  <2>2. 1 - 1 = 0 /\ 2 - 1 = 1
    OBVIOUS
  <2> QED
    BY <1>3, <1>5, <2>1, <2>2
<1>7. Good(r[1], {}, 1)
  BY <1>2, <1>6, StartHistory
<1>8. PICK c : c = r[1]
  OBVIOUS
<1>9. Good(Start(c, "rehighlight"), {}, 1)
  BY <1>7, <1>8, GoodStart DEF Fxns
<1> QED
  BY <1>1, <1>5, <1>6, <1>8, <1>9

\* The others.
LEMMA GoodLoad ==
  ASSUME NEW p, NEW ld \in 1 .. 5, Good(p, {}, ld)
  PROVE  Good(LoadScript(p), {}, ld + 1)
<1> DEFINE b == [p EXCEPT !.loaded = @ + 1]
           q == Scripts[ld + 1].autoruns
<1>1. Shape(p) /\ p.loaded = ld
  BY DEF Good
<1>2. LoadScript(p) = StartAll(b, q)
  BY <1>1 DEF LoadScript
<1>3. q \in Seq(Fxns)
  BY ScriptsAre
<1>4. /\ DOMAIN b = PageFields /\ b.loaded = ld + 1
      /\ b.s = p.s /\ b.deps = p.deps /\ b.pend = p.pend /\ b.scenario = p.scenario
      /\ b.hist = p.hist /\ b.hpos = p.hpos /\ b.timers = p.timers
      /\ b.ws = p.ws /\ b.onopen = p.onopen /\ b.ida = p.ida /\ b.lost = p.lost
  BY <1>1 DEF Shape, PageFields
<1> HIDE DEF b, q
<1>5. Shape(b) /\ ld + 1 >= 1
  BY <1>1, <1>4 DEF Shape
<1>6. IdaReg(b) /\ HistoryReg(b) /\ NoRepeats(b.hist)
  BY <1>4 DEF Good, IdaReg, HistoryReg
<1>7. (IdaTold(p) => IdaTold(b)) /\ (HistoryTold(p) => HistoryTold(b))
  BY <1>4 DEF IdaTold, HistoryTold
<1>8. Good(b, {}, ld + 1)
  BY <1>4, <1>5, <1>6, <1>7 DEF Good
<1>9. PICK m : m = ld + 1
  OBVIOUS
<1> QED
  BY <1>2, <1>3, <1>8, <1>9, GoodStartAll

\* Every page between two steps.
PageInv(p) == (p.loaded = 0 /\ Blank(p)) \/ Good(p, {}, p.loaded)

LEMMA InvLoad ==
  ASSUME NEW p, PageInv(p), p.loaded # 6
  PROVE  PageInv(LoadScript(p)) /\ LoadScript(p).loaded = p.loaded + 1
<1>1. CASE p.loaded = 0 /\ Blank(p)
  BY <1>1, GoodLoadFirst DEF PageInv, Good
<1>2. CASE Good(p, {}, p.loaded)
  <2>1. PICK ld \in 1 .. 5 : ld = p.loaded
    BY <1>2 DEF Good, Shape
  <2>2. Good(LoadScript(p), {}, ld + 1)
    BY <1>2, <2>1, GoodLoad
  <2>3. LoadScript(p).loaded = ld + 1
    BY <2>2 DEF Good
  <2> QED
    BY <2>1, <2>2, <2>3 DEF PageInv
<1> QED
  BY <1>1, <1>2 DEF PageInv

LEMMA InvNoPage ==
  ASSUME NEW name \in DOMAIN Scenarios
  PROVE  PageInv(NoPage(name)) /\ NoPage(name).loaded = 0
<1> DEFINE p == NoPage(name)
<1>1. /\ DOMAIN p = PageFields /\ p.s = NoSession /\ p.deps = [n \in DOMAIN NoSession |-> <<>>]
      /\ p.pend = <<>> /\ p.scenario = name /\ p.loaded = 0 /\ p.hist = <<None>> /\ p.hpos = 1
      /\ p.timers = 0 /\ p.ws = "none"
  BY DEF NoPage, PageFields
<1>2. DOMAIN NoSession = SessionVars
  BY DEF NoSession, SessionVars
<1> HIDE DEF p
<1>3. Scenarios[name].history \in Nat
  BY HistoryAssumption
<1>4. IsSeq(<<None>>) /\ <<None>>[1] = None /\ <<>> \in Seq(Fxns) /\ 1 \in 0 .. Len(<<None>>)
  <2>1. <<None>> \in Seq({None}) /\ Len(<<None>>) = 1 /\ <<None>>[1] = None
    OBVIOUS
  <2>2. PICK h : h = <<None>>
    OBVIOUS
  <2>3. IsSeq(h)
    BY <2>1, <2>2, SeqIsSeq
  <2>4. <<>> \in Seq(Fxns) /\ 1 \in 0 .. 1
    OBVIOUS
  <2> QED
    BY <2>1, <2>2, <2>3, <2>4
<1>5. Shape(p)
  BY <1>1, <1>2, <1>3, <1>4 DEF Shape
<1>6. Blank(p)
  BY <1>1, <1>2, <1>5 DEF Blank
<1> QED
  BY <1>1, <1>6 DEF PageInv, p

LEMMA InvPageAfter ==
  ASSUME NEW name \in DOMAIN Scenarios, NEW n \in 0 .. 6
  PROVE  PageInv(PageAfter(name, n))
<1> DEFINE q == [i \in 1 .. n |-> i]
           p == NoPage(name)
<1>1. PageAfter(name, n) = LoadAll(p, q)
  BY DEF PageAfter
<1>2. n \in Nat /\ DOMAIN q = 1 .. n
  OBVIOUS
<1>3. PageInv(p) /\ p.loaded = 0
  BY InvNoPage
<1> HIDE DEF p, q
<1>4. PICK r : LoadFold!Steps(r, p, q, n)
  BY <1>2, LoadFold!FoldSteps
<1>5. /\ r[0] = p /\ LoadAll(p, q) = r[n]
      /\ \A i \in 1 .. n : r[i] = LoadScript(r[i - 1])
  BY <1>4, LoadAllIsFold DEF LoadFold!Steps, LoadNext
<1> DEFINE T == {i \in 0 .. n : PageInv(r[i]) /\ r[i].loaded = i}
<1>6. 0 \in T
  BY <1>3, <1>5
<1>7. ASSUME NEW i \in 1 .. n, i - 1 \in T PROVE i \in T
  <2>1. PICK c : c = r[i - 1]
    OBVIOUS
  <2>2. PageInv(c) /\ c.loaded = i - 1 /\ c.loaded # 6
    BY <1>7, <2>1
  <2>3. PageInv(LoadScript(c)) /\ LoadScript(c).loaded = c.loaded + 1
    BY <2>2, InvLoad
  <2>4. c.loaded + 1 = i
    BY <2>2
  <2> QED
    BY <1>5, <2>1, <2>3, <2>4
<1> HIDE DEF T
<1>8. n \in T
  <2>1. 0 .. n \subseteq T
    BY <1>2, <1>6, <1>7, LoadFold!UpTo
  <2> QED
    BY <2>1
<1> QED
  BY <1>1, <1>5, <1>8 DEF T

-----------------------------------------------------------------------------
(* The steps.                                                              *)

LEMMA GoodInv ==
  ASSUME NEW p, NEW ld, Good(p, {}, ld)
  PROVE  PageInv(p)
  BY DEF Good, PageInv

MessageKinds ==
  {"setiaddr", "setclnum", "instructions", "maxclnum", "pmaps", "memory", "registers", "clnum",
   "setpicture", "changes"}

LEMMA ListenedTo ==
  ASSUME NEW l \in 0 .. 6
  PROVE  /\ UNION {Scripts[i].on : i \in 1 .. l} \subseteq MessageKinds
         /\ l = 0 => UNION {Scripts[i].on : i \in 1 .. l} = {}
<1>1. /\ Scripts[1].on = {}
      /\ Scripts[2].on = {"setiaddr", "setclnum"}
      /\ Scripts[3].on = {}
      /\ Scripts[4].on = {"instructions"}
      /\ Scripts[5].on = {"maxclnum", "pmaps", "memory", "registers", "clnum"}
      /\ Scripts[6].on = {"setpicture", "changes"}
  BY DEF Scripts
<1>2. \A i \in 1 .. l : i = 1 \/ i = 2 \/ i = 3 \/ i = 4 \/ i = 5 \/ i = 6
  OBVIOUS
<1>3. \A i \in 1 .. l : Scripts[i].on \subseteq MessageKinds
  BY <1>1, <1>2 DEF MessageKinds
<1>4. l = 0 => 1 .. l = {}
  OBVIOUS
<1> QED
  BY <1>3, <1>4

\* A message, whatever it says.
LEMMA InvOnMessage ==
  ASSUME NEW p, PageInv(p), NEW msg
  PROVE  PageInv(OnMessage(p, msg)) /\ OnMessage(p, msg).loaded = p.loaded
<1> DEFINE listened == UNION {Scripts[i].on : i \in 1 .. p.loaded}
<1>1. CASE p.loaded = 0
  <2>1. listened = {}
    BY <1>1, ListenedTo
  <2>2. OnMessage(p, msg) = p
    BY <2>1 DEF OnMessage
  <2> QED
    BY <2>2
<1>2. CASE p.loaded # 0
  <2>1. PICK ld \in 0 .. 6 : ld = p.loaded /\ Good(p, {}, ld)
    BY <1>2 DEF PageInv, Good, Shape
  <2>2. listened \subseteq MessageKinds
    BY <2>1, ListenedTo
  <2>3. msg.kind \notin listened => OnMessage(p, msg) = p
    BY DEF OnMessage
  <2> HIDE DEF listened
  <2>4. SUFFICES ASSUME msg.kind \in listened PROVE Good(OnMessage(p, msg), {}, ld)
    BY <2>1, <2>3, GoodInv DEF Good
  <2>5. CASE msg.kind = "setiaddr"
    <3>1. OnMessage(p, msg) = OnSetiaddr(p, msg.arg)
      BY <2>4, <2>5 DEF OnMessage, listened
    <3> QED
      BY <2>1, <3>1, GoodUpdateIaddr DEF OnSetiaddr
  <2>6. CASE msg.kind = "setclnum"
    <3>1. OnMessage(p, msg) = OnSetclnum(p, msg.arg)
      BY <2>4, <2>6 DEF OnMessage, listened
    <3> QED
      BY <2>1, <3>1, GoodOnSetclnum
  <2>7. CASE msg.kind = "instructions"
    <3>1. OnMessage(p, msg) = OnInstructions(p, msg.arg)
      BY <2>4, <2>7 DEF OnMessage, listened
    <3> QED
      BY <2>1, <3>1, GoodOnInstructions
  <2>8. CASE msg.kind = "maxclnum"
    <3>1. OnMessage(p, msg) = UpdateMaxclnum(p, msg.arg)
      BY <2>4, <2>8 DEF OnMessage, listened
    <3> QED
      BY <2>1, <3>1, GoodUpdateMaxclnum
  <2>9. CASE msg.kind = "pmaps"
    <3>1. OnMessage(p, msg) = Set(p, "pmaps", TRUE)
      BY <2>4, <2>9 DEF OnMessage, listened
    <3> QED
      BY <2>1, <3>1, GoodSet DEF SessionVars
  <2>10. CASE msg.kind \in {"memory", "registers", "clnum"}
    <3>1. OnMessage(p, msg) \in {OnMemory(p, msg.arg), OnRegisters(p, msg.arg), OnClnum(p, msg.arg)}
      BY <2>4, <2>10 DEF OnMessage, listened
    <3>2. PICK at : at = msg.arg
      OBVIOUS
    <3>3. Good(OnMemory(p, at), {}, ld) /\ Good(OnRegisters(p, at), {}, ld) /\ Good(OnClnum(p, at), {}, ld)
      BY <2>1, GoodRender
    <3> QED
      BY <3>1, <3>2, <3>3
  <2>11. CASE msg.kind = "changes"
    <3>1. OnMessage(p, msg) = OnChanges(p, msg.arg)
      BY <2>4, <2>11 DEF OnMessage, listened
    <3> QED
      BY <2>1, <3>1, GoodOnChanges
  <2>12. CASE msg.kind = "setpicture"
    <3>1. OnMessage(p, msg) = OnSetpicture(p, msg.arg)
      BY <2>4, <2>12 DEF OnMessage, listened
    <3> QED
      BY <2>1, <3>1, GoodOnSetpicture
  <2> QED
    BY <2>2, <2>4, <2>5, <2>6, <2>7, <2>8, <2>9, <2>10, <2>11, <2>12 DEF MessageKinds
<1> QED
  BY <1>1, <1>2

\* What the page only asks or draws, whether or not a script has run.
LEMMA InvSame ==
  ASSUME NEW p, PageInv(p), NEW q, Same(p, q)
  PROVE  PageInv(q)
<1>1. CASE p.loaded = 0 /\ Blank(p)
  BY <1>1 DEF PageInv, Blank, Shape, Same
<1>2. CASE Good(p, {}, p.loaded)
  BY <1>2, GoodSame, GoodInv
<1> QED
  BY <1>1, <1>2 DEF PageInv

LEMMA InvFields ==
  ASSUME NEW p, PageInv(p)
  PROVE  DOMAIN p = PageFields
  BY DEF PageInv, Blank, Good, Shape

\* The timeout of the history autorun.
LEMMA InvHistoryTimeout ==
  ASSUME NEW p, PageInv(p), p.timers > 0
  PROVE  PageInv(PushHistory([p EXCEPT !.timers = @ - 1]))
<1> DEFINE q == [p EXCEPT !.timers = @ - 1]
<1>1. PICK ld : Good(p, {}, ld)
  BY DEF PageInv, Blank
<1>2. /\ DOMAIN q = PageFields /\ q.timers = p.timers - 1
      /\ q.s = p.s /\ q.deps = p.deps /\ q.pend = p.pend /\ q.scenario = p.scenario
      /\ q.loaded = p.loaded /\ q.hist = p.hist /\ q.hpos = p.hpos
      /\ q.ws = p.ws /\ q.onopen = p.onopen /\ q.ida = p.ida /\ q.lost = p.lost
  BY <1>1, GoodFields DEF PageFields
<1> HIDE DEF q
<1>3. Shape(q)
  BY <1>1, <1>2 DEF Good, Shape
<1>4. IdaReg(q) /\ HistoryReg(q) /\ NoRepeats(q.hist) /\ (IdaTold(p) => IdaTold(q))
  BY <1>1, <1>2 DEF Good, IdaReg, HistoryReg, IdaTold
<1>5. Good(q, {"history"}, ld)
  BY <1>1, <1>2, <1>3, <1>4 DEF Good
<1>6. Good(PushHistory(q), {"history"}, ld) /\ HistoryTold(PushHistory(q))
  BY <1>5, GoodPushHistory
<1>7. Good(PushHistory(q), {}, ld)
  BY <1>6 DEF Good
<1> QED
  BY <1>7, GoodInv DEF q

\* The browser goes back.
LEMMA InvOnPopState ==
  ASSUME NEW p, PageInv(p), p.hpos > 1
  PROVE  PageInv(OnPopState(p))
<1> DEFINE q == [p EXCEPT !.hpos = @ - 1, !.back = FALSE]
<1>1. PICK ld : Good(p, {}, ld)
  BY DEF PageInv, Blank
<1>2. /\ DOMAIN q = PageFields /\ q.hpos = p.hpos - 1
      /\ q.s = p.s /\ q.deps = p.deps /\ q.pend = p.pend /\ q.scenario = p.scenario
      /\ q.loaded = p.loaded /\ q.hist = p.hist /\ q.timers = p.timers
      /\ q.ws = p.ws /\ q.onopen = p.onopen /\ q.ida = p.ida /\ q.lost = p.lost
  BY <1>1, GoodFields DEF PageFields
<1>3. OnPopState(p) = IF q.hist[q.hpos] = None THEN q ELSE RestoreAll(q, HistoryKeys)
  BY DEF OnPopState
<1> HIDE DEF q
<1>4. PICK l \in Nat, b \in Nat, o \in Nat :
        l = Len(p.hist) /\ b = p.hpos /\ b <= l /\ o = Scenarios[p.scenario].history /\ b <= o
  BY <1>1, HistoryAssumption DEF Good, Shape, IsSeq
<1>5. b - 1 \in 0 .. l /\ b - 1 <= o /\ b - 1 > 0 /\ o > 0
  BY <1>4
<1>6. Shape(q) /\ q.hpos > 0 /\ Scenarios[q.scenario].history > 0
  BY <1>1, <1>2, <1>4, <1>5 DEF Good, Shape
<1>7. IdaReg(q) /\ HistoryReg(q) /\ NoRepeats(q.hist) /\ (IdaTold(p) => IdaTold(q))
  BY <1>1, <1>2 DEF Good, IdaReg, HistoryReg, IdaTold
<1>8. Good(q, {"history"}, ld)
  BY <1>1, <1>2, <1>6, <1>7 DEF Good
<1>9. CASE q.hist[q.hpos] = None
  <2>1. HistoryTold(q)
    BY <1>9 DEF HistoryTold
  <2>2. Good(q, {}, ld)
    BY <1>1, <1>2, <1>8, <2>1 DEF Good
  <2> QED
    BY <1>3, <1>9, <2>2, GoodInv
<1>10. CASE q.hist[q.hpos] # None
  BY <1>3, <1>6, <1>8, <1>10, GoodRestore, GoodInv
<1> QED
  BY <1>9, <1>10

LEMMA InvProcess ==
  ASSUME NEW p, PageInv(p), p.pend # <<>>
  PROVE  PageInv(RunAll(TakePend(p), p.pend))
<1>1. PICK ld : Good(p, {}, ld)
  BY DEF PageInv, Blank
<1> QED
  BY <1>1, GoodProcess, GoodInv

\* What the user does, on a page that is complete.
Complete(p) == Good(p, {}, 6)

LEMMA ReadyComplete ==
  ASSUME PageInv(page), Ready
  PROVE  Complete(page)
<1>1. page.loaded = 6
  BY ScriptsAre DEF Ready, AllLoaded
<1> QED
  BY <1>1 DEF PageInv, Complete

LEMMA GoodKeyDown ==
  ASSUME Complete(page), KeyDown
  PROVE  Complete(page')
<1> USE DEF Complete
<1>1. CASE \E next \in BOOLEAN : \E f \in OtherForks(page, next) : Do("fork", Set(page, "forknum", f))
  BY <1>1, GoodSet DEF Do, SessionVars
<1>2. CASE \E d \in {-1, 1} : page.s.clnum + d \in -1..(MaxClnum + 1) /\ Do("step", Stepped(d))
  BY <1>2, GoodSet DEF Do, SessionVars, Stepped
<1>3. CASE Do("function", Emit(page, <<"navigatefunction", page.s.forknum, page.s.clnum>>))
  BY <1>3, GoodEmit DEF Do
<1>4. CASE Do("zoom", ZoomOutMax(page))
  BY <1>4, GoodZoomOutMax DEF Do
<1>5. CASE \E next, data \in BOOLEAN : Do("jk", GoToFlag(page, next, data))
  BY <1>5, GoodGoToFlag DEF Do
<1>6. CASE ~page.back /\ Do("esc", [page EXCEPT !.back = TRUE])
  <2>1. Same(page, [page EXCEPT !.back = TRUE])
    BY GoodFields, SameDraw
  <2> QED
    BY <1>6, <2>1, GoodSame DEF Do
<1>7. CASE Do("clear", DeleteAllForks(page))
  BY <1>7, GoodDeleteAllForks DEF Do
<1>8. CASE \E a \in Addresses : Do("goto", UpdateIaddr(page, a, TRUE))
  BY <1>8, GoodUpdateIaddr DEF Do
<1>9. CASE \E n \in 0..MaxClnum : Do("clnum", Set(page, "clnum", n))
  BY <1>9, GoodSet DEF Do, SessionVars
<1>10. CASE Do("gotoname", Emit(page, <<"gotoname", 0>>))
  BY <1>10, GoodEmit DEF Do
<1> QED
  BY <1>1, <1>2, <1>3, <1>4, <1>5, <1>6, <1>7, <1>8, <1>9, <1>10 DEF KeyDown

LEMMA GoodControlChanged ==
  ASSUME Complete(page), ControlChanged
  PROVE  Complete(page')
<1> USE DEF Complete
<1>1. CASE \E n \in 0..MaxClnum : Do("control", Set(page, "clnum", n))
  BY <1>1, GoodSet DEF Do, SessionVars
<1>2. CASE ForkEntered
  BY <1>2, GoodSet DEF ForkEntered, Do, SessionVars
<1>3. CASE Do("noiaddr", Set(page, "iaddr", None))
  BY <1>3, GoodSet DEF Do, SessionVars
<1>4. CASE \E a \in Addresses : Do("goto", UpdateIaddr(page, a, TRUE))
  BY <1>4, GoodUpdateIaddr DEF Do
<1>5. CASE Do("nodaddr", Set(Set(page, "daddr", None), "dview", None))
  BY <1>5, GoodSetTwo DEF Do, SessionVars
<1>6. CASE \E a \in DataAddresses : Do("dview", UpdateDview(page, a))
  BY <1>6, GoodUpdateDview DEF Do
<1> QED
  BY <1>1, <1>2, <1>3, <1>4, <1>5, <1>6 DEF ControlChanged

LEMMA GoodClicked ==
  ASSUME Complete(page), Clicked
  PROVE  Complete(page')
<1> USE DEF Complete
<1>1. CASE \E n \in DOMAIN page.view.instructions.rows : Do("clnum", PushHistory(Set(page, "clnum", n)))
  <2>1. \A n : Good(Set(page, "clnum", n), {}, 6)
    BY GoodSet DEF SessionVars
  <2> QED
    BY <1>1, <2>1, GoodPushHistory DEF Do
<1>2. CASE \E a \in DataAddresses : Do("data", PushHistory(Set(page, "daddr", a)))
  <2>1. \A a : Good(Set(page, "daddr", a), {}, 6)
    BY GoodSet DEF SessionVars
  <2> QED
    BY <1>2, <2>1, GoodPushHistory DEF Do
<1>3. CASE \E a \in DataAddresses : Do("dview", UpdateDview(page, a))
  BY <1>3, GoodUpdateDview DEF Do
<1>4. CASE \E a \in Addresses, dirty \in BOOLEAN : Do("iaddr", UpdateIaddr(page, a, dirty))
  BY <1>4, GoodUpdateIaddr DEF Do
<1>5. CASE \E g \in page.drawn : Do("flag", OnSetclnum(page, g))
  BY <1>5, GoodOnSetclnum DEF Do
<1> QED
  BY <1>1, <1>2, <1>3, <1>4, <1>5 DEF Clicked

LEMMA GoodWheels ==
  ASSUME Complete(page), IdumpWheel \/ HexdumpWheel \/ VtimelineWheel \/ Resized
  PROVE  Complete(page')
<1> USE DEF Complete
<1>1. CASE IdumpWheel
  BY <1>1, GoodSet DEF IdumpWheel, Do, SessionVars, Stepped
<1>2. CASE HexdumpWheel
  BY <1>2, GoodSet DEF HexdumpWheel, Do, SessionVars
<1>3. CASE VtimelineWheel
  BY <1>3, GoodWheelVtimeline DEF VtimelineWheel, Do
<1>4. CASE Resized
  BY <1>4, GoodRedraw DEF Resized, Do
<1> QED
  BY <1>1, <1>2, <1>3, <1>4

LEMMA GoodVtimelineMouse ==
  ASSUME Complete(page), VtimelineMouse
  PROVE  Complete(page')
<1> USE DEF Complete
<1>1. CASE \E n \in PointedClnums(page) : Do("mouse", [page EXCEPT !.down = n])
  <2>1. PICK n : page' = [page EXCEPT !.down = n]
    BY <1>1 DEF Do
  <2>2. Same(page, page')
    BY <2>1, GoodFields, SameDraw
  <2> QED
    BY <2>2, GoodSame
<1>2. CASE \E n \in PointedClnums(page), f \in page.vt \cup {-1} : Do("mouse", MouseUp(page, n, f))
  BY <1>2, GoodMouseUp DEF Do
<1>3. CASE \E f \in page.vt : Do("delete", RedrawFlags(Emit(page, <<"deletefork", f>>)))
  BY <1>3, GoodEmit, GoodRedraw DEF Do
<1> QED
  BY <1>1, <1>2, <1>3 DEF VtimelineMouse

LEMMA GoodIdaMessage ==
  ASSUME Complete(page), IdaMessage
  PROVE  Complete(page')
  BY GoodOnIdaIaddr, GoodUpdateDview DEF Complete, IdaMessage, Do

LEMMA InvUser ==
  ASSUME PageInv(page), User
  PROVE  PageInv(page')
<1>1. CASE IdaCloses
  <2>1. PICK ld : Good(page, {}, ld)
    BY <1>1 DEF PageInv, Blank, IdaCloses
  <2>2. Good(page', {}, ld)
    BY <1>1, <2>1, GoodClosed DEF IdaCloses
  <2> QED
    BY <2>2, GoodInv
<1>2. CASE ~IdaCloses
  <2>1. Ready
    BY <1>2 DEF User, KeyDown, ControlChanged, Clicked, IdumpWheel, HexdumpWheel, VtimelineWheel,
                VtimelineMouse, Resized, IdaMessage
  <2>2. Complete(page)
    BY <2>1, ReadyComplete
  <2>3. Complete(page')
    BY <1>2, <2>2, GoodKeyDown, GoodControlChanged, GoodClicked, GoodWheels, GoodVtimelineMouse,
       GoodIdaMessage DEF User
  <2> QED
    BY <2>3, GoodInv DEF Complete
<1> QED
  BY <1>1, <1>2

LEMMA InvSystem ==
  ASSUME PageInv(page), System
  PROVE  PageInv(page')
<1>1. CASE HandleCall
  <2>1. Same(page, [page EXCEPT !.out = Tail(@)])
    BY InvFields DEF Same, PageFields
  <2> QED
    BY <1>1, <2>1, InvSame DEF HandleCall
<1>2. CASE DeleteFork
  <2>1. Same(page, [page EXCEPT !.out = Tail(@)])
    BY InvFields DEF Same, PageFields
  <2>2. page' = [page EXCEPT !.out = Tail(@)]
    BY <1>2 DEF DeleteFork
  <2> QED
    BY <2>1, <2>2, InvSame
<1>3. CASE Poll
  BY <1>3 DEF Poll
<1>4. CASE Load
  BY <1>4, InvLoad, ScriptsAre DEF Load, AllLoaded
<1>5. CASE ProcessTimeout
  BY <1>5, InvProcess DEF ProcessTimeout
<1>6. CASE Deliver
  BY <1>6, InvOnMessage DEF Deliver
<1>7. CASE HistoryTimeout
  BY <1>7, InvHistoryTimeout DEF HistoryTimeout
<1>8. CASE PopState
  BY <1>8, InvOnPopState DEF PopState
<1>9. CASE IdaOpens
  <2>1. PICK ld : Good(page, {}, ld)
    BY <1>9 DEF PageInv, Blank, IdaOpens
  <2>2. Good(page', {}, ld)
    BY <1>9, <2>1, GoodOnOpen DEF IdaOpens
  <2> QED
    BY <2>2, GoodInv
<1> QED
  BY <1>1, <1>2, <1>3, <1>4, <1>5, <1>6, <1>7, <1>8, <1>9 DEF System

-----------------------------------------------------------------------------
(* A page nobody touches.                                                  *)

AutoCalls == {"getchanges", "getinstructions", "getmemory", "getregisters", "getclnum"}

\* Only the autoruns have asked.
AutoOut(o) == IsSeq(o) /\ \A i \in 1 .. Len(o) : o[i][1] \in AutoCalls

\* What the server tells of its traces.
IsMap(m) == DOMAIN m \subseteq AllForks /\ m \in [DOMAIN m -> Nat \X Nat]

\* The position is the end of the selected fork; while there is no such fork,
\* there is no position.
AtEnd(s) ==
  /\ s["forknum"] \in DOMAIN s["max_clnum"] => s["clnum"] = s["max_clnum"][s["forknum"]][2]
  /\ s["forknum"] \notin DOMAIN s["max_clnum"] => s["clnum"] = None

\* The page has told nobody where to go, and waits for the first traces, or has
\* the position at the end of a fork that exists, or waits for the autorun that
\* selects one.
Live(p, A, reg) ==
  /\ AutoOut(p.out) /\ p.back = FALSE /\ p.s["dirtyiaddr"] = None
  /\ reg => Contains(p.deps["max_clnum"], "firstfork")
  /\ p.s["max_clnum"] = None => p.s["forknum"] = None /\ p.s["clnum"] = None
  /\ p.s["max_clnum"] # None =>
       /\ IsMap(p.s["max_clnum"]) /\ AtEnd(p.s)
       /\ \/ Contains(p.pend, "firstfork") \/ "firstfork" \in A
          \/ DOMAIN p.s["max_clnum"] = {} \/ p.s["forknum"] \in DOMAIN p.s["max_clnum"]

\* The variables of the position.
Position == {"forknum", "clnum", "max_clnum", "dirtyiaddr"}

\* A step from p to q that leaves the position alone, asks only what autoruns ask
\* and takes no autorun from the queue.
Calm(p, q) ==
  /\ Frame(q) /\ q.scenario = p.scenario /\ q.back = p.back
  /\ \A n \in Position : q.s[n] = p.s[n]
  /\ AutoOut(p.out) => AutoOut(q.out)
  /\ Contains(p.pend, "firstfork") => Contains(q.pend, "firstfork")
  /\ Contains(p.deps["max_clnum"], "firstfork") => Contains(q.deps["max_clnum"], "firstfork")

LEMMA LiveCalm ==
  ASSUME NEW p, NEW q, NEW A, NEW reg, Live(p, A, reg), Calm(p, q)
  PROVE  Live(q, A, reg)
<1>1. /\ q.s["forknum"] = p.s["forknum"] /\ q.s["clnum"] = p.s["clnum"]
      /\ q.s["max_clnum"] = p.s["max_clnum"] /\ q.s["dirtyiaddr"] = p.s["dirtyiaddr"]
  BY DEF Calm, Position
<1>2. AtEnd(p.s) => AtEnd(q.s)
  BY <1>1 DEF AtEnd
<1> QED
  BY <1>1, <1>2 DEF Live, Calm

LEMMA LiveMore ==
  ASSUME NEW p, NEW A, NEW reg, Live(p, A, reg), NEW B, "firstfork" \in A => "firstfork" \in B
  PROVE  Live(p, B, reg)
  BY DEF Live

LEMMA CalmSelf ==
  ASSUME NEW p, Frame(p)
  PROVE  Calm(p, p)
  BY DEF Calm

LEMMA CalmTrans ==
  ASSUME NEW p, NEW q, NEW r, Calm(p, q), Calm(q, r)
  PROVE  Calm(p, r)
  BY DEF Calm

LEMMA CalmFrame ==
  ASSUME NEW p, NEW q, Calm(p, q)
  PROVE  Frame(q)
  BY DEF Calm

LEMMA CalmMax ==
  ASSUME NEW p, NEW q, Calm(p, q)
  PROVE  q.s["max_clnum"] = p.s["max_clnum"]
  BY DEF Calm, Position

LEMMA CalmSet ==
  ASSUME NEW p, Frame(p), NEW n \in SessionVars \ Position, NEW v
  PROVE  Calm(p, Set(p, n, v))
<1> DEFINE q == Set(p, n, v)
<1>1. Frame(q) /\ q.scenario = p.scenario /\ q.back = p.back /\ q.out = p.out /\ q.deps = p.deps
  BY SetFields
<1>2. \A y : Contains(q.pend, y) <=> Contains(p.pend, y) \/ Contains(p.deps[n], y)
  BY SetFields
<1>3. \A k \in SessionVars : k # n => q.s[k] = p.s[k]
  BY SetFields
<1>4. Position \subseteq SessionVars
  BY DEF Position, SessionVars
<1> HIDE DEF q
<1> QED
  BY <1>1, <1>2, <1>3, <1>4 DEF Calm, q

LEMMA CalmDraw ==
  ASSUME NEW p, Frame(p), NEW v
  PROVE  /\ Calm(p, [p EXCEPT !.vt = v]) /\ Calm(p, [p EXCEPT !.drawn = v])
         /\ Calm(p, [p EXCEPT !.flags = v]) /\ Calm(p, [p EXCEPT !.pictures = v])
         /\ Calm(p, [p EXCEPT !.overlays = v]) /\ Calm(p, [p EXCEPT !.view = v])
         /\ Calm(p, [p EXCEPT !.loaded = v]) /\ Calm(p, [p EXCEPT !.timers = v])
  BY DEF Calm, Frame, PageFields

LEMMA CalmEmit ==
  ASSUME NEW p, Frame(p), NEW call, call[1] \in AutoCalls
  PROVE  Calm(p, Emit(p, call))
<1> DEFINE q == [p EXCEPT !.out = Append(@, call)]
<1>1. Emit(p, call) \in {p, q}
  BY DEF Emit
<1>2. AutoOut(p.out) => AutoOut(Append(p.out, call))
  <2> SUFFICES ASSUME AutoOut(p.out) PROVE AutoOut(Append(p.out, call))
    OBVIOUS
  <2> DEFINE a == Append(p.out, call)
  <2>1. PICK l \in Nat : l = Len(p.out)
    BY IsSeqLen DEF AutoOut
  <2>2. IsSeq(a) /\ Len(a) = l + 1 /\ (\A i \in 1 .. l : a[i] = p.out[i]) /\ a[l + 1] = call
    BY <2>1, IsSeqAppend DEF AutoOut
  <2> HIDE DEF a
  <2>3. \A i \in 1 .. (l + 1) : i \in 1 .. l \/ i = l + 1
    OBVIOUS
  <2>4. \A i \in 1 .. Len(a) : a[i][1] \in AutoCalls
    BY <2>1, <2>2, <2>3 DEF AutoOut
  <2> QED
    BY <2>2, <2>4 DEF AutoOut, a
<1>3. Calm(p, q)
  <2>1. /\ DOMAIN q = PageFields /\ q.out = Append(p.out, call) /\ q.s = p.s /\ q.deps = p.deps
        /\ q.pend = p.pend /\ q.scenario = p.scenario /\ q.back = p.back
    BY DEF Frame, PageFields
  <2> HIDE DEF q
  <2> QED
    BY <1>2, <2>1 DEF Calm, Frame
<1> HIDE DEF q
<1> QED
  BY <1>1, <1>3, CalmSelf

LEMMA CalmPushHistory ==
  ASSUME NEW p, Frame(p)
  PROVE  Calm(p, PushHistory(p))
<1>1. CASE PushHistory(p) = p
  BY <1>1, CalmSelf
<1>2. CASE \E h, n : PushHistory(p) = [p EXCEPT !.hist = h, !.hpos = n]
  <2>1. PICK h, n : PushHistory(p) = [p EXCEPT !.hist = h, !.hpos = n]
    BY <1>2
  <2> DEFINE q == [p EXCEPT !.hist = h, !.hpos = n]
  <2>2. Calm(p, q)
    BY DEF Calm, Frame, PageFields
  <2> HIDE DEF q
  <2> QED
    BY <2>1, <2>2 DEF q
<1> QED
  BY <1>1, <1>2 DEF PushHistory

LEMMA CalmFlags ==
  ASSUME NEW p, Frame(p), NEW type, NEW at
  PROVE  Calm(p, AddFlags(p, type, at)) /\ Calm(p, RemoveFlags(p, type))
  BY DEF Calm, Frame, PageFields, AddFlags, RemoveFlags

LEMMA CalmRedraw ==
  ASSUME NEW p, Frame(p)
  PROVE  Calm(p, RedrawFlags(p))
<1> DEFINE a == [p EXCEPT !.vt = DOMAIN p.s.max_clnum]
           b == RemoveFlags(a, "zoom")
           c == AddFlags(b, "zoom", ZoomFlags(p))
           d == [c EXCEPT !.pictures = {f \in c.vt : Drawable(c, f)}]
           q == [d EXCEPT !.drawn = Visible(d)]
<1>1. Calm(p, a)
  BY CalmDraw
<1>2. RedrawVtimelines(p) = d
  BY DEF RedrawVtimelines
<1>3. RedrawFlags(p) \in {p, q}
  BY <1>2 DEF RedrawFlags
<1> HIDE DEF a
<1>4. Calm(p, b)
  BY <1>1, CalmFlags, CalmFrame, CalmTrans
<1> HIDE DEF b
<1>5. Calm(p, c)
  BY <1>4, CalmFlags, CalmFrame, CalmTrans
<1> HIDE DEF c
<1>6. Calm(p, d)
  BY <1>5, CalmDraw, CalmFrame, CalmTrans
<1> HIDE DEF d
<1>7. Calm(p, q)
  BY <1>6, CalmDraw, CalmFrame, CalmTrans
<1> HIDE DEF q
<1> QED
  BY <1>3, <1>7, CalmSelf

\* The flags of a type are replaced.
LEMMA CalmReplace ==
  ASSUME NEW p, Frame(p), NEW type, NEW at
  PROVE  Calm(p, RedrawFlags(AddFlags(RemoveFlags(p, type), type, at)))
<1>1. PICK q : q = RemoveFlags(p, type)
  OBVIOUS
<1>2. Calm(p, q)
  BY <1>1, CalmFlags
<1>3. PICK r : r = AddFlags(q, type, at)
  OBVIOUS
<1>4. Calm(p, r)
  BY <1>2, <1>3, CalmFlags, CalmFrame, CalmTrans
<1>5. Calm(p, RedrawFlags(r))
  BY <1>4, CalmRedraw, CalmFrame, CalmTrans
<1> QED
  BY <1>1, <1>3, <1>5

LEMMA CalmZoomOutMax ==
  ASSUME NEW p, Frame(p)
  PROVE  Calm(p, ZoomOutMax(p))
<1>1. PICK q : q = Set(p, "cview", <<0, AbsMaxclnum(p)>>)
  OBVIOUS
<1>2. Calm(p, q)
  BY <1>1, CalmSet DEF SessionVars, Position
<1>3. Calm(p, PushHistory(q))
  BY <1>2, CalmPushHistory, CalmFrame, CalmTrans
<1>4. ZoomOutMax(p) \in {p, PushHistory(q)}
  BY <1>1 DEF ZoomOutMax
<1> QED
  BY <1>3, <1>4, CalmSelf

LEMMA CalmRender ==
  ASSUME NEW p, Frame(p), NEW v
  PROVE  /\ Calm(p, UpdateControls(p)) /\ Calm(p, Rehighlight(p))
         /\ Calm(p, [p EXCEPT !.view.instructions = v]) /\ Calm(p, [p EXCEPT !.view.memory = v])
         /\ Calm(p, [p EXCEPT !.view.registers = v]) /\ Calm(p, [p EXCEPT !.view.clnum = v])
  BY DEF Calm, Frame, PageFields, UpdateControls, Rehighlight

\* Answers are rendered.
LEMMA CalmAnswers ==
  ASSUME NEW p, Frame(p), NEW at
  PROVE  Calm(p, OnMemory(p, at)) /\ Calm(p, OnRegisters(p, at)) /\ Calm(p, OnClnum(p, at))
<1>1. PICK a : a = [p EXCEPT !.view.memory = at]
  OBVIOUS
<1>2. PICK b : b = [p EXCEPT !.view.registers = at]
  OBVIOUS
<1>3. Calm(p, a) /\ Calm(p, b) /\ Calm(p, [p EXCEPT !.view.clnum = at])
  BY <1>1, <1>2, CalmRender
<1>4. Calm(p, Rehighlight(a)) /\ Calm(p, Rehighlight(b))
  BY <1>3, CalmRender, CalmFrame, CalmTrans
<1>5. OnMemory(p, at) \in {p, Rehighlight(a)} /\ OnRegisters(p, at) \in {p, Rehighlight(b)}
  BY <1>1, <1>2 DEF OnMemory, OnRegisters
<1>6. Calm(p, OnClnum(p, at))
  BY <1>3, CalmSelf DEF OnClnum
<1> QED
  BY <1>4, <1>5, <1>6, CalmSelf

LEMMA CalmOnInstructions ==
  ASSUME NEW p, Frame(p), NEW msg
  PROVE  Calm(p, OnInstructions(p, msg))
<1> DEFINE n == p.s.clnum
           a == Set(p, "iaddr", msg.rows[n])
           b == Set(a, "iview", msg.rows[n])
           throwing == {i \in DOMAIN msg.rows : ~Typed(p) /\ msg.rows[i] \notin Plain}
           q == IF n \in DOMAIN msg.rows /\ \A i \in throwing : n <= i THEN b ELSE p
           r == [q EXCEPT !.view.instructions = msg]
<1>1. OnInstructions(p, msg) \in {Rehighlight(r), q}
  BY DEF OnInstructions
<1>2. Calm(p, a)
  BY CalmSet DEF SessionVars, Position
<1> HIDE DEF a
<1>3. Calm(p, b)
  BY <1>2, CalmSet, CalmFrame, CalmTrans DEF SessionVars, Position
<1> HIDE DEF b
<1>4. Calm(p, q)
  BY <1>3, CalmSelf
<1> HIDE DEF q
<1>5. Calm(p, r)
  BY <1>4, CalmRender, CalmFrame, CalmTrans
<1> HIDE DEF r
<1>6. Calm(p, Rehighlight(r))
  BY <1>5, CalmRender, CalmFrame, CalmTrans
<1> QED
  BY <1>1, <1>4, <1>6

\* Without an address to be followed an answer moves nothing.
LEMMA CalmOnChanges ==
  ASSUME NEW p, Frame(p), p.s["dirtyiaddr"] = None, NEW msg
  PROVE  Calm(p, OnChanges(p, msg))
<1>1. None # TRUE
  BY UndefinedAssumption
<1>2. OnChanges(p, msg) = RedrawFlags(AddFlags(RemoveFlags(p, FlagType[msg.type]), FlagType[msg.type], msg.at))
  BY <1>1 DEF OnChanges
<1> QED
  BY <1>2, CalmReplace

LEMMA CalmOnSetpicture ==
  ASSUME NEW p, Frame(p), NEW f
  PROVE  Calm(p, OnSetpicture(p, f))
<1> DEFINE q == [p EXCEPT !.overlays = @ \cup {f}]
<1>1. Calm(p, q)
  BY CalmDraw
<1>2. OnSetpicture(p, f) = UpdatePicture(q, f)
  BY DEF OnSetpicture
<1> HIDE DEF q
<1>3. Calm(q, UpdatePicture(q, f))
  BY <1>1, CalmFrame DEF Calm, Frame, PageFields, UpdatePicture
<1> QED
  BY <1>1, <1>2, <1>3, CalmTrans

\* The autoruns that ask.
LEMMA CalmAsk ==
  ASSUME NEW p, Frame(p)
  PROVE  /\ Calm(p, EmitGetinstructions(p)) /\ Calm(p, EmitGetmemory(p))
         /\ Calm(p, EmitGetregisters(p)) /\ Calm(p, EmitGetclnum(p))
         /\ Calm(p, EmitGetchangesI(p)) /\ Calm(p, EmitGetchangesD(p))
<1>1. Calm(p, EmitGetinstructions(p))
  BY CalmEmit DEF EmitGetinstructions, AutoCalls
<1>2. Calm(p, EmitGetmemory(p))
  <2>1. Calm(p, [p EXCEPT !.view.memory = None])
    BY CalmRender
  <2>2. Calm(p, Emit(p, <<"getmemory", p.s.forknum, Plus(p.s.clnum, -1), p.s.dview>>))
    BY CalmEmit DEF AutoCalls
  <2> QED
    BY <2>1, <2>2 DEF EmitGetmemory
<1>3. Calm(p, EmitGetregisters(p))
  BY CalmEmit DEF EmitGetregisters, AutoCalls
<1>4. Calm(p, EmitGetclnum(p))
  BY CalmEmit DEF EmitGetclnum, AutoCalls
<1>5. Calm(p, EmitGetchangesI(p))
  BY CalmEmit DEF EmitGetchangesI, AutoCalls
<1>6. Calm(p, EmitGetchangesD(p))
  <2> DEFINE c == <<"getchanges", p.s.daddr, "L", p.s.cview, GetCscale(p), p.s.clnum>>
             d == <<"getchanges", p.s.daddr, "S", p.s.cview, GetCscale(p), p.s.clnum>>
             a == Emit(p, c)
             b == Emit(a, d)
  <2>1. EmitGetchangesD(p) = b
    BY DEF EmitGetchangesD
  <2>2. c[1] \in AutoCalls /\ d[1] \in AutoCalls
    BY DEF AutoCalls
  <2> HIDE DEF c, d
  <2>3. Calm(p, a)
    BY <2>2, CalmEmit
  <2> HIDE DEF a
  <2>4. Calm(p, b)
    BY <2>2, <2>3, CalmEmit, CalmFrame, CalmTrans
  <2> QED
    BY <2>1, <2>4
<1> QED
  BY <1>1, <1>2, <1>3, <1>4, <1>5, <1>6

LEMMA CalmSocket ==
  ASSUME NEW p, Frame(p)
  PROVE  Calm(p, DoIdaSocket(p)) /\ Calm(p, HistoryAutorun(p)) /\ Calm(p, OnOpen(p))
  BY DEF Calm, Frame, PageFields, DoIdaSocket, HistoryAutorun, OnOpen

\* Every autorun but the one that selects a fork.
LEMMA CalmRun ==
  ASSUME NEW p, Frame(p), NEW f \in Fxns \ {"firstfork"}
  PROVE  Calm(p, Run(p, f))
<1>1. CASE f = "rehighlight"
  BY <1>1, CalmRender DEF Run
<1>2. CASE f = "controls"
  BY <1>2, CalmRender DEF Run
<1>3. CASE f \in {"instructions", "memory", "registers", "clnum", "ichanges", "dchanges"}
  BY <1>3, CalmAsk DEF Run
<1>4. CASE f = "bounds"
  <2> DEFINE at == {<<g, p.s.max_clnum[g][i]>> : g \in DOMAIN p.s.max_clnum, i \in 1 .. 2}
             q == RedrawFlags(AddFlags(RemoveFlags(p, "bounds"), "bounds", at))
  <2>1. BoundsFlags(p) \in {p, q}
    BY DEF BoundsFlags
  <2> HIDE DEF at
  <2>2. Calm(p, q)
    BY CalmReplace
  <2> HIDE DEF q
  <2> QED
    BY <1>4, <2>1, <2>2, CalmSelf DEF Run
<1>5. CASE f = "change"
  <2> DEFINE q == RemoveFlags(p, "change")
             r == AddFlags(q, "change", {<<p.s.forknum, p.s.clnum>>})
  <2>1. ChangeFlag(p) = RedrawFlags(q) \/ ChangeFlag(p) = RedrawFlags(r)
    BY DEF ChangeFlag
  <2>2. Calm(p, RedrawFlags(r))
    BY CalmReplace
  <2> HIDE DEF r
  <2>3. Calm(p, q)
    BY CalmFlags
  <2> HIDE DEF q
  <2>4. Calm(p, RedrawFlags(q))
    BY <2>3, CalmRedraw, CalmFrame, CalmTrans
  <2> QED
    BY <1>5, <2>1, <2>2, <2>4 DEF Run
<1>6. CASE f \in {"ida", "history"}
  BY <1>6, CalmSocket DEF Run
<1> QED
  BY <1>1, <1>2, <1>3, <1>4, <1>5, <1>6 DEF Fxns

LEMMA NoForks ==
  ASSUME NEW m, IsMap(m), m # <<>>
  PROVE  DOMAIN m # {}
<1> SUFFICES ASSUME DOMAIN m = {} PROVE FALSE
  OBVIOUS
<1>1. m \in [{} -> Nat \X Nat]
  BY DEF IsMap
<1>2. m = <<>>
  BY <1>1
<1> QED
  BY <1>2

\* "Select first fork if current fork isn't valid" of controls.js.
LEMMA LiveFirst ==
  ASSUME NEW p, Frame(p), NEW A, NEW reg, Live(p, A, reg)
  PROVE  LET q == SelectFirstFork(p)
         IN  Frame(q) /\ Live(q, {}, reg) /\ q.s["max_clnum"] = p.s["max_clnum"]
<1> DEFINE m == p.s.max_clnum
           f == Min(DOMAIN m)
           v == m[f][2]
           a == Set(p, "forknum", f)
           b == Set(a, "clnum", v)
<1>1. CASE m = None \/ m = <<>> \/ p.s.forknum \in DOMAIN m
  <2>1. SelectFirstFork(p) = p
    BY <1>1 DEF SelectFirstFork
  <2>2. DOMAIN <<>> = {}
    OBVIOUS
  <2>3. Live(p, {}, reg)
    BY <1>1, <2>2 DEF Live
  <2> QED
    BY <2>1, <2>3
<1>2. CASE ~(m = None \/ m = <<>> \/ p.s.forknum \in DOMAIN m)
  <2>1. SelectFirstFork(p) = b
    BY <1>2 DEF SelectFirstFork
  <2>2. IsMap(m) /\ m # None /\ m # <<>>
    BY <1>2 DEF Live
  <2>3. DOMAIN m # {}
    BY <2>2, NoForks
  <2>4. DOMAIN m \in SUBSET Nat
    BY <2>2, TracesAssumption DEF IsMap
  <2>5. f \in DOMAIN m
    <3>1. \E x \in DOMAIN m : \A y \in DOMAIN m : x <= y
      BY <2>3, <2>4, RunFold!LeastElement
    <3> QED
      BY <3>1 DEF Min
  <2>6. /\ Frame(a) /\ a.deps = p.deps /\ a.scenario = p.scenario /\ a.out = p.out /\ a.back = p.back
        /\ a.s["forknum"] = f /\ \A k \in SessionVars : k # "forknum" => a.s[k] = p.s[k]
    BY SetFields DEF SessionVars
  <2> HIDE DEF a, f, v
  <2>7. /\ Frame(b) /\ b.deps = a.deps /\ b.scenario = a.scenario /\ b.out = a.out /\ b.back = a.back
        /\ b.s["clnum"] = v /\ \A k \in SessionVars : k # "clnum" => b.s[k] = a.s[k]
    BY <2>6, SetFields DEF SessionVars
  <2> HIDE DEF b
  <2>8. /\ b.s["forknum"] = f /\ b.s["max_clnum"] = m /\ b.s["dirtyiaddr"] = p.s["dirtyiaddr"]
        /\ b.deps = p.deps /\ b.out = p.out /\ b.back = p.back /\ b.scenario = p.scenario
    BY <2>6, <2>7 DEF SessionVars
  <2>9. AtEnd(b.s)
    BY <2>5, <2>7, <2>8 DEF AtEnd, v
  <2> HIDE DEF m
  <2>10. Live(b, {}, reg)
    BY <2>2, <2>5, <2>8, <2>9 DEF Live
  <2> QED
    BY <2>1, <2>7, <2>8, <2>10 DEF m
<1> QED
  BY <1>1, <1>2

LEMMA LiveRun ==
  ASSUME NEW p, Frame(p), NEW A, NEW reg, Live(p, A, reg), NEW f \in Fxns, NEW B, A \subseteq B \cup {f}
  PROVE  /\ Frame(Run(p, f)) /\ Live(Run(p, f), B, reg)
         /\ Run(p, f).s["max_clnum"] = p.s["max_clnum"]
<1>1. CASE f = "firstfork"
  <2>1. Run(p, f) = SelectFirstFork(p)
    BY <1>1 DEF Run
  <2>2. /\ Frame(SelectFirstFork(p)) /\ Live(SelectFirstFork(p), {}, reg)
        /\ SelectFirstFork(p).s["max_clnum"] = p.s["max_clnum"]
    BY LiveFirst
  <2> QED
    BY <2>1, <2>2, LiveMore
<1>2. CASE f # "firstfork"
  <2>1. Calm(p, Run(p, f))
    BY <1>2, CalmRun
  <2>2. Live(Run(p, f), A, reg)
    BY <2>1, LiveCalm
  <2> QED
    BY <1>2, <2>1, <2>2, CalmFrame, CalmMax, LiveMore
<1> QED
  BY <1>1, <1>2

\* Session._process.
LEMMA LiveProcess ==
  ASSUME NEW p, Frame(p), NEW reg, Live(p, {}, reg)
  PROVE  LET q == RunAll(TakePend(p), p.pend)
         IN  Live(q, {}, reg) /\ q.s["max_clnum"] = p.s["max_clnum"]
<1> DEFINE q == p.pend
           b == TakePend(p)
<1>1. PICK n \in Nat : n = Len(q) /\ DOMAIN q = 1 .. n
  BY DEF Frame
<1>a. \A i \in 1 .. n : q[i] \in Fxns
  BY <1>1 DEF Frame
<1>2. Frame(b) /\ Live(b, ToSet(q), reg) /\ b.s["max_clnum"] = p.s["max_clnum"]
  <2>1. /\ DOMAIN b = PageFields /\ b.pend = <<>> /\ b.s = p.s /\ b.deps = p.deps
        /\ b.scenario = p.scenario /\ b.out = p.out /\ b.back = p.back
    BY DEF Frame, TakePend, PageFields
  <2>2. Contains(q, "firstfork") => "firstfork" \in ToSet(q)
    BY <1>1 DEF Contains, ToSet
  <2> HIDE DEF b
  <2>3. Frame(b)
    BY <2>1 DEF Frame
  <2> QED
    BY <2>1, <2>2, <2>3 DEF Live
<1> HIDE DEF b, q
<1>3. PICK r : RunFold!Steps(r, b, q, n)
  BY <1>1, RunFold!FoldSteps
<1>4. /\ r[0] = b /\ RunAll(b, q) = r[n]
      /\ \A i \in 1 .. n : r[i] = Run(r[i - 1], q[i])
  BY <1>3, RunAllIsFold DEF RunFold!Steps
<1> DEFINE A(i) == {q[j] : j \in (i + 1) .. n}
           T == {i \in 0 .. n : /\ Frame(r[i]) /\ Live(r[i], A(i), reg)
                            /\ r[i].s["max_clnum"] = p.s["max_clnum"]}
<1>5. 0 \in T
  <2>1. A(0) = ToSet(q)
    BY <1>1 DEF ToSet
  <2> HIDE DEF A
  <2> QED
    BY <1>2, <1>4, <2>1
<1>6. ASSUME NEW i \in 1 .. n, i - 1 \in T PROVE i \in T
  <2>a. PICK f \in Fxns : f = q[i]
    BY <1>a
  <2>b. PICK c : c = r[i - 1]
    OBVIOUS
  <2>1. c = r[i - 1] /\ f = q[i]
    BY <2>a, <2>b
  <2>2. Frame(c) /\ Live(c, A(i - 1), reg) /\ c.s["max_clnum"] = p.s["max_clnum"]
    BY <1>6, <2>1
  <2>3. \A j : j \in (i - 1 + 1) .. n <=> j = i \/ j \in (i + 1) .. n
    OBVIOUS
  <2>4. A(i - 1) \subseteq A(i) \cup {f}
    BY <2>1, <2>3
  <2> HIDE DEF A
  <2>5. /\ Frame(Run(c, f)) /\ Live(Run(c, f), A(i), reg)
        /\ Run(c, f).s["max_clnum"] = c.s["max_clnum"]
    BY <2>2, <2>4, LiveRun
  <2> QED
    BY <1>4, <2>1, <2>2, <2>5
<1> HIDE DEF T
<1>7. n \in T
  <2>1. 0 .. n \subseteq T
    BY <1>5, <1>6, RunFold!UpTo
  <2> QED
    BY <2>1
<1>8. A(n) = {}
  OBVIOUS
<1>9. Live(r[n], A(n), reg) /\ r[n].s["max_clnum"] = p.s["max_clnum"]
  BY <1>7 DEF T
<1> HIDE DEF A
<1> QED
  BY <1>4, <1>8, <1>9 DEF b, q

\* update_maxclnum: the position stays at the end, or the autorun that selects a fork
\* waits.
LEMMA LiveUpdate ==
  ASSUME NEW p, Frame(p), NEW A, Live(p, A, TRUE), NEW msg, IsMap(msg),
         p.s["max_clnum"] # None => DOMAIN p.s["max_clnum"] \subseteq DOMAIN msg
  PROVE  LET q == UpdateMaxclnum(p, msg)
         IN  Live(q, {}, TRUE) /\ q.s["max_clnum"] = msg
<1> DEFINE old == p.s["max_clnum"]
           a == Set(p, "max_clnum", msg)
           b == IF a.s.cview = None \/ a.s.cview[1] = 0 THEN ZoomOutMax(a) ELSE a
           q == SetDefault(b, "forknum", 0)
           f == q.s["forknum"]
           v == msg[f][2]
           r == SetDefault(q, "clnum", v)
           t == Set(r, "clnum", v)
           known == old # None /\ f \in DOMAIN old
<1>1. UpdateMaxclnum(p, msg) = IF f \notin DOMAIN msg THEN q
                               ELSE IF known /\ old[f][2] = r.s["clnum"] THEN t ELSE r
  BY DEF UpdateMaxclnum
<1>2. /\ Frame(a) /\ a.deps = p.deps /\ a.out = p.out /\ a.back = p.back
      /\ a.s["max_clnum"] = msg /\ a.s["forknum"] = p.s["forknum"] /\ a.s["clnum"] = p.s["clnum"]
      /\ a.s["dirtyiaddr"] = p.s["dirtyiaddr"]
  BY SetFields DEF SessionVars
<1>3. Contains(a.pend, "firstfork")
  <2>1. \A y : Contains(a.pend, y) <=> Contains(p.pend, y) \/ Contains(p.deps["max_clnum"], y)
    BY SetFields DEF SessionVars
  <2> QED
    BY <2>1 DEF Live
<1> HIDE DEF a
<1>4. Calm(a, b)
  BY <1>2, CalmZoomOutMax, CalmSelf
<1> HIDE DEF b
\* What each of the assignments that follow leaves as it is.
<1> DEFINE Kept(x) == /\ Frame(x) /\ AutoOut(x.out) /\ x.back = FALSE /\ x.s["dirtyiaddr"] = None
                      /\ x.s["max_clnum"] = msg /\ Contains(x.pend, "firstfork")
                      /\ Contains(x.deps["max_clnum"], "firstfork")
<1>5. Kept(b) /\ b.s["forknum"] = p.s["forknum"] /\ b.s["clnum"] = p.s["clnum"]
  BY <1>2, <1>3, <1>4 DEF Calm, Live, Position
<1>6. ASSUME NEW x, Kept(x), NEW n \in {"forknum", "clnum"}, NEW u
      PROVE  /\ Kept(Set(x, n, u)) /\ Set(x, n, u).s[n] = u
             /\ \A k \in {"forknum", "clnum"} : k # n => Set(x, n, u).s[k] = x.s[k]
  <2> DEFINE y == Set(x, n, u)
  <2>0. n \in SessionVars /\ Frame(x)
    BY <1>6 DEF SessionVars
  <2>1. /\ Frame(y) /\ y.deps = x.deps /\ y.out = x.out /\ y.back = x.back /\ y.s[n] = u
        /\ (\A z : Contains(y.pend, z) <=> Contains(x.pend, z) \/ Contains(x.deps[n], z))
        /\ \A k \in SessionVars : k # n => y.s[k] = x.s[k]
    BY <2>0, SetFields
  <2> HIDE DEF y
  <2>2. y.s["max_clnum"] = x.s["max_clnum"] /\ y.s["dirtyiaddr"] = x.s["dirtyiaddr"]
    BY <2>1 DEF SessionVars
  <2>3. \A k \in {"forknum", "clnum"} : k # n => y.s[k] = x.s[k]
    BY <2>1 DEF SessionVars
  <2>4. Kept(y)
    BY <1>6, <2>1, <2>2
  <2> QED
    BY <2>1, <2>3, <2>4 DEF y
<1> HIDE DEF Kept
<1>7. Kept(q) /\ q.s["clnum"] = p.s["clnum"] /\ f = IF p.s["forknum"] = None THEN 0 ELSE p.s["forknum"]
  <2>1. PICK c : c = Set(b, "forknum", 0)
    OBVIOUS
  <2>2. Kept(c) /\ c.s["forknum"] = 0 /\ c.s["clnum"] = b.s["clnum"]
    BY <1>5, <1>6, <2>1
  <2>3. q = IF b.s["forknum"] = None THEN c ELSE b
    BY <2>1 DEF SetDefault
  <2> HIDE DEF q
  <2> QED
    BY <1>5, <2>2, <2>3
<1> HIDE DEF q, f
<1>8. Kept(r) /\ r.s["forknum"] = f /\ r.s["clnum"] = IF p.s["clnum"] = None THEN v ELSE p.s["clnum"]
  <2>1. PICK c : c = Set(q, "clnum", v)
    OBVIOUS
  <2>2. Kept(c) /\ c.s["clnum"] = v /\ c.s["forknum"] = q.s["forknum"]
    BY <1>6, <1>7, <2>1
  <2>3. r = IF q.s["clnum"] = None THEN c ELSE q
    BY <2>1 DEF SetDefault
  <2> HIDE DEF r, v
  <2> QED
    BY <1>7, <2>2, <2>3 DEF f
<1> HIDE DEF r
<1>9. Kept(t) /\ t.s["forknum"] = f /\ t.s["clnum"] = v
  BY <1>6, <1>8
<1> HIDE DEF t
<1>10. msg # None
  BY UndefinedAssumption DEF IsMap
<1>11. ASSUME NEW x, Kept(x), AtEnd(x.s)
       PROVE  Live(x, {}, TRUE) /\ x.s["max_clnum"] = msg
  BY <1>10, <1>11 DEF Kept, Live
<1>12. CASE f \notin DOMAIN msg
  <2>1. p.s["clnum"] = None
    <3>1. CASE old = None
      BY <3>1 DEF Live
    <3>2. CASE old # None
      <4>1. IsMap(old) /\ AtEnd(p.s) /\ DOMAIN old \subseteq DOMAIN msg
        BY <3>2 DEF Live
      <4>2. None \notin DOMAIN old
        BY <4>1, TracesAssumption, UndefinedAssumption DEF IsMap
      <4>3. p.s["forknum"] \notin DOMAIN old
        BY <1>7, <1>12, <4>1, <4>2
      <4> QED
        BY <4>1, <4>3 DEF AtEnd
    <3> QED
      BY <3>1, <3>2
  <2>2. AtEnd(q.s)
    BY <1>7, <1>12, <2>1 DEF AtEnd, Kept, f
  <2> QED
    BY <1>1, <1>7, <1>11, <1>12, <2>2
<1>13. CASE f \in DOMAIN msg
  <2>1. \A x : Kept(x) /\ x.s["forknum"] = f /\ x.s["clnum"] = v => AtEnd(x.s)
    BY <1>13 DEF AtEnd, Kept
  <2>2. CASE known /\ old[f][2] = r.s["clnum"]
    BY <1>1, <1>9, <1>11, <1>13, <2>1, <2>2
  <2>3. CASE ~(known /\ old[f][2] = r.s["clnum"])
    <3>1. p.s["clnum"] = None
      <4>1. CASE old = None
        BY <4>1 DEF Live
      <4>2. CASE old # None
        <5>1. IsMap(old) /\ AtEnd(p.s)
          BY <4>2 DEF Live
        <5>2. None \notin DOMAIN old
          BY <5>1, TracesAssumption, UndefinedAssumption DEF IsMap
        <5>3. CASE p.s["forknum"] = None
          BY <5>1, <5>2, <5>3 DEF AtEnd
        <5>4. CASE p.s["forknum"] # None /\ f \notin DOMAIN old
          BY <1>7, <5>1, <5>4 DEF AtEnd
        <5>5. CASE p.s["forknum"] # None /\ f \in DOMAIN old
          <6>1. p.s["clnum"] = old[f][2]
            BY <1>7, <5>1, <5>5 DEF AtEnd
          <6>2. old[f] \in Nat \X Nat
            BY <5>1, <5>5 DEF IsMap
          <6>3. old[f][2] \in Nat
            BY <6>2
          <6>4. p.s["clnum"] # None
            BY <6>1, <6>3, UndefinedAssumption
          <6>5. r.s["clnum"] = old[f][2]
            BY <1>8, <6>1, <6>4
          <6> QED
            BY <2>3, <4>2, <5>5, <6>5
        <5> QED
          BY <5>3, <5>4, <5>5
      <4> QED
        BY <4>1, <4>2
    <3>2. r.s["clnum"] = v
      BY <1>8, <3>1
    <3> QED
      BY <1>1, <1>8, <1>11, <1>13, <2>1, <2>3, <3>2
  <2> QED
    BY <2>2, <2>3
<1> QED
  BY <1>12, <1>13

\* Deps.autorun.
LEMMA CalmAutorun ==
  ASSUME NEW p, Frame(p), NEW f \in Fxns, NEW T
  PROVE  LET t == Autorun(p, f, T)
         IN  Calm(p, t) /\ ("max_clnum" \in T => Contains(t.deps["max_clnum"], f))
<1> DEFINE t == Autorun(p, f, T)
<1>1. /\ DOMAIN t = PageFields /\ t.pend = p.pend /\ t.s = p.s /\ t.scenario = p.scenario
      /\ t.out = p.out /\ t.back = p.back
      /\ t.deps = [n \in SessionVars |-> IF n \in T THEN Append(p.deps[n], f) ELSE p.deps[n]]
  BY DEF Frame, Autorun, PageFields
<1> HIDE DEF t
<1>2. ASSUME NEW n \in SessionVars
      PROVE  /\ t.deps[n] \in Seq(Fxns)
             /\ \A y : Contains(t.deps[n], y) <=> Contains(p.deps[n], y) \/ (n \in T /\ y = f)
  <2>1. PICK b \in Seq(Fxns) : b = p.deps[n]
    BY DEF Frame
  <2>2. Append(b, f) \in Seq(Fxns) /\ \A y : Contains(Append(b, f), y) <=> Contains(b, y) \/ y = f
    BY AppendContains
  <2>3. t.deps[n] = IF n \in T THEN Append(b, f) ELSE b
    BY <1>1, <2>1
  <2> QED
    BY <2>1, <2>2, <2>3
<1>3. DOMAIN t.deps = SessionVars /\ "max_clnum" \in SessionVars
  BY <1>1 DEF SessionVars
<1>4. Frame(t)
  BY <1>1, <1>2, <1>3 DEF Frame
<1> QED
  BY <1>1, <1>2, <1>3, <1>4 DEF Calm, t

LEMMA CalmStart ==
  ASSUME NEW p, Frame(p), NEW f \in Fxns \ {"firstfork"}
  PROVE  Calm(p, Start(p, f))
<1>1. PICK q : q = Run(p, f)
  OBVIOUS
<1>2. Calm(p, q)
  BY <1>1, CalmRun
<1>3. PICK t : t = Autorun(q, f, Tracked(p, f))
  OBVIOUS
<1>4. Calm(p, t)
  BY <1>2, <1>3, CalmAutorun, CalmFrame, CalmTrans
<1>5. Start(p, f) \in {p, t}
  BY <1>1, <1>3 DEF Start
<1> QED
  BY <1>4, <1>5, CalmSelf

LEMMA CalmStartAll ==
  ASSUME NEW p, Frame(p), NEW q \in Seq(Fxns \ {"firstfork"})
  PROVE  Calm(p, StartAll(p, q))
<1>1. PICK n \in Nat : n = Len(q) /\ DOMAIN q = 1 .. n
  OBVIOUS
<1>2. PICK r : StartFold!Steps(r, p, q, n)
  BY <1>1, StartFold!FoldSteps
<1>3. /\ r[0] = p /\ StartAll(p, q) = r[n]
      /\ \A i \in 1 .. n : r[i] = Start(r[i - 1], q[i])
  BY <1>2, StartAllIsFold DEF StartFold!Steps
<1> DEFINE T == {i \in 0 .. n : Calm(p, r[i])}
<1>4. 0 \in T
  BY <1>3, CalmSelf
<1>5. ASSUME NEW i \in 1 .. n, i - 1 \in T PROVE i \in T
  <2>a. PICK f \in Fxns \ {"firstfork"} : f = q[i]
    BY <1>1
  <2>b. PICK c : c = r[i - 1]
    OBVIOUS
  <2>1. Calm(p, c)
    BY <1>5, <2>b
  <2>2. Calm(p, Start(c, f))
    BY <2>1, CalmStart, CalmFrame, CalmTrans
  <2> QED
    BY <1>3, <2>a, <2>b, <2>2
<1> HIDE DEF T
<1>6. n \in T
  <2>1. 0 .. n \subseteq T
    BY <1>4, <1>5, StartFold!UpTo
  <2> QED
    BY <2>1
<1> QED
  BY <1>3, <1>6 DEF T

\* controls.js registers the autorun that selects a fork, and runs it.
LEMMA LiveStartFirst ==
  ASSUME NEW p, Frame(p), Live(p, {}, FALSE)
  PROVE  LET q == Start(p, "firstfork")
         IN  Frame(q) /\ Live(q, {}, TRUE) /\ q.s["max_clnum"] = p.s["max_clnum"]
<1>1. PICK q : q = SelectFirstFork(p)
  OBVIOUS
<1>2. Frame(q) /\ Live(q, {}, FALSE) /\ q.s["max_clnum"] = p.s["max_clnum"]
  BY <1>1, LiveFirst
<1>3. PICK t : t = Autorun(q, "firstfork", Tracked(p, "firstfork"))
  OBVIOUS
<1>4. Tracked(p, "firstfork") = {"max_clnum"}
  BY DEF Tracked
<1>5. Calm(q, t) /\ Contains(t.deps["max_clnum"], "firstfork")
  BY <1>2, <1>3, <1>4, CalmAutorun DEF Fxns
<1>6. Live(t, {}, TRUE)
  <2>1. Live(t, {}, FALSE)
    BY <1>2, <1>5, LiveCalm
  <2> QED
    BY <1>5, <2>1 DEF Live
<1>7. Start(p, "firstfork") = t
  <2>1. "firstfork" \in Scenarios[p.scenario].followed
    BY TracesAssumption DEF Frame
  <2>2. Run(p, "firstfork") = q
    BY <1>1 DEF Run
  <2> QED
    BY <1>3, <2>1, <2>2 DEF Start
<1> QED
  BY <1>2, <1>5, <1>6, <1>7, CalmFrame, CalmMax

\* The second script.
LEMMA LiveLoadControls ==
  ASSUME NEW p, Frame(p), Live(p, {}, FALSE)
  PROVE  LET q == StartAll(p, <<"firstfork", "controls">>)
         IN  Live(q, {}, TRUE) /\ q.s["max_clnum"] = p.s["max_clnum"]
<1> DEFINE q == <<"firstfork", "controls">>
<1>1. DOMAIN q = 1 .. 2 /\ q[1] = "firstfork" /\ q[2] = "controls"
  OBVIOUS
<1> HIDE DEF q
<1>2. PICK r : StartFold!Steps(r, p, q, 2)
  BY <1>1, StartFold!FoldSteps
<1>3. /\ r[0] = p /\ StartAll(p, q) = r[2]
      /\ \A i \in 1 .. 2 : r[i] = Start(r[i - 1], q[i])
  BY <1>2, StartAllIsFold DEF StartFold!Steps
<1>4. r[1] = Start(p, "firstfork") /\ r[2] = Start(r[1], "controls")
  <2>1. r[1] = Start(r[1 - 1], q[1]) /\ r[2] = Start(r[2 - 1], q[2])
    BY <1>3
  <2>2. 1 - 1 = 0 /\ 2 - 1 = 1
    OBVIOUS
  <2> QED
    BY <1>1, <1>3, <2>1, <2>2
<1>5. PICK c : c = r[1]
  OBVIOUS
<1>6. Frame(c) /\ Live(c, {}, TRUE) /\ c.s["max_clnum"] = p.s["max_clnum"]
  BY <1>4, <1>5, LiveStartFirst
<1>7. Calm(c, Start(c, "controls"))
  BY <1>6, CalmStart DEF Fxns
<1>8. PICK d : d = Start(c, "controls")
  OBVIOUS
<1>9. Live(d, {}, TRUE) /\ d.s["max_clnum"] = p.s["max_clnum"]
  BY <1>6, <1>7, <1>8, LiveCalm, CalmMax
<1>10. StartAll(p, q) = d
  BY <1>3, <1>4, <1>5, <1>8
<1> QED
  BY <1>9, <1>10 DEF q

LEMMA LiveLoad ==
  ASSUME NEW p, Frame(p), NEW ld \in 0 .. 5, p.loaded = ld, Live(p, {}, ld >= 2)
  PROVE  Live(LoadScript(p), {}, ld + 1 >= 2) /\ LoadScript(p).s["max_clnum"] = p.s["max_clnum"]
<1> DEFINE b == [p EXCEPT !.loaded = @ + 1]
           q == Scripts[ld + 1].autoruns
<1>1. LoadScript(p) = StartAll(b, q)
  BY DEF LoadScript
<1>2. Calm(p, b)
  BY CalmDraw
<1> HIDE DEF b
<1>3. Frame(b) /\ Live(b, {}, ld >= 2) /\ b.s["max_clnum"] = p.s["max_clnum"]
  BY <1>2, CalmFrame, CalmMax, LiveCalm
<1>4. CASE ld = 1
  <2>1. q = <<"firstfork", "controls">>
    BY <1>4 DEF Scripts
  <2>2. Live(b, {}, FALSE)
    BY <1>3 DEF Live
  <2>3. Live(StartAll(b, q), {}, TRUE) /\ StartAll(b, q).s["max_clnum"] = b.s["max_clnum"]
    BY <1>3, <2>1, <2>2, LiveLoadControls
  <2> HIDE DEF q
  <2> QED
    BY <1>1, <1>3, <2>3 DEF Live
<1>5. CASE ld # 1
  <2>1. q \in Seq(Fxns \ {"firstfork"})
    <3>1. /\ Scripts[1].autoruns = <<"history", "rehighlight">>
          /\ Scripts[3].autoruns = <<"ida">>
          /\ Scripts[4].autoruns = <<"instructions">>
          /\ Scripts[5].autoruns = <<"memory", "registers", "clnum">>
          /\ Scripts[6].autoruns = <<"bounds", "change", "ichanges", "dchanges">>
      BY DEF Scripts
    <3>2. /\ <<"history", "rehighlight">> \in Seq(Fxns \ {"firstfork"})
          /\ <<"ida">> \in Seq(Fxns \ {"firstfork"})
          /\ <<"instructions">> \in Seq(Fxns \ {"firstfork"})
          /\ <<"memory", "registers", "clnum">> \in Seq(Fxns \ {"firstfork"})
          /\ <<"bounds", "change", "ichanges", "dchanges">> \in Seq(Fxns \ {"firstfork"})
      BY DEF Fxns
    <3>3. ld + 1 = 1 \/ ld + 1 = 3 \/ ld + 1 = 4 \/ ld + 1 = 5 \/ ld + 1 = 6
      BY <1>5
    <3> QED
      BY <3>1, <3>2, <3>3
  <2> HIDE DEF q
  <2>2. Calm(b, StartAll(b, q))
    BY <1>3, <2>1, CalmStartAll
  <2>3. Live(StartAll(b, q), {}, ld >= 2) /\ StartAll(b, q).s["max_clnum"] = b.s["max_clnum"]
    BY <1>3, <2>2, LiveCalm, CalmMax
  <2>4. ld + 1 >= 2 <=> ld >= 2
    BY <1>5
  <2> QED
    BY <1>1, <1>3, <2>3, <2>4 DEF Live
<1> QED
  BY <1>4, <1>5

LEMMA InvFrame ==
  ASSUME NEW p, PageInv(p)
  PROVE  Frame(p) /\ p.loaded \in 0 .. 6
  BY ShapeFrame DEF PageInv, Blank, Good, Shape

\* The page when it connects.
LEMMA LivePageAfter ==
  ASSUME NEW name \in DOMAIN Scenarios, NEW n \in 0 .. 6
  PROVE  LET p == PageAfter(name, n)
         IN  Live(p, {}, p.loaded >= 2) /\ p.s["max_clnum"] = None
<1> DEFINE q == [i \in 1 .. n |-> i]
           p == NoPage(name)
<1>1. PageAfter(name, n) = LoadAll(p, q)
  BY DEF PageAfter
<1>2. n \in Nat /\ DOMAIN q = 1 .. n
  OBVIOUS
<1>3. PageInv(p) /\ p.loaded = 0
  BY InvNoPage
<1>4. Live(p, {}, FALSE) /\ p.s["max_clnum"] = None
  <2>1. p.s = NoSession /\ p.out = <<>> /\ p.back = FALSE
    BY DEF NoPage
  <2>2. AutoOut(<<>>)
    BY DEF AutoOut, IsSeq
  <2>3. /\ NoSession["dirtyiaddr"] = None /\ NoSession["max_clnum"] = None
        /\ NoSession["forknum"] = None /\ NoSession["clnum"] = None
    BY DEF NoSession
  <2> HIDE DEF p
  <2> QED
    BY <2>1, <2>2, <2>3 DEF Live
<1> HIDE DEF p, q
<1>5. PICK r : LoadFold!Steps(r, p, q, n)
  BY <1>2, LoadFold!FoldSteps
<1>6. /\ r[0] = p /\ LoadAll(p, q) = r[n]
      /\ \A i \in 1 .. n : r[i] = LoadScript(r[i - 1])
  BY <1>5, LoadAllIsFold DEF LoadFold!Steps, LoadNext
<1> DEFINE T == {i \in 0 .. n : /\ PageInv(r[i]) /\ r[i].loaded = i /\ Live(r[i], {}, i >= 2)
                            /\ r[i].s["max_clnum"] = None}
<1>7. 0 \in T
  <2>1. Live(p, {}, 0 >= 2)
    BY <1>4 DEF Live
  <2> QED
    BY <1>3, <1>4, <1>6, <2>1
<1>8. ASSUME NEW i \in 1 .. n, i - 1 \in T PROVE i \in T
  <2>1. PICK c : c = r[i - 1]
    OBVIOUS
  <2>2. PICK ld \in 0 .. 5 : ld = i - 1
    OBVIOUS
  <2>3. PageInv(c) /\ c.loaded = ld /\ Live(c, {}, ld >= 2) /\ c.s["max_clnum"] = None
    BY <1>8, <2>1, <2>2
  <2>4. PageInv(LoadScript(c)) /\ LoadScript(c).loaded = c.loaded + 1
    BY <2>3, InvLoad
  <2>5. Live(LoadScript(c), {}, ld + 1 >= 2) /\ LoadScript(c).s["max_clnum"] = None
    BY <2>3, InvFrame, LiveLoad
  <2>6. ld + 1 = i
    BY <2>2
  <2> QED
    BY <1>6, <2>1, <2>3, <2>4, <2>5, <2>6
<1> HIDE DEF T
<1>9. n \in T
  <2>1. 0 .. n \subseteq T
    BY <1>7, <1>8, LoadFold!UpTo
  <2> QED
    BY <2>1
<1> QED
  BY <1>1, <1>6, <1>9 DEF T

\* regmem.js listens for the traces, after controls.js has run.
LEMMA MaxclnumHeard ==
  ASSUME NEW ld \in 0 .. 6, "maxclnum" \in UNION {Scripts[i].on : i \in 1 .. ld}
  PROVE  ld >= 2
<1>1. PICK i \in 1 .. ld : "maxclnum" \in Scripts[i].on
  OBVIOUS
<1>2. Scripts[1].on = {}
  BY DEF Scripts
<1>3. i # 1
  BY <1>1, <1>2
<1> QED
  BY <1>3

\* The forks the page knows of.
Known(p) == IF p.s["max_clnum"] = None THEN {} ELSE DOMAIN p.s["max_clnum"]

\* A message that is no navigation.
LEMMA LiveOnMessage ==
  ASSUME NEW p, PageInv(p), Live(p, {}, p.loaded >= 2), NEW msg, msg.kind \notin {"setiaddr", "setclnum"},
         msg.kind = "maxclnum" => IsMap(msg.arg) /\ Known(p) \subseteq DOMAIN msg.arg
  PROVE  LET q == OnMessage(p, msg)
         IN  /\ Live(q, {}, p.loaded >= 2)
             /\ Known(q) = Known(p) \/ (msg.kind = "maxclnum" /\ Known(q) = DOMAIN msg.arg)
<1> DEFINE listened == UNION {Scripts[i].on : i \in 1 .. p.loaded}
<1>1. Frame(p) /\ p.loaded \in 0 .. 6
  BY InvFrame
<1>2. listened \subseteq MessageKinds
  BY <1>1, ListenedTo
<1>3. "maxclnum" \in listened => p.loaded >= 2
  BY <1>1, MaxclnumHeard
<1>4. CASE msg.kind \notin listened
  <2>1. OnMessage(p, msg) = p
    BY <1>4 DEF OnMessage
  <2> QED
    BY <2>1
<1>5. CASE msg.kind \in listened /\ msg.kind # "maxclnum"
  <2>1. Calm(p, OnMessage(p, msg))
    <3> HIDE DEF listened
    <3>1. CASE msg.kind = "instructions"
      <4>1. OnMessage(p, msg) = OnInstructions(p, msg.arg)
        BY <1>5, <3>1 DEF OnMessage, listened
      <4> QED
        BY <1>1, <4>1, CalmOnInstructions
    <3>2. CASE msg.kind = "pmaps"
      <4>1. OnMessage(p, msg) = Set(p, "pmaps", TRUE)
        BY <1>5, <3>2 DEF OnMessage, listened
      <4> QED
        BY <1>1, <4>1, CalmSet DEF SessionVars, Position
    <3>3. CASE msg.kind \in {"memory", "registers", "clnum"}
      <4>1. OnMessage(p, msg) \in {OnMemory(p, msg.arg), OnRegisters(p, msg.arg), OnClnum(p, msg.arg)}
        BY <1>5, <3>3 DEF OnMessage, listened
      <4>2. PICK at : at = msg.arg
        OBVIOUS
      <4>3. Calm(p, OnMemory(p, at)) /\ Calm(p, OnRegisters(p, at)) /\ Calm(p, OnClnum(p, at))
        BY <1>1, CalmAnswers
      <4> QED
        BY <4>1, <4>2, <4>3
    <3>4. CASE msg.kind = "changes"
      <4>1. OnMessage(p, msg) = OnChanges(p, msg.arg)
        BY <1>5, <3>4 DEF OnMessage, listened
      <4>2. p.s["dirtyiaddr"] = None
        BY DEF Live
      <4> QED
        BY <1>1, <4>1, <4>2, CalmOnChanges
    <3>5. CASE msg.kind = "setpicture"
      <4>1. OnMessage(p, msg) = OnSetpicture(p, msg.arg)
        BY <1>5, <3>5 DEF OnMessage, listened
      <4> QED
        BY <1>1, <4>1, CalmOnSetpicture
    <3> QED
      BY <1>2, <1>5, <3>1, <3>2, <3>3, <3>4, <3>5 DEF MessageKinds
  <2>2. PICK q : q = OnMessage(p, msg)
    OBVIOUS
  <2>3. Live(q, {}, p.loaded >= 2) /\ q.s["max_clnum"] = p.s["max_clnum"]
    BY <2>1, <2>2, LiveCalm, CalmMax
  <2> QED
    BY <2>2, <2>3 DEF Known
<1>6. CASE msg.kind \in listened /\ msg.kind = "maxclnum"
  <2>1. OnMessage(p, msg) = UpdateMaxclnum(p, msg.arg)
    BY <1>6 DEF OnMessage
  <2>2. PICK arg : arg = msg.arg
    OBVIOUS
  <2>3. Live(p, {}, TRUE) /\ IsMap(arg) /\ (p.s["max_clnum"] # None => DOMAIN p.s["max_clnum"] \subseteq DOMAIN arg)
    BY <1>3, <1>6, <2>2 DEF Live, Known
  <2>4. PICK q : q = UpdateMaxclnum(p, arg)
    OBVIOUS
  <2>5. Live(q, {}, TRUE) /\ q.s["max_clnum"] = arg
    BY <1>1, <2>3, <2>4, LiveUpdate
  <2>6. arg # None
    BY <2>3, UndefinedAssumption DEF IsMap
  <2>7. Live(q, {}, p.loaded >= 2) /\ Known(q) = DOMAIN arg
    BY <2>5, <2>6 DEF Live, Known
  <2> HIDE DEF listened
  <2> QED
    BY <1>6, <2>1, <2>2, <2>4, <2>7
<1> QED
  BY <1>4, <1>5, <1>6

-----------------------------------------------------------------------------
(* The stream to a page nobody touches.                                    *)

MaxAt(msgs, i) == msgs[i].kind = "maxclnum"

\* The messages under way are answers and pushes, and no fork that the page or a
\* message knows of is missing from what follows.
Stream(msgs, known, there) ==
  /\ IsSeq(msgs)
  /\ \A i \in 1 .. Len(msgs) : msgs[i].kind \notin {"setiaddr", "setclnum"}
  /\ \A i \in 1 .. Len(msgs) : MaxAt(msgs, i) =>
       /\ IsMap(msgs[i].arg)
       /\ known \subseteq DOMAIN msgs[i].arg /\ DOMAIN msgs[i].arg \subseteq there
       /\ \A j \in 1 .. i : MaxAt(msgs, j) => DOMAIN msgs[j].arg \subseteq DOMAIN msgs[i].arg

LEMMA StreamGrow ==
  ASSUME NEW msgs, NEW known, NEW there, Stream(msgs, known, there), NEW more, there \subseteq more
  PROVE  Stream(msgs, known, more)
<1>1. ASSUME NEW i \in 1 .. Len(msgs), MaxAt(msgs, i) PROVE DOMAIN msgs[i].arg \subseteq more
  BY <1>1 DEF Stream
<1> QED
  BY <1>1 DEF Stream

\* Messages that tell nothing of the traces.
LEMMA StreamAnswers ==
  ASSUME NEW msgs, NEW known, NEW there, Stream(msgs, known, there), NEW ans, IsSeq(ans),
         \A i \in 1 .. Len(ans) : ans[i].kind \notin {"setiaddr", "setclnum", "maxclnum"}
  PROVE  Stream(msgs \o ans, known, there)
<1> DEFINE all == msgs \o ans
<1>1. IsSeq(msgs)
  BY DEF Stream
<1>2. PICK m \in Nat : m = Len(msgs)
  BY <1>1, IsSeqLen
<1>3. PICK n \in Nat : n = Len(ans)
  BY IsSeqLen
<1>4. /\ IsSeq(all) /\ Len(all) = m + n
      /\ \A i \in 1 .. (m + n) : all[i] = IF i <= m THEN msgs[i] ELSE ans[i - m]
  BY <1>1, <1>2, <1>3, IsSeqConcat
<1> HIDE DEF all
<1>5. ASSUME NEW i \in 1 .. (m + n)
      PROVE  (i \in 1 .. m /\ all[i] = msgs[i]) \/ (i \notin 1 .. m /\ i - m \in 1 .. n /\ all[i] = ans[i - m])
  BY <1>4
<1>6. \A i \in 1 .. (m + n) : all[i].kind \notin {"setiaddr", "setclnum"}
  BY <1>2, <1>3, <1>5 DEF Stream
<1>7. \A i \in 1 .. (m + n) : MaxAt(all, i) => i \in 1 .. m /\ all[i] = msgs[i] /\ MaxAt(msgs, i)
  BY <1>2, <1>3, <1>5 DEF MaxAt
<1>8. ASSUME NEW i \in 1 .. (m + n), MaxAt(all, i)
      PROVE  /\ IsMap(all[i].arg)
             /\ known \subseteq DOMAIN all[i].arg /\ DOMAIN all[i].arg \subseteq there
             /\ \A j \in 1 .. i : MaxAt(all, j) => DOMAIN all[j].arg \subseteq DOMAIN all[i].arg
  <2>1. i \in 1 .. m /\ all[i] = msgs[i] /\ MaxAt(msgs, i)
    BY <1>7, <1>8
  <2>2. /\ IsMap(msgs[i].arg) /\ known \subseteq DOMAIN msgs[i].arg /\ DOMAIN msgs[i].arg \subseteq there
        /\ \A j \in 1 .. i : MaxAt(msgs, j) => DOMAIN msgs[j].arg \subseteq DOMAIN msgs[i].arg
    BY <1>2, <2>1 DEF Stream
  <2>3. \A j \in 1 .. i : j \in 1 .. (m + n)
    OBVIOUS
  <2> QED
    BY <1>7, <2>1, <2>2, <2>3
<1> QED
  BY <1>4, <1>6, <1>8 DEF Stream, all

\* push_updates.
LEMMA StreamPush ==
  ASSUME NEW msgs, NEW known, NEW t, Stream(msgs, known, DOMAIN t), IsMap(t), known \subseteq DOMAIN t
  PROVE  Stream(msgs \o PushUpdates(t), known, DOMAIN t)
<1> DEFINE ans == PushUpdates(t)
           all == msgs \o ans
<1>1. IsSeq(msgs)
  BY DEF Stream
<1>2. PICK m \in Nat : m = Len(msgs)
  BY <1>1, IsSeqLen
<1>3. /\ Len(ans) = 2 /\ ans[1].kind = "pmaps" /\ ans[2].kind = "maxclnum" /\ ans[2].arg = t
      /\ ans \in Seq({Message("pmaps", None), Message("maxclnum", t)})
  BY DEF PushUpdates, Message
<1> HIDE DEF ans
<1>4. IsSeq(ans)
  BY <1>3, SeqIsSeq
<1>5. /\ IsSeq(all) /\ Len(all) = m + 2
      /\ \A i \in 1 .. (m + 2) : all[i] = IF i <= m THEN msgs[i] ELSE ans[i - m]
  <2>1. PICK n \in Nat : n = Len(ans) /\ n = 2
    BY <1>3
  <2>2. /\ IsSeq(all) /\ Len(all) = m + n
        /\ \A i \in 1 .. (m + n) : all[i] = IF i <= m THEN msgs[i] ELSE ans[i - m]
    BY <1>1, <1>2, <1>4, <2>1, IsSeqConcat
  <2> HIDE DEF all
  <2> QED
    BY <2>1, <2>2
<1> HIDE DEF all
<1>6. \A i \in 1 .. (m + 2) : i \in 1 .. m \/ i = m + 1 \/ i = m + 2
  OBVIOUS
<1>7. \A i \in 1 .. m : all[i] = msgs[i]
  BY <1>5
<1>8. all[m + 1] = ans[1] /\ all[m + 2] = ans[2]
  BY <1>5
<1>9. \A i \in 1 .. (m + 2) : all[i].kind \notin {"setiaddr", "setclnum"}
  BY <1>2, <1>3, <1>6, <1>7, <1>8 DEF Stream
<1>10. \A i \in 1 .. (m + 2) : MaxAt(all, i) => (i \in 1 .. m /\ MaxAt(msgs, i)) \/ i = m + 2
  BY <1>3, <1>6, <1>7, <1>8 DEF MaxAt
<1>11. \A i \in 1 .. m : MaxAt(msgs, i) => DOMAIN msgs[i].arg \subseteq DOMAIN t
  BY <1>2 DEF Stream
<1>12. ASSUME NEW i \in 1 .. (m + 2), MaxAt(all, i)
       PROVE  /\ IsMap(all[i].arg)
              /\ known \subseteq DOMAIN all[i].arg /\ DOMAIN all[i].arg \subseteq DOMAIN t
              /\ \A j \in 1 .. i : MaxAt(all, j) => DOMAIN all[j].arg \subseteq DOMAIN all[i].arg
  <2>1. CASE i \in 1 .. m /\ MaxAt(msgs, i)
    <3>1. /\ IsMap(msgs[i].arg) /\ known \subseteq DOMAIN msgs[i].arg
          /\ DOMAIN msgs[i].arg \subseteq DOMAIN t
          /\ \A j \in 1 .. i : MaxAt(msgs, j) => DOMAIN msgs[j].arg \subseteq DOMAIN msgs[i].arg
      BY <1>2, <2>1 DEF Stream
    <3>2. \A j \in 1 .. i : j \in 1 .. (m + 2) /\ j # m + 2 /\ j \in 1 .. m
      BY <2>1
    <3> QED
      BY <1>7, <1>10, <2>1, <3>1, <3>2
  <2>2. CASE i = m + 2
    <3>1. all[i].arg = t
      BY <1>3, <1>8, <2>2
    <3>2. ASSUME NEW j \in 1 .. i, MaxAt(all, j) PROVE DOMAIN all[j].arg \subseteq DOMAIN t
      <4>1. (j \in 1 .. m /\ MaxAt(msgs, j)) \/ j = i
        BY <1>10, <2>2, <3>2
      <4> QED
        BY <1>7, <1>11, <3>1, <4>1
    <3> QED
      BY <3>1, <3>2
  <2> QED
    BY <1>10, <1>12, <2>1, <2>2
<1> QED
  BY <1>5, <1>9, <1>12 DEF Stream, ans, all

\* A message is delivered.
LEMMA StreamTail ==
  ASSUME NEW msgs, NEW known, NEW there, Stream(msgs, known, there), msgs # <<>>, NEW now,
         now = known \/ (Head(msgs).kind = "maxclnum" /\ now = DOMAIN Head(msgs).arg)
  PROVE  Stream(Tail(msgs), now, there)
<1> DEFINE rest == Tail(msgs)
<1>1. IsSeq(msgs)
  BY DEF Stream
<1>2. /\ IsSeq(rest) /\ Len(msgs) > 0 /\ Len(rest) = Len(msgs) - 1 /\ Head(msgs) = msgs[1]
      /\ \A i \in 1 .. Len(rest) : rest[i] = msgs[i + 1]
  BY <1>1, IsSeqTail
<1> HIDE DEF rest
<1>3. PICK n \in Nat : n = Len(rest) /\ Len(msgs) = n + 1
  BY <1>1, <1>2, IsSeqLen
<1>4. \A i \in 1 .. n : i + 1 \in 1 .. (n + 1) /\ rest[i] = msgs[i + 1]
  BY <1>2, <1>3
<1>5. \A i \in 1 .. n : rest[i].kind \notin {"setiaddr", "setclnum"}
  BY <1>3, <1>4 DEF Stream
<1>6. \A i \in 1 .. n : MaxAt(rest, i) <=> MaxAt(msgs, i + 1)
  BY <1>4 DEF MaxAt
<1>7. ASSUME NEW i \in 1 .. n, MaxAt(rest, i)
      PROVE  /\ IsMap(rest[i].arg)
             /\ now \subseteq DOMAIN rest[i].arg /\ DOMAIN rest[i].arg \subseteq there
             /\ \A j \in 1 .. i : MaxAt(rest, j) => DOMAIN rest[j].arg \subseteq DOMAIN rest[i].arg
  <2>1. PICK k \in 1 .. (n + 1) : k = i + 1 /\ MaxAt(msgs, k) /\ rest[i] = msgs[k]
    BY <1>4, <1>6, <1>7
  <2>2. /\ IsMap(msgs[k].arg) /\ known \subseteq DOMAIN msgs[k].arg /\ DOMAIN msgs[k].arg \subseteq there
        /\ \A j \in 1 .. k : MaxAt(msgs, j) => DOMAIN msgs[j].arg \subseteq DOMAIN msgs[k].arg
    BY <1>3, <2>1 DEF Stream
  <2>3. Head(msgs).kind = "maxclnum" => DOMAIN Head(msgs).arg \subseteq DOMAIN msgs[k].arg
    BY <1>2, <2>2 DEF MaxAt
  <2>4. \A j \in 1 .. i : j \in 1 .. n /\ j + 1 \in 1 .. k
    BY <2>1
  <2>5. \A j \in 1 .. i : MaxAt(rest, j) => DOMAIN rest[j].arg \subseteq DOMAIN rest[i].arg
    BY <1>4, <1>6, <2>1, <2>2, <2>4
  <2> QED
    BY <2>1, <2>2, <2>3, <2>5
<1> QED
  BY <1>2, <1>3, <1>5, <1>7 DEF Stream, rest

\* What the server answers to an autorun.
LEMMA AutoAnswers ==
  ASSUME NEW call, call[1] \in AutoCalls, NEW ans \in Answers(call)
  PROVE  /\ IsSeq(ans)
         /\ \A i \in 1 .. Len(ans) : ans[i].kind \notin {"setiaddr", "setclnum", "maxclnum"}
<1> DEFINE Kinds == {"changes", "instructions", "memory", "registers", "clnum"}
<1>1. ans = <<>> \/ \E kind \in Kinds : \E arg : ans = <<Message(kind, arg)>>
  <2>1. CASE call[1] = "getchanges"
    BY <2>1 DEF Answers
  <2>2. CASE call[1] # "getchanges" /\ call[2] \notin DOMAIN traces
    <3>1. call[1] # "gotoname"
      BY DEF AutoCalls
    <3> QED
      BY <2>2, <3>1 DEF Answers
  <2>3. CASE call[1] # "getchanges" /\ call[2] \in DOMAIN traces
    <3>1. call[1] \in {"getinstructions", "getmemory", "getregisters", "getclnum"}
      BY <2>3 DEF AutoCalls
    <3> QED
      BY <2>3, <3>1 DEF Answers
  <2> QED
    BY <2>1, <2>2, <2>3
<1>2. CASE ans = <<>>
  BY <1>2 DEF IsSeq
<1>3. CASE \E kind \in Kinds : \E arg : ans = <<Message(kind, arg)>>
  <2>1. PICK kind \in Kinds : \E arg : ans = <<Message(kind, arg)>>
    BY <1>3
  <2>2. PICK arg : ans = <<Message(kind, arg)>>
    BY <2>1
  <2>3. PICK m : m = Message(kind, arg)
    OBVIOUS
  <2>4. ans \in Seq({m}) /\ Len(ans) = 1 /\ ans[1] = m
    BY <2>2, <2>3
  <2>5. m.kind = kind
    BY <2>3 DEF Message
  <2>6. IsSeq(ans)
    BY <2>4, SeqIsSeq
  <2> QED
    BY <2>1, <2>4, <2>5, <2>6
<1> QED
  BY <1>1, <1>2, <1>3

\* A page nobody has touched: every fork it and the messages know of is there.
LiveInv ==
  /\ events \in Nat
  /\ events = 0 =>
       /\ Live(page, {}, page.loaded >= 2)
       /\ IsMap(traces) /\ Known(page) \subseteq DOMAIN traces
       /\ Stream(toClient, Known(page), DOMAIN traces)

LEMMA LiveInit ==
  ASSUME Init, PageInv(page)
  PROVE  LiveInv
<1>1. PICK name \in DOMAIN Scenarios : page = PageAfter(name, Scenarios[name].loaded)
  BY DEF Init
<1>2. PICK n \in 0 .. 6 : n = Scenarios[name].loaded
  BY LoadedAssumption, ScriptsAre
<1>3. Live(page, {}, page.loaded >= 2) /\ page.s["max_clnum"] = None
  BY <1>1, <1>2, LivePageAfter
<1>4. Known(page) = {}
  BY <1>3 DEF Known
<1>5. page.scenario \in DOMAIN Scenarios
  BY InvFrame DEF Frame
<1>6. PICK sc \in DOMAIN Scenarios : sc = page.scenario
  BY <1>5
<1>7. traces = Scenarios[sc].traces
  BY <1>6 DEF Init, Scenario
<1>8. IsMap(traces)
  <2>1. traces \in [DOMAIN traces -> Nat \X Nat] /\ DOMAIN traces \subseteq Scenarios[sc].forks
    BY <1>7, TracesAssumption
  <2>2. Scenarios[sc].forks \subseteq AllForks
    BY DEF AllForks
  <2> QED
    BY <2>1, <2>2 DEF IsMap
<1>9. Stream(<<>>, {}, DOMAIN traces)
  BY DEF Stream, IsSeq
<1>10. Stream(<<>> \o PushUpdates(traces), {}, DOMAIN traces)
  BY <1>8, <1>9, StreamPush
<1>11. <<>> \o PushUpdates(traces) = PushUpdates(traces)
  BY DEF PushUpdates
<1>12. toClient = PushUpdates(traces) /\ events = 0
  BY DEF Init
<1> QED
  BY <1>3, <1>4, <1>8, <1>10, <1>11, <1>12 DEF LiveInv

\* The tracer and the poller.
LEMMA LiveServer ==
  ASSUME PageInv(page), LiveInv, NewRun \/ Poll \/ \E f \in DOMAIN traces : Grow(f) \/ Analysed(f)
  PROVE  LiveInv'
<1>0. page' = page /\ events' = events
  BY DEF NewRun, Poll, Grow, Analysed
<1> SUFFICES ASSUME events = 0
             PROVE  /\ IsMap(traces') /\ Known(page) \subseteq DOMAIN traces'
                    /\ Stream(toClient', Known(page), DOMAIN traces')
  BY <1>0 DEF LiveInv
<1>1. IsMap(traces) /\ Known(page) \subseteq DOMAIN traces /\ Stream(toClient, Known(page), DOMAIN traces)
  BY DEF LiveInv
<1>2. CASE NewRun
  <2>0. PICK id \in Forks :
          /\ traces' = [f \in (DOMAIN traces) \cup {id} |-> IF f = id THEN <<0, 0>> ELSE traces[f]]
          /\ toClient' = toClient
    BY <1>2 DEF NewRun
  <2>1. id \in AllForks
    <3>1. PICK sc \in DOMAIN Scenarios : sc = page.scenario
      BY InvFrame DEF Frame
    <3>2. id \in Scenarios[sc].forks
      BY <3>1 DEF Forks, Scenario
    <3> QED
      BY <3>1, <3>2 DEF AllForks
  <2>2. /\ traces' = [f \in (DOMAIN traces) \cup {id} |-> IF f = id THEN <<0, 0>> ELSE traces[f]]
        /\ toClient' = toClient
    BY <2>0
  <2>3. IsMap(traces') /\ DOMAIN traces \subseteq DOMAIN traces'
    BY <1>1, <2>1, <2>2 DEF IsMap
  <2> QED
    BY <1>1, <2>2, <2>3, StreamGrow
<1>3. CASE Poll
  BY <1>1, <1>3, StreamPush DEF Poll
<1>4. ASSUME NEW f \in DOMAIN traces, Grow(f)
      PROVE  /\ IsMap(traces') /\ Known(page) \subseteq DOMAIN traces'
             /\ Stream(toClient', Known(page), DOMAIN traces')
  <2>1. traces' = [traces EXCEPT ![f][2] = @ + 1] /\ toClient' = toClient
    BY <1>4 DEF Grow
  <2>2. traces[f] \in Nat \X Nat
    BY <1>1 DEF IsMap
  <2>3. [traces[f] EXCEPT ![2] = @ + 1] \in Nat \X Nat
    BY <2>2
  <2>4. traces' = [traces EXCEPT ![f] = [traces[f] EXCEPT ![2] = @ + 1]]
    BY <2>1
  <2>5. DOMAIN traces' = DOMAIN traces
    BY <2>4
  <2>6. IsMap(traces')
    BY <1>1, <2>3, <2>4, <2>5 DEF IsMap
  <2> QED
    BY <1>1, <2>1, <2>5, <2>6
<1>5. ASSUME NEW f \in DOMAIN traces, Analysed(f)
      PROVE  /\ IsMap(traces') /\ Known(page) \subseteq DOMAIN traces'
             /\ Stream(toClient', Known(page), DOMAIN traces')
  <2>1. PICK m : m = Message("setpicture", f)
    OBVIOUS
  <2>2. traces' = traces /\ toClient' = Append(toClient, m)
    BY <1>5, <2>1 DEF Analysed, serverVars
  <2>3. <<m>> \in Seq({m}) /\ Len(<<m>>) = 1 /\ <<m>>[1] = m /\ m.kind = "setpicture"
    BY <2>1 DEF Message
  <2>4. IsSeq(<<m>>)
    BY <2>3, SeqIsSeq
  <2>5. Stream(toClient \o <<m>>, Known(page), DOMAIN traces)
    BY <1>1, <2>3, <2>4, StreamAnswers
  <2>6. toClient \o <<m>> = Append(toClient, m)
    <3>1. PICK S : toClient \in Seq(S)
      BY <1>1 DEF Stream, IsSeq
    <3> QED
      BY <3>1
  <2> QED
    BY <1>1, <2>2, <2>5, <2>6
<1> QED
  BY <1>2, <1>3, <1>4, <1>5

\* The page's event loop and the server's handlers.
LEMMA LiveSystem ==
  ASSUME PageInv(page), PageInv(page'), LiveInv, System, ~Poll
  PROVE  LiveInv'
<1>1. events' = events
  BY DEF System, HandleCall, DeleteFork, Load, ProcessTimeout, Deliver, HistoryTimeout, PopState, IdaOpens
<1> SUFFICES ASSUME events = 0
             PROVE  /\ Live(page', {}, page'.loaded >= 2)
                    /\ IsMap(traces') /\ Known(page') \subseteq DOMAIN traces'
                    /\ Stream(toClient', Known(page'), DOMAIN traces')
  BY <1>1 DEF LiveInv
<1>2. /\ Live(page, {}, page.loaded >= 2) /\ IsMap(traces) /\ Known(page) \subseteq DOMAIN traces
      /\ Stream(toClient, Known(page), DOMAIN traces)
  BY DEF LiveInv
<1>3. Frame(page) /\ page.loaded \in 0 .. 6
  BY InvFrame
<1>4. ASSUME Calm(page, page'), page'.loaded = page.loaded, UNCHANGED <<serverVars, toClient>>
      PROVE  /\ Live(page', {}, page'.loaded >= 2)
             /\ IsMap(traces') /\ Known(page') \subseteq DOMAIN traces'
             /\ Stream(toClient', Known(page'), DOMAIN traces')
  <2>1. Live(page', {}, page.loaded >= 2) /\ page'.s["max_clnum"] = page.s["max_clnum"]
    BY <1>2, <1>4, LiveCalm, CalmMax
  <2>2. Known(page') = Known(page)
    BY <2>1 DEF Known
  <2> QED
    BY <1>2, <1>4, <2>1, <2>2 DEF serverVars
<1>5. ASSUME page.out # <<>>
      PROVE  Head(page.out)[1] \in AutoCalls /\ AutoOut(Tail(page.out))
  <2>1. PICK o : o = page.out
    OBVIOUS
  <2>2. AutoOut(o) /\ o # <<>>
    BY <1>2, <1>5, <2>1 DEF Live
  <2>3. /\ IsSeq(Tail(o)) /\ Len(o) > 0 /\ Len(Tail(o)) = Len(o) - 1 /\ Head(o) = o[1]
        /\ \A i \in 1 .. Len(Tail(o)) : Tail(o)[i] = o[i + 1]
    BY <2>2, IsSeqTail DEF AutoOut
  <2>4. PICK n \in Nat : n = Len(Tail(o)) /\ Len(o) = n + 1
    BY <2>3, IsSeqLen
  <2>5. Head(o)[1] \in AutoCalls
    BY <2>2, <2>3, <2>4 DEF AutoOut
  <2>6. \A i \in 1 .. n : i + 1 \in 1 .. (n + 1)
    OBVIOUS
  <2>7. AutoOut(Tail(o))
    BY <2>2, <2>3, <2>4, <2>6 DEF AutoOut
  <2> QED
    BY <2>1, <2>5, <2>7
<1>6. CASE HandleCall
  <2>1. PICK ans \in Answers(Head(page.out)) : toClient' = toClient \o ans
    BY <1>6 DEF HandleCall
  <2>2. page.out # <<>> /\ page' = [page EXCEPT !.out = Tail(@)] /\ traces' = traces
    BY <1>6 DEF HandleCall, serverVars
  <2>3. Calm(page, page') /\ page'.loaded = page.loaded
    BY <1>3, <1>5, <2>2 DEF Calm, Frame, PageFields
  <2>4. Live(page', {}, page'.loaded >= 2) /\ page'.s["max_clnum"] = page.s["max_clnum"]
    BY <1>2, <2>3, LiveCalm, CalmMax
  <2>5. Known(page') = Known(page)
    BY <2>4 DEF Known
  <2>6. PICK call : call = Head(page.out)
    OBVIOUS
  <2>7. /\ IsSeq(ans)
        /\ \A i \in 1 .. Len(ans) : ans[i].kind \notin {"setiaddr", "setclnum", "maxclnum"}
    BY <1>5, <2>1, <2>2, <2>6, AutoAnswers
  <2>8. Stream(toClient \o ans, Known(page), DOMAIN traces)
    BY <1>2, <2>7, StreamAnswers
  <2> QED
    BY <1>2, <2>1, <2>2, <2>4, <2>5, <2>8
<1>7. CASE DeleteFork
  <2>1. page.out # <<>> /\ Head(page.out)[1] = "deletefork"
    BY <1>7 DEF DeleteFork
  <2> QED
    BY <1>5, <2>1 DEF AutoCalls
<1>8. CASE Load
  <2>1. page' = LoadScript(page) /\ traces' = traces /\ toClient' = toClient /\ page.loaded # 6
    BY <1>8, ScriptsAre DEF Load, AllLoaded, serverVars
  <2>2. PICK ld \in 0 .. 5 : ld = page.loaded
    BY <1>3, <2>1
  <2>3. page'.loaded = ld + 1
    BY <2>1, <2>2, InvLoad
  <2>4. Live(page', {}, ld + 1 >= 2) /\ page'.s["max_clnum"] = page.s["max_clnum"]
    BY <1>2, <1>3, <2>1, <2>2, LiveLoad
  <2>5. Known(page') = Known(page)
    BY <2>4 DEF Known
  <2> QED
    BY <1>2, <2>1, <2>3, <2>4, <2>5
<1>9. CASE ProcessTimeout
  <2>1. page' = RunAll(TakePend(page), page.pend) /\ traces' = traces /\ toClient' = toClient /\ page.pend # <<>>
    BY <1>9 DEF ProcessTimeout, serverVars
  <2>2. Live(page', {}, page.loaded >= 2) /\ page'.s["max_clnum"] = page.s["max_clnum"]
    BY <1>2, <1>3, <2>1, LiveProcess
  <2>3. page'.loaded = page.loaded
    <3>1. PICK ld : Good(page, {}, ld)
      BY <2>1 DEF PageInv, Blank
    <3> QED
      BY <2>1, <3>1, GoodProcess DEF Good
  <2>4. Known(page') = Known(page)
    BY <2>2 DEF Known
  <2> QED
    BY <1>2, <2>1, <2>2, <2>3, <2>4
<1>10. CASE Deliver
  <2>1. /\ toClient # <<>> /\ page' = OnMessage(page, Head(toClient)) /\ traces' = traces
        /\ toClient' = Tail(toClient)
    BY <1>10 DEF Deliver, serverVars
  <2>2. PICK msg : msg = Head(toClient)
    OBVIOUS
  <2>3. /\ msg.kind \notin {"setiaddr", "setclnum"}
        /\ msg.kind = "maxclnum" =>
             IsMap(msg.arg) /\ Known(page) \subseteq DOMAIN msg.arg /\ DOMAIN msg.arg \subseteq DOMAIN traces
    <3>1. IsSeq(toClient)
      BY <1>2 DEF Stream
    <3>2. Len(toClient) > 0 /\ msg = toClient[1] /\ Len(toClient) \in Nat
      BY <2>1, <2>2, <3>1, IsSeqTail, IsSeqLen
    <3>3. 1 \in 1 .. Len(toClient)
      BY <3>2
    <3> QED
      BY <1>2, <3>2, <3>3 DEF Stream, MaxAt
  <2>4. /\ Live(page', {}, page.loaded >= 2)
        /\ Known(page') = Known(page) \/ (msg.kind = "maxclnum" /\ Known(page') = DOMAIN msg.arg)
    BY <1>2, <2>1, <2>2, <2>3, LiveOnMessage
  <2>5. page'.loaded = page.loaded
    BY <2>1, InvOnMessage
  <2>6. Stream(toClient', Known(page'), DOMAIN traces)
    BY <1>2, <2>1, <2>2, <2>4, StreamTail
  <2> QED
    BY <1>2, <2>1, <2>3, <2>4, <2>5, <2>6
<1>11. CASE HistoryTimeout
  <2> DEFINE q == [page EXCEPT !.timers = @ - 1]
  <2>1. page' = PushHistory(q) /\ UNCHANGED <<serverVars, toClient>>
    BY <1>11 DEF HistoryTimeout, serverVars
  <2>2. Calm(page, q) /\ q.loaded = page.loaded
    BY <1>3, CalmDraw DEF Frame, PageFields
  <2> HIDE DEF q
  <2>3. Calm(page, page') /\ page'.loaded = q.loaded
    <3>1. Calm(page, PushHistory(q))
      BY <2>2, CalmPushHistory, CalmFrame, CalmTrans
    <3>2. DOMAIN q = PageFields
      BY <2>2 DEF Calm, Frame
    <3>3. PushHistory(q).loaded = q.loaded
      BY <3>2 DEF PushHistory, PageFields
    <3> QED
      BY <2>1, <3>1, <3>3
  <2> QED
    BY <1>4, <2>1, <2>2, <2>3
<1>12. CASE PopState
  BY <1>2, <1>12 DEF PopState, Live
<1>13. CASE IdaOpens
  <2>1. page' = OnOpen(page) /\ UNCHANGED <<serverVars, toClient>>
    BY <1>13 DEF IdaOpens, serverVars
  <2>2. Calm(page, page') /\ page'.loaded = page.loaded
    BY <1>3, <2>1, CalmSocket DEF Frame, PageFields, OnOpen
  <2> QED
    BY <1>4, <2>1, <2>2
<1> QED
  BY <1>6, <1>7, <1>8, <1>9, <1>10, <1>11, <1>12, <1>13 DEF System

-----------------------------------------------------------------------------
(* Theorems.                                                               *)

ClientInv == PageInv(page)

\* Between two steps of the event loop the page is as PageInv says, whatever
\* messages, timeouts, scripts and user events came in which order: the queue of
\* autoruns or the timeouts account for every difference between the session and
\* what IDA and the browser's history have been told.
THEOREM PageInductive == Spec => []ClientInv
<1>1. Init => ClientInv
  <2> SUFFICES ASSUME Init PROVE PageInv(page)
    BY DEF ClientInv
  <2>1. PICK name \in DOMAIN Scenarios : page = PageAfter(name, Scenarios[name].loaded)
    BY DEF Init
  <2>2. PICK n \in 0 .. 6 : n = Scenarios[name].loaded
    BY LoadedAssumption, ScriptsAre
  <2> QED
    BY <2>1, <2>2, InvPageAfter
<1>2. ClientInv /\ [Next]_vars => ClientInv'
  <2> SUFFICES ASSUME PageInv(page), [Next]_vars PROVE PageInv(page')
    BY DEF ClientInv
  <2>1. CASE System
    BY <2>1, InvSystem
  <2>2. CASE User
    BY <2>2, InvUser
  <2>3. CASE NewRun
    BY <2>3 DEF NewRun
  <2>4. CASE \E f \in DOMAIN traces : Grow(f) \/ Analysed(f)
    BY <2>4 DEF Grow, Analysed
  <2>5. CASE UNCHANGED vars
    BY <2>5 DEF vars
  <2> QED
    BY <2>1, <2>2, <2>3, <2>4, <2>5 DEF Next
<1> QED
  BY <1>1, <1>2, PTL DEF Spec

\* An IDA that is connected shows the page's iaddr once nothing is under way,
\* unless an address was set while the socket was connecting (do_ida_socket of
\* ida.js, whose exception is swallowed), however often IDA comes and goes.
THEOREM IdaFollowsAlways == Spec => []IdaFollows
<1>1. ClientInv => IdaFollows
  <2> SUFFICES ASSUME PageInv(page), Quiet, page.ws = "open", ~page.lost PROVE page.ida = page.s.iaddr
    BY DEF IdaFollows, ClientInv
  <2>1. Good(page, {}, page.loaded)
    BY DEF PageInv, Blank
  <2>2. ~Contains(page.pend, "ida")
    BY NothingWaits DEF Quiet
  <2>3. IdaTold(page)
    BY <2>1, <2>2 DEF Good
  <2> QED
    BY <2>3 DEF IdaTold
<1> QED
  BY <1>1, PageInductive, PTL

\* When the timeouts of the history autorun have run, which overlap, the current
\* entry of the history is the view that is shown, and no entry repeats the one
\* before it (push_history and onpopstate of base.js), for every length of the
\* browser's history.
THEOREM HistoryRecordedAlways == Spec => []HistoryRecorded
<1>1. ClientInv => HistoryRecorded
  <2> SUFFICES ASSUME PageInv(page) PROVE HistoryRecorded
    BY DEF ClientInv
  <2>1. CASE page.loaded = 0 /\ Blank(page)
    BY <2>1 DEF Blank, HistoryRecorded
  <2>2. CASE Good(page, {}, page.loaded)
    <3>1. NoRepeats(page.hist)
      BY <2>2 DEF Good
    <3>2. ASSUME Quiet, page.timers = 0, page.hpos > 0, page.hist[page.hpos] # None
          PROVE  \A k \in {"cview", "dview", "clnum", "daddr"} : page.hist[page.hpos][k] = page.s[k]
      <4>1. ~Contains(page.pend, "history")
        BY <3>2, NothingWaits DEF Quiet
      <4>2. HistoryTold(page)
        BY <2>2, <4>1 DEF Good
      <4> QED
        BY <3>2, <4>2 DEF HistoryTold, ViewVars
    <3> QED
      BY <3>1, <3>2 DEF HistoryRecorded, NoRepeats
  <2> QED
    BY <2>1, <2>2 DEF PageInv
<1> QED
  BY <1>1, PageInductive, PTL

\* The page and the messages to it when nobody has touched it.
THEOREM LiveInductive == Spec => []LiveInv
<1>1. Init /\ ClientInv => LiveInv
  BY LiveInit DEF ClientInv
<1>2. LiveInv /\ ClientInv /\ ClientInv' /\ [Next]_vars => LiveInv'
  <2> SUFFICES ASSUME LiveInv, PageInv(page), PageInv(page'), [Next]_vars PROVE LiveInv'
    BY DEF ClientInv
  <2>1. CASE NewRun \/ Poll \/ \E f \in DOMAIN traces : Grow(f) \/ Analysed(f)
    BY <2>1, LiveServer
  <2>2. CASE System /\ ~Poll
    BY <2>2, LiveSystem
  <2>3. CASE User
    <3>1. events' = events + 1
      BY <2>3 DEF User, KeyDown, ControlChanged, ForkEntered, Clicked, IdumpWheel, HexdumpWheel, VtimelineWheel,
                  VtimelineMouse, Resized, IdaMessage, IdaCloses, Do
    <3> QED
      BY <3>1 DEF LiveInv
  <2>4. CASE UNCHANGED vars
    BY <2>4 DEF vars, serverVars, LiveInv
  <2> QED
    BY <2>1, <2>2, <2>3, <2>4 DEF Next
<1> QED
  BY <1>1, <1>2, PageInductive, PTL DEF Spec

\* While the user does nothing, a page at rest that knows what the server knows
\* is at the end of the trace it shows, from whichever script on it was
\* listening and however the traces grow and the runs are added
\* (update_maxclnum of base.js, "select first fork" of controls.js).
THEOREM FollowsLiveAlways == Spec => []FollowsLive
<1>1. LiveInv => FollowsLive
  <2> SUFFICES ASSUME LiveInv, Quiet, Informed, events = 0, DOMAIN traces # {}
               PROVE  page.s.clnum = traces[page.s.forknum][2]
    BY DEF FollowsLive
  <2>1. Live(page, {}, page.loaded >= 2) /\ IsMap(traces) /\ page.s["max_clnum"] = traces
    BY DEF LiveInv, Informed
  <2>2. traces # None
    BY <2>1, UndefinedAssumption DEF IsMap
  <2>3. ~Contains(page.pend, "firstfork")
    BY NothingWaits DEF Quiet
  <2>4. page.s["forknum"] \in DOMAIN traces /\ AtEnd(page.s)
    BY <2>1, <2>2, <2>3 DEF Live
  <2> QED
    BY <2>1, <2>4 DEF AtEnd
<1> QED
  BY <1>1, LiveInductive, PTL
=============================================================================
