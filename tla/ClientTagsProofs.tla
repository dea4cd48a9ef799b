--------------------------- MODULE ClientTagsProofs ---------------------------
(***************************************************************************)
(* Proof that names and static views settle on what the server has, for    *)
(* every trace length, every set of texts, whatever analysis finds, and    *)
(* any number of user events.                                              *)
(***************************************************************************)
EXTENDS ClientTags, SessionProofs

-----------------------------------------------------------------------------
(* Types *)

Fxns == {"instructions", "static"}

Deps == [clnum |-> <<"instructions">>, iaddr |-> <<>>, iview |-> <<"static">>, flat |-> <<"static">>]

States == [clnum : Clnums, iaddr : Addrs \cup {None}, iview : Addrs \cup {None}, flat : BOOLEAN]

AddrMaps(R) == UNION {[D -> R] : D \in SUBSET Addrs}

Views == [at : Addrs, flat : BOOLEAN, made : Nat]

GetnamesCalls == {"getnames"} \X SUBSET Addrs
GetinstructionsCalls == {"getinstructions"} \X Clnums
GetstaticviewCalls == {"getstaticview"} \X Addrs \X BOOLEAN
SettagsCalls == {"settags"} \X Addrs \X {"name", "comment"} \X Texts
MakeCalls == {"make"} \X Kinds \X Addrs
Calls == GetnamesCalls \cup GetinstructionsCalls \cup GetstaticviewCalls \cup SettagsCalls \cup MakeCalls

NamesMsgs == [kind : {"names"}, arg : AddrMaps(Names)]
InstructionsMsgs == [kind : {"instructions"}, arg : AddrMaps(Texts \cup {None})]
StaticMsgs == [kind : {"static"}, arg : Views]
Msgs == NamesMsgs \cup InstructionsMsgs \cup StaticMsgs

Rows == [text : Names \cup {None}, comment : Texts \cup {None}]

NameMaps == [Addrs -> Names \cup {None}]
TagMaps == [Addrs -> [name : Names \cup {None}, comment : Texts \cup {None}]]

Pages == [s : States, deps : {Deps}, pend : Seq(Fxns), panels : BOOLEAN, out : Seq(Calls),
          cache : NameMaps, rows : AddrMaps(Rows), static : Views \cup {None}]

ServerType ==
  /\ withStatic \in BOOLEAN /\ functions \in SUBSET Addrs /\ made \in Nat
  /\ tags \in TagMaps
  /\ behind \in [names : SUBSET Addrs, views : SUBSET Addrs]

TagsType == page \in Pages /\ toClient \in Seq(Msgs) /\ ServerType

\* The names the page is told of, now or when it asks, and what a view depends on.
Told == [a \in Addrs |-> IF a \in behind.names THEN None ELSE tags[a].name]
Server == [on |-> withStatic, functions |-> functions, made |-> made, behind |-> behind.views]

Servers == [on : BOOLEAN, functions : SUBSET Addrs, made : Nat, behind : SUBSET Addrs]

-----------------------------------------------------------------------------
(* The inductive invariant *)

AsksName(a) == {c \in GetnamesCalls : a \in c[2]}
RenamesIt(a) == {c \in SettagsCalls : c[2] = a /\ c[3] = "name"}
TellsOf(a) == {m \in NamesMsgs : a \in DOMAIN m.arg}
TellsName(a, n) == {m \in TellsOf(a) : m.arg[a] = n}

\* The text shown for a is its name n, or is on its way to be.
NameComing(a, out, msgs, n, text) ==
  Coming(out, AsksName(a), RenamesIt(a), msgs, TellsName(a, n), TellsOf(a), text = n)

NamesComing(rows, out, msgs, nm) ==
  \A a \in DOMAIN rows : NameComing(a, out, msgs, nm[a], rows[a].text)

\* What has no name has none anywhere.
Nameless(a, cache, rows, msgs) ==
  /\ cache[a] = None
  /\ NoneIn(msgs, TellsOf(a))
  /\ a \in DOMAIN rows => rows[a].text = None

NamelessAll(cache, rows, msgs, nm) ==
  \A a \in Addrs : nm[a] = None => Nameless(a, cache, rows, msgs)

ChangesView == GetstaticviewCalls \cup MakeCalls

\* What the server sv answers when the view (v, f) is asked for.
ViewOf(v, f, sv) == [at |-> v, flat |-> f \/ v \notin sv.functions, made |-> sv.made]
ViewMsg(v, f, sv) == [kind |-> "static", arg |-> ViewOf(v, f, sv)]

\* The view (v, f) of the server sv is given, or is on its way, or analysis
\* changed it since it was asked for.
ViewComing(v, f, sv, out, msgs, static) ==
  \/ LastIn(out, {<<"getstaticview", v, f>>}, ChangesView)
  \/ /\ NoneIn(out, ChangesView)
     /\ \/ v \in sv.behind
        \/ LastIn(msgs, {ViewMsg(v, f, sv)}, StaticMsgs)
        \/ NoneIn(msgs, StaticMsgs) /\ static = ViewOf(v, f, sv)

Wanted(s, out, msgs, sv, static) ==
  sv.on /\ s.iview # None => ViewComing(s.iview, s.flat, sv, out, msgs, static)

\* The static view is on its way, or the autorun that asks for it waits.
PageInv(p, msgs, nm, sv) ==
  /\ NamesComing(p.rows, p.out, msgs, nm)
  /\ NamelessAll(p.cache, p.rows, msgs, nm)
  /\ Contains(p.pend, "static") \/ Wanted(p.s, p.out, msgs, sv, p.static)

TagsInv == TagsType /\ PageInv(page, toClient, Told, Server)

-----------------------------------------------------------------------------
(* Lemmas about calls and messages *)

LEMMA CallKinds ==
  /\ \A c \in GetnamesCalls : c \in Calls /\ c[1] = "getnames" /\ c[2] \in SUBSET Addrs
  /\ \A c \in GetinstructionsCalls : c \in Calls /\ c[1] = "getinstructions" /\ c[2] \in Clnums
  /\ \A c \in GetstaticviewCalls :
       /\ c \in Calls /\ c[1] = "getstaticview" /\ c[2] \in Addrs /\ c[3] \in BOOLEAN
       /\ c = <<"getstaticview", c[2], c[3]>>
  /\ \A c \in SettagsCalls :
       c \in Calls /\ c[1] = "settags" /\ c[2] \in Addrs /\ c[3] \in {"name", "comment"} /\ c[4] \in Texts
  /\ \A c \in MakeCalls : c \in Calls /\ c[1] = "make" /\ c[2] \in Kinds /\ c[3] \in Addrs
<1>1. \A c \in GetnamesCalls : c \in Calls /\ c[1] = "getnames" /\ c[2] \in SUBSET Addrs
  BY DEF GetnamesCalls, Calls
<1>2. \A c \in GetinstructionsCalls : c \in Calls /\ c[1] = "getinstructions" /\ c[2] \in Clnums
  BY DEF GetinstructionsCalls, Calls
<1>3. \A c \in GetstaticviewCalls :
       /\ c \in Calls /\ c[1] = "getstaticview" /\ c[2] \in Addrs /\ c[3] \in BOOLEAN
       /\ c = <<"getstaticview", c[2], c[3]>>
  BY DEF GetstaticviewCalls, Calls
<1>4. \A c \in SettagsCalls :
       c \in Calls /\ c[1] = "settags" /\ c[2] \in Addrs /\ c[3] \in {"name", "comment"} /\ c[4] \in Texts
  BY DEF SettagsCalls, Calls
<1>5. \A c \in MakeCalls : c \in Calls /\ c[1] = "make" /\ c[2] \in Kinds /\ c[3] \in Addrs
  BY DEF MakeCalls, Calls
<1> QED
  BY <1>1, <1>2, <1>3, <1>4, <1>5

\* What every kind of call asks for and spoils.
LEMMA CallClasses ==
  /\ \A c \in GetnamesCalls, a \in Addrs :
       c \notin RenamesIt(a) /\ c \notin ChangesView /\ (a \in c[2] => c \in AsksName(a))
  /\ \A c \in GetinstructionsCalls, a \in Addrs :
       c \notin RenamesIt(a) /\ c \notin ChangesView /\ c \notin AsksName(a)
  /\ \A c \in GetstaticviewCalls, a \in Addrs :
       c \notin RenamesIt(a) /\ c \in ChangesView /\ c \notin AsksName(a)
  /\ \A c \in SettagsCalls, a \in Addrs :
       /\ c \notin ChangesView /\ c \notin AsksName(a)
       /\ c \in RenamesIt(a) <=> c[2] = a /\ c[3] = "name"
  /\ \A c \in MakeCalls, a \in Addrs :
       c \notin RenamesIt(a) /\ c \in ChangesView /\ c \notin AsksName(a)
  BY CallKinds DEF ChangesView, AsksName, RenamesIt

\* What every kind of message tells.
LEMMA MessageClasses ==
  /\ \A m \in NamesMsgs : m \in Msgs /\ m.kind = "names" /\ m \notin StaticMsgs
  /\ \A m \in InstructionsMsgs, a \in Addrs :
       m \in Msgs /\ m.kind = "instructions" /\ m \notin StaticMsgs /\ m \notin TellsOf(a)
  /\ \A m \in StaticMsgs, a \in Addrs : m \in Msgs /\ m.kind = "static" /\ m \notin TellsOf(a)
<1>1. \A m \in NamesMsgs : m \in Msgs /\ m.kind = "names"
  BY DEF NamesMsgs, Msgs
<1>2. \A m \in InstructionsMsgs : m \in Msgs /\ m.kind = "instructions"
  BY DEF InstructionsMsgs, Msgs
<1>3. \A m \in StaticMsgs : m \in Msgs /\ m.kind = "static"
  BY DEF StaticMsgs, Msgs
<1>4. \A a \in Addrs : TellsOf(a) \subseteq NamesMsgs
  BY DEF TellsOf
<1> QED
  BY <1>1, <1>2, <1>3, <1>4

LEMMA AddrMapsMember ==
  ASSUME NEW R, NEW f \in AddrMaps(R)
  PROVE  DOMAIN f \in SUBSET Addrs /\ f \in [DOMAIN f -> R] /\ \A a \in DOMAIN f : f[a] \in R
  BY DEF AddrMaps

LEMMA AddrMapsMade ==
  ASSUME NEW R, NEW D \in SUBSET Addrs, NEW f \in [D -> R]
  PROVE  f \in AddrMaps(R) /\ DOMAIN f = D
  BY DEF AddrMaps

\* None is no text, and a clnum and its successor are addresses.
LEMMA TagsConstants ==
  /\ LastClnum \in Nat /\ 1 \in Clnums /\ None \notin Texts /\ None \notin Names
  /\ \A n \in Clnums : n \in Addrs /\ n + 1 \in Addrs
  BY TagsAssumption DEF Clnums, Addrs

-----------------------------------------------------------------------------
(* Lemmas about the page *)

LEMMA EmitPage ==
  ASSUME NEW p \in Pages, NEW c \in Calls
  PROVE  /\ Emit(p, c) \in Pages
         /\ Emit(p, c).out = Append(p.out, c)
         /\ Emit(p, c).s = p.s /\ Emit(p, c).pend = p.pend /\ Emit(p, c).cache = p.cache
         /\ Emit(p, c).rows = p.rows /\ Emit(p, c).static = p.static /\ Emit(p, c).panels = p.panels
<1>1. Append(p.out, c) \in Seq(Calls)
  BY DEF Pages
<1> QED
  BY <1>1 DEF Pages, Emit

\* Session.set of a variable of the page.
SetKeeps(p, q) ==
  /\ q \in Pages
  /\ q.out = p.out /\ q.cache = p.cache /\ q.rows = p.rows /\ q.static = p.static /\ q.panels = p.panels
  /\ \A x \in Fxns : Contains(p.pend, x) => Contains(q.pend, x)

Put(p, st, d) == [p EXCEPT !.s = st, !.pend = d]

LEMMA PutPage ==
  ASSUME NEW p \in Pages, NEW st \in States, NEW d \in Seq(Fxns), NEW q, q = Put(p, st, d)
  PROVE  /\ q \in Pages /\ q.s = st /\ q.pend = d
         /\ q.out = p.out /\ q.cache = p.cache /\ q.rows = p.rows /\ q.static = p.static /\ q.panels = p.panels
  BY DEF Pages, Put

LEMMA SetPage ==
  ASSUME NEW p \in Pages
  PROVE  /\ \A v \in Clnums : SetKeeps(p, Set(p, "clnum", v)) /\ Set(p, "clnum", v).s = [p.s EXCEPT !.clnum = v]
         /\ \A v \in Addrs : SetKeeps(p, Set(p, "iaddr", v)) /\ Set(p, "iaddr", v).s = [p.s EXCEPT !.iaddr = v]
         /\ \A v \in Addrs : SetKeeps(p, Set(p, "iview", v)) /\ Contains(Set(p, "iview", v).pend, "static")
         /\ \A v \in BOOLEAN : SetKeeps(p, Set(p, "flat", v)) /\ Contains(Set(p, "flat", v).pend, "static")
<1> DEFINE Names4 == {"clnum", "iaddr", "iview", "flat"}
<1>1. /\ p.pend \in Seq(Fxns) /\ p.deps = Deps /\ p.s \in States
  BY DEF Pages
<1>2. /\ \A n \in Names4 : Deps[n] \in Seq(Fxns)
      /\ Contains(Deps["iview"], "static") /\ Contains(Deps["flat"], "static")
  <2>1. Contains(<<"static">>, "static")
    BY DEF Contains
  <2>2. <<"instructions">> \in Seq(Fxns) /\ <<"static">> \in Seq(Fxns) /\ <<>> \in Seq(Fxns)
    BY DEF Fxns
  <2> QED
    BY <2>1, <2>2 DEF Deps
<1>3. ASSUME NEW n \in Names4, NEW v, [p.s EXCEPT ![n] = v] \in States
      PROVE  /\ SetKeeps(p, Set(p, n, v)) /\ Set(p, n, v).s = [p.s EXCEPT ![n] = v]
             /\ Contains(Deps[n], "static") => Contains(Set(p, n, v).pend, "static")
  <2>1. PICK b \in Seq(Fxns), f \in Seq(Fxns) : b = p.pend /\ f = Deps[n]
    BY <1>1, <1>2
  <2>2. PICK st \in States : st = [p.s EXCEPT ![n] = v]
    BY <1>3
  <2>3. PICK d : d = EnqueueAll(b, f)
    OBVIOUS
  <2>4. d \in Seq(Fxns) /\ \A y : Contains(d, y) <=> Contains(b, y) \/ Contains(f, y)
    BY <2>3, EnqueueAllContains
  <2>5. PICK q : q = Set(p, n, v)
    OBVIOUS
  <2>6. p \in [{"s", "deps", "pend", "panels", "out", "cache", "rows", "static"} ->
               UNION {States, {Deps}, Seq(Fxns), BOOLEAN, Seq(Calls), NameMaps,
                      AddrMaps(Rows), Views \cup {None}}]
    BY DEF Pages
  <2>7. q = [p EXCEPT !.s = [p.s EXCEPT ![n] = v], !.pend = EnqueueAll(p.pend, p.deps[n])]
    BY <2>5, <2>6 DEF Set
  <2>8. q = Put(p, st, d)
    BY <1>1, <2>1, <2>2, <2>3, <2>7 DEF Put
  <2>9. /\ q \in Pages /\ q.s = st /\ q.pend = d
        /\ q.out = p.out /\ q.cache = p.cache /\ q.rows = p.rows /\ q.static = p.static /\ q.panels = p.panels
    BY <2>4, <2>8, PutPage
  <2> QED
    BY <2>1, <2>2, <2>4, <2>5, <2>9 DEF SetKeeps
<1>6. ASSUME NEW v \in Clnums PROVE [p.s EXCEPT !["clnum"] = v] \in States
  BY <1>1 DEF States
<1>7. ASSUME NEW v \in Addrs
      PROVE  [p.s EXCEPT !["iaddr"] = v] \in States /\ [p.s EXCEPT !["iview"] = v] \in States
  BY <1>1 DEF States
<1>8. ASSUME NEW v \in BOOLEAN PROVE [p.s EXCEPT !["flat"] = v] \in States
  BY <1>1 DEF States
<1> QED
  BY <1>2, <1>3, <1>6, <1>7, <1>8

LEMMA RowsOf ==
  ASSUME NEW p \in Pages
  PROVE  /\ p.rows \in AddrMaps(Rows) /\ DOMAIN p.rows \in SUBSET Addrs
         /\ \A a \in DOMAIN p.rows : p.rows[a] \in Rows
         /\ p.cache \in NameMaps
<1>1. p.rows \in AddrMaps(Rows) /\ p.cache \in NameMaps
  BY DEF Pages
<1> QED
  BY <1>1, AddrMapsMember

\* The page with other rows.
PutRows(p, rows) == [p EXCEPT !.rows = rows]

LEMMA PutRowsPage ==
  ASSUME NEW p \in Pages, NEW rows \in AddrMaps(Rows), NEW q, q = PutRows(p, rows)
  PROVE  /\ q \in Pages /\ q.s = p.s /\ q.pend = p.pend /\ q.out = p.out /\ q.cache = p.cache
         /\ q.static = p.static /\ q.panels = p.panels /\ q.rows = rows
  BY DEF Pages, PutRows

\* replace_names puts what the cache has in the rows, and asks.
LEMMA ReplacePage ==
  ASSUME NEW p \in Pages, NEW q, q = ReplaceNames(p)
  PROVE  /\ q \in Pages /\ q.s = p.s /\ q.pend = p.pend /\ q.cache = p.cache
         /\ q.static = p.static /\ q.panels = p.panels
         /\ <<"getnames", DOMAIN p.rows>> \in GetnamesCalls
         /\ q.out = Append(p.out, <<"getnames", DOMAIN p.rows>>)
         /\ DOMAIN q.rows = DOMAIN p.rows
         /\ \A a \in DOMAIN p.rows :
              q.rows[a].text = IF p.cache[a] = None THEN p.rows[a].text ELSE p.cache[a]
<1> DEFINE row(a) == IF p.cache[a] = None THEN p.rows[a] ELSE [p.rows[a] EXCEPT !.text = p.cache[a]]
           named == [a \in DOMAIN p.rows |-> row(a)]
<1>1. DOMAIN p.rows \in SUBSET Addrs /\ \A a \in DOMAIN p.rows : p.rows[a] \in Rows
  BY RowsOf
<1>2. ASSUME NEW a \in DOMAIN p.rows
      PROVE  /\ row(a) \in Rows
             /\ row(a).text = IF p.cache[a] = None THEN p.rows[a].text ELSE p.cache[a]
  <2>1. p.rows[a] \in Rows /\ p.cache[a] \in Names \cup {None}
    BY <1>1, RowsOf DEF NameMaps
  <2> QED
    BY <2>1 DEF Rows
<1> HIDE DEF row
<1>3. named \in AddrMaps(Rows) /\ DOMAIN named = DOMAIN p.rows
  <2>1. named \in [DOMAIN p.rows -> Rows]
    BY <1>2
  <2> HIDE DEF named
  <2> QED
    BY <1>1, <2>1, AddrMapsMade
<1>4. \A a \in DOMAIN p.rows : named[a] = row(a)
  OBVIOUS
<1>5. PICK c : c = <<"getnames", DOMAIN p.rows>>
  OBVIOUS
<1>6. c \in GetnamesCalls /\ c \in Calls
  BY <1>1, <1>5, CallKinds DEF GetnamesCalls
<1>7. q = Emit(PutRows(p, named), c)
  BY <1>5 DEF ReplaceNames, PutRows, row
<1> HIDE DEF named
<1>8. PICK r : r = PutRows(p, named)
  OBVIOUS
<1>9. /\ r \in Pages /\ r.s = p.s /\ r.pend = p.pend /\ r.out = p.out /\ r.cache = p.cache
      /\ r.static = p.static /\ r.panels = p.panels /\ r.rows = named
  BY <1>3, <1>8, PutRowsPage
<1>10. /\ q \in Pages /\ q.out = Append(r.out, c) /\ q.s = r.s /\ q.pend = r.pend
       /\ q.cache = r.cache /\ q.rows = r.rows /\ q.static = r.static /\ q.panels = r.panels
  BY <1>6, <1>7, <1>8, <1>9, EmitPage
<1> QED
  BY <1>2, <1>3, <1>4, <1>5, <1>6, <1>9, <1>10

\* Asking for the name of an address, and calls that do not rename it.
LEMMA NameSend ==
  ASSUME NEW a, NEW out \in Seq(Calls), NEW c \in Calls, NEW msgs, NEW n, NEW text
  PROVE  /\ c \in AsksName(a) => NameComing(a, Append(out, c), msgs, n, text)
         /\ c \notin RenamesIt(a) /\ NameComing(a, out, msgs, n, text) =>
              NameComing(a, Append(out, c), msgs, n, text)
  BY InAppend DEF Coming, NameComing

\* Asking for the view, and calls that do not change it.
LEMMA ViewSend ==
  ASSUME NEW v, NEW f, NEW sv, NEW out \in Seq(Calls), NEW c \in Calls, NEW msgs, NEW static
  PROVE  /\ c = <<"getstaticview", v, f>> => ViewComing(v, f, sv, Append(out, c), msgs, static)
         /\ c \notin ChangesView /\ ViewComing(v, f, sv, out, msgs, static) =>
              ViewComing(v, f, sv, Append(out, c), msgs, static)
<1> DEFINE A == {<<"getstaticview", v, f>>}
<1>1. /\ c \in A => LastIn(Append(out, c), A, ChangesView)
      /\ c \notin ChangesView /\ LastIn(out, A, ChangesView) => LastIn(Append(out, c), A, ChangesView)
      /\ c \notin ChangesView /\ NoneIn(out, ChangesView) => NoneIn(Append(out, c), ChangesView)
  BY InAppend
<1> QED
  BY <1>1 DEF ViewComing

\* A call that neither renames nor changes the view.
LEMMA EmitKeeps ==
  ASSUME NEW p \in Pages, NEW c \in Calls, NEW msgs, NEW nm, NEW sv, PageInv(p, msgs, nm, sv),
         \A a \in Addrs : c \notin RenamesIt(a), c \notin ChangesView
  PROVE  PageInv(Emit(p, c), msgs, nm, sv)
<1>1. PICK q : q = Emit(p, c)
  OBVIOUS
<1>2. /\ q.out = Append(p.out, c) /\ q.s = p.s /\ q.pend = p.pend
      /\ q.cache = p.cache /\ q.rows = p.rows /\ q.static = p.static
  BY <1>1, EmitPage
<1>3. p.out \in Seq(Calls) /\ DOMAIN p.rows \in SUBSET Addrs
  BY RowsOf DEF Pages
<1>4. NamesComing(q.rows, q.out, msgs, nm)
  <2>1. ASSUME NEW a \in DOMAIN p.rows
        PROVE  NameComing(a, q.out, msgs, nm[a], q.rows[a].text)
    <3>1. NameComing(a, p.out, msgs, nm[a], p.rows[a].text)
      BY DEF PageInv, NamesComing
    <3>2. c \notin RenamesIt(a)
      BY <1>3
    <3> QED
      BY <1>2, <1>3, <3>1, <3>2, NameSend
  <2> QED
    BY <1>2, <2>1 DEF NamesComing
<1>5. NamelessAll(q.cache, q.rows, msgs, nm)
  BY <1>2 DEF PageInv
<1>6. Wanted(p.s, p.out, msgs, sv, p.static) => Wanted(q.s, q.out, msgs, sv, q.static)
  BY <1>2, <1>3, ViewSend DEF Wanted
<1> QED
  BY <1>1, <1>2, <1>4, <1>5, <1>6 DEF PageInv

\* Whatever the rows show, their names are asked for.
LEMMA ReplaceKeeps ==
  ASSUME NEW p \in Pages, NEW msgs, NEW nm, NEW sv,
         NamelessAll(p.cache, p.rows, msgs, nm),
         Contains(p.pend, "static") \/ Wanted(p.s, p.out, msgs, sv, p.static)
  PROVE  PageInv(ReplaceNames(p), msgs, nm, sv)
<1>1. PICK q, c : q = ReplaceNames(p) /\ c = <<"getnames", DOMAIN p.rows>>
  OBVIOUS
<1>2. /\ q.s = p.s /\ q.pend = p.pend /\ q.cache = p.cache /\ q.static = p.static
      /\ c \in GetnamesCalls /\ q.out = Append(p.out, c) /\ DOMAIN q.rows = DOMAIN p.rows
      /\ \A a \in DOMAIN p.rows :
           q.rows[a].text = IF p.cache[a] = None THEN p.rows[a].text ELSE p.cache[a]
  BY <1>1, ReplacePage
<1>3. p.out \in Seq(Calls) /\ DOMAIN p.rows \in SUBSET Addrs /\ c \in Calls /\ c[2] = DOMAIN p.rows
  BY <1>1, <1>2, RowsOf, CallKinds DEF Pages
<1>4. NamesComing(q.rows, q.out, msgs, nm)
  <2>1. ASSUME NEW a \in DOMAIN p.rows
        PROVE  NameComing(a, q.out, msgs, nm[a], q.rows[a].text)
    <3>1. c \in AsksName(a)
      BY <1>2, <1>3, CallClasses
    <3>2. PICK n, text : n = nm[a] /\ text = q.rows[a].text
      OBVIOUS
    <3>3. NameComing(a, Append(p.out, c), msgs, n, text)
      BY <1>3, <3>1, NameSend
    <3> QED
      BY <1>2, <3>2, <3>3
  <2> QED
    BY <1>2, <2>1 DEF NamesComing
<1>5. NamelessAll(q.cache, q.rows, msgs, nm)
  BY <1>2 DEF NamelessAll, Nameless
<1>6. Wanted(p.s, p.out, msgs, sv, p.static) => Wanted(q.s, q.out, msgs, sv, q.static)
  <2>1. c \notin ChangesView
    <3>1. 1 \in Addrs
      BY TagsConstants
    <3> QED
      BY <1>2, <3>1, CallClasses
  <2> QED
    BY <1>2, <1>3, <2>1, ViewSend DEF Wanted
<1> QED
  BY <1>1, <1>2, <1>4, <1>5, <1>6 DEF PageInv

\* Session.set keeps what comes when it leaves the view alone or asks for it.
LEMMA SetKeepsInv ==
  ASSUME NEW p \in Pages, NEW q, SetKeeps(p, q), NEW msgs, NEW nm, NEW sv, PageInv(p, msgs, nm, sv),
         Contains(q.pend, "static") \/ (q.s.iview = p.s.iview /\ q.s.flat = p.s.flat)
  PROVE  PageInv(q, msgs, nm, sv)
<1>1. /\ q.out = p.out /\ q.cache = p.cache /\ q.rows = p.rows /\ q.static = p.static
      /\ Contains(p.pend, "static") => Contains(q.pend, "static")
  BY DEF SetKeeps, Fxns
<1> QED
  BY <1>1 DEF PageInv, Wanted

-----------------------------------------------------------------------------
(* The handlers of the stream *)

LEMMA NameReceive ==
  ASSUME NEW a, NEW out, NEW msgs \in Seq(Msgs), msgs # <<>>, NEW n, NEW text, NEW text2,
         NameComing(a, out, msgs, n, text),
         Head(msgs) \in TellsName(a, n) => text2 = n,
         Head(msgs) \notin TellsOf(a) => text2 = text
  PROVE  NameComing(a, out, Tail(msgs), n, text2)
<1>1. /\ LastIn(msgs, TellsName(a, n), TellsOf(a)) =>
           LastIn(Tail(msgs), TellsName(a, n), TellsOf(a))
             \/ (Head(msgs) \in TellsName(a, n) /\ NoneIn(Tail(msgs), TellsOf(a)))
      /\ NoneIn(msgs, TellsOf(a)) => Head(msgs) \notin TellsOf(a) /\ NoneIn(Tail(msgs), TellsOf(a))
  BY InTail
<1> QED
  BY <1>1 DEF Coming, NameComing

LEMMA ViewReceive ==
  ASSUME NEW v \in Addrs, NEW f \in BOOLEAN, NEW sv \in Servers, NEW out,
         NEW msgs \in Seq(Msgs), msgs # <<>>, NEW static, NEW static2,
         ViewComing(v, f, sv, out, msgs, static),
         Head(msgs) \in StaticMsgs => static2 = Head(msgs).arg,
         Head(msgs) \notin StaticMsgs => static2 = static
  PROVE  ViewComing(v, f, sv, out, Tail(msgs), static2)
<1> DEFINE w == ViewOf(v, f, sv)
           T == {ViewMsg(v, f, sv)}
<1>1. /\ LastIn(msgs, T, StaticMsgs) =>
           LastIn(Tail(msgs), T, StaticMsgs) \/ (Head(msgs) \in T /\ NoneIn(Tail(msgs), StaticMsgs))
      /\ NoneIn(msgs, StaticMsgs) => Head(msgs) \notin StaticMsgs /\ NoneIn(Tail(msgs), StaticMsgs)
  BY InTail
<1>2. Head(msgs) \in T => static2 = w
  <2>1. ViewMsg(v, f, sv) \in StaticMsgs
    BY DEF StaticMsgs, Views, ViewMsg, ViewOf, Servers
  <2> QED
    BY <2>1 DEF ViewMsg
<1> QED
  BY <1>1, <1>2 DEF ViewComing

\* on_names: what arrives is cached and shown.
LEMMA OnNamesKeeps ==
  ASSUME NEW p \in Pages, NEW msgs \in Seq(Msgs), msgs # <<>>, NEW nm \in NameMaps, NEW sv \in Servers,
         PageInv(p, msgs, nm, sv), Head(msgs) \in NamesMsgs
  PROVE  /\ OnNames(p, Head(msgs).arg) \in Pages
         /\ PageInv(OnNames(p, Head(msgs).arg), Tail(msgs), nm, sv)
<1>1. PICK h, names : h = Head(msgs) /\ names = h.arg /\ h \in NamesMsgs
  OBVIOUS
<1>2. names \in AddrMaps(Names) /\ DOMAIN names \in SUBSET Addrs /\ \A a \in DOMAIN names : names[a] \in Names
  <2>1. names \in AddrMaps(Names)
    BY <1>1 DEF NamesMsgs
  <2> QED
    BY <2>1, AddrMapsMember
<1>3. PICK q : q = OnNames(p, names)
  OBVIOUS
<1> DEFINE row(a) == IF a \in DOMAIN names THEN [p.rows[a] EXCEPT !.text = names[a]] ELSE p.rows[a]
           rows == [a \in DOMAIN p.rows |-> row(a)]
<1>4. DOMAIN p.rows \in SUBSET Addrs /\ \A a \in DOMAIN p.rows : p.rows[a] \in Rows
  BY RowsOf
<1>5. ASSUME NEW a \in DOMAIN p.rows
      PROVE  row(a) \in Rows /\ row(a).text = IF a \in DOMAIN names THEN names[a] ELSE p.rows[a].text
  BY <1>2, <1>4 DEF Rows
<1>6. \A a \in DOMAIN p.rows : rows[a] = row(a)
  OBVIOUS
<1>7. q = [p EXCEPT !.cache = Cached(p.cache, names), !.rows = rows]
  <2>1. "cache" \in DOMAIN p /\ "rows" \in DOMAIN p
    BY DEF Pages
  <2> QED
    BY <1>3, <2>1 DEF OnNames
<1> HIDE DEF row
<1>8. rows \in AddrMaps(Rows) /\ DOMAIN rows = DOMAIN p.rows
  <2>1. rows \in [DOMAIN p.rows -> Rows]
    BY <1>5
  <2> HIDE DEF rows
  <2> QED
    BY <1>4, <2>1, AddrMapsMade
<1> HIDE DEF rows
<1>9. PICK cache : cache = Cached(p.cache, names)
  OBVIOUS
<1>10. /\ cache \in NameMaps
       /\ \A a \in Addrs : cache[a] = IF a \in DOMAIN names THEN names[a] ELSE p.cache[a]
  BY <1>2, <1>9, RowsOf DEF Cached, NameMaps
<1>11. /\ q \in Pages /\ q.s = p.s /\ q.pend = p.pend /\ q.out = p.out /\ q.cache = cache
       /\ q.static = p.static /\ q.rows = rows
  BY <1>7, <1>8, <1>9, <1>10 DEF Pages
<1>12. NamesComing(q.rows, q.out, Tail(msgs), nm)
  <2>1. ASSUME NEW a \in DOMAIN p.rows
        PROVE  NameComing(a, p.out, Tail(msgs), nm[a], rows[a].text)
    <3>1. PICK n, text, text2 : n = nm[a] /\ text = p.rows[a].text /\ text2 = rows[a].text
      OBVIOUS
    <3>2. NameComing(a, p.out, msgs, n, text)
      BY <3>1 DEF PageInv, NamesComing
    <3>3. text2 = IF a \in DOMAIN names THEN names[a] ELSE text
      BY <1>5, <1>6, <3>1
    <3>4. h \in TellsName(a, n) => text2 = n
      BY <1>1, <3>3 DEF TellsName, TellsOf
    <3>5. h \notin TellsOf(a) => text2 = text
      BY <1>1, <3>3 DEF TellsOf
    <3>6. NameComing(a, p.out, Tail(msgs), n, text2)
      BY <1>1, <3>2, <3>4, <3>5, NameReceive
    <3> QED
      BY <3>1, <3>6
  <2> QED
    BY <1>8, <1>11, <2>1 DEF NamesComing
<1>13. NamelessAll(q.cache, q.rows, Tail(msgs), nm)
  <2>1. ASSUME NEW a \in Addrs, nm[a] = None
        PROVE  Nameless(a, cache, rows, Tail(msgs))
    <3>1. Nameless(a, p.cache, p.rows, msgs)
      BY <2>1 DEF PageInv, NamelessAll
    <3>2. h \notin TellsOf(a) /\ NoneIn(Tail(msgs), TellsOf(a))
      BY <1>1, <3>1, InTail DEF Nameless
    <3>3. a \notin DOMAIN names
      BY <1>1, <3>2 DEF TellsOf
    <3> QED
      BY <1>5, <1>6, <1>8, <1>10, <3>1, <3>2, <3>3 DEF Nameless
  <2> QED
    BY <1>11, <2>1 DEF NamelessAll
<1>14. Wanted(p.s, p.out, msgs, sv, p.static) => Wanted(q.s, q.out, Tail(msgs), sv, q.static)
  <2>1. p.s \in States
    BY DEF Pages
  <2>2. p.s.iview # None => p.s.iview \in Addrs
    BY <2>1 DEF States
  <2>3. p.s.flat \in BOOLEAN
    BY <2>1 DEF States
  <2>4. h \notin StaticMsgs
    BY <1>1, MessageClasses
  <2> QED
    BY <1>1, <1>11, <2>2, <2>3, <2>4, ViewReceive DEF Wanted
<1> QED
  BY <1>1, <1>3, <1>11, <1>12, <1>13, <1>14 DEF PageInv

\* What becomes of the view when a message is received.
LEMMA WantedReceive ==
  ASSUME NEW s \in States, NEW msgs \in Seq(Msgs), msgs # <<>>, NEW out, NEW sv \in Servers,
         NEW static, NEW static2, Wanted(s, out, msgs, sv, static),
         Head(msgs) \in StaticMsgs => static2 = Head(msgs).arg,
         Head(msgs) \notin StaticMsgs => static2 = static
  PROVE  Wanted(s, out, Tail(msgs), sv, static2)
<1>1. s.iview # None => s.iview \in Addrs
  BY DEF States
<1>2. s.flat \in BOOLEAN
  BY DEF States
<1> QED
  BY <1>1, <1>2, ViewReceive DEF Wanted

\* What becomes of the names when a message without names is received.
LEMMA OtherReceive ==
  ASSUME NEW p \in Pages, NEW msgs \in Seq(Msgs), msgs # <<>>, NEW nm, NEW sv,
         PageInv(p, msgs, nm, sv), Head(msgs) \notin NamesMsgs
  PROVE  /\ NamesComing(p.rows, p.out, Tail(msgs), nm)
         /\ NamelessAll(p.cache, p.rows, Tail(msgs), nm)
<1>1. \A a : Head(msgs) \notin TellsOf(a)
  BY DEF TellsOf
<1>2. ASSUME NEW a \in DOMAIN p.rows
      PROVE  NameComing(a, p.out, Tail(msgs), nm[a], p.rows[a].text)
  <2>1. PICK n, text : n = nm[a] /\ text = p.rows[a].text
    OBVIOUS
  <2>2. NameComing(a, p.out, msgs, n, text)
    BY <2>1 DEF PageInv, NamesComing
  <2>3. Head(msgs) \notin TellsName(a, n)
    BY <1>1 DEF TellsName
  <2>4. NameComing(a, p.out, Tail(msgs), n, text)
    BY <1>1, <2>2, <2>3, NameReceive
  <2> QED
    BY <2>1, <2>4
<1>3. ASSUME NEW a \in Addrs, nm[a] = None
      PROVE  Nameless(a, p.cache, p.rows, Tail(msgs))
  <2>1. Nameless(a, p.cache, p.rows, msgs)
    BY <1>3 DEF PageInv, NamelessAll
  <2>2. NoneIn(Tail(msgs), TellsOf(a))
    BY <2>1, InTail DEF Nameless
  <2> QED
    BY <2>1, <2>2 DEF Nameless
<1> QED
  BY <1>2, <1>3 DEF NamesComing, NamelessAll

\* on_flat and on_function.
LEMMA OnStaticKeeps ==
  ASSUME NEW p \in Pages, NEW msgs \in Seq(Msgs), msgs # <<>>, NEW nm \in NameMaps, NEW sv \in Servers,
         PageInv(p, msgs, nm, sv), Head(msgs) \in StaticMsgs
  PROVE  /\ OnStatic(p, Head(msgs).arg) \in Pages
         /\ PageInv(OnStatic(p, Head(msgs).arg), Tail(msgs), nm, sv)
<1>1. PICK msg \in Views : msg = Head(msgs).arg
  BY DEF StaticMsgs
<1>2. PICK q : q = [p EXCEPT !.static = msg]
  OBVIOUS
<1>3. /\ q \in Pages /\ q.s = p.s /\ q.pend = p.pend /\ q.out = p.out /\ q.cache = p.cache
      /\ q.rows = p.rows /\ q.static = msg
  BY <1>2 DEF Pages
<1>4. Head(msgs) \notin NamesMsgs
  BY MessageClasses
<1>5. /\ NamesComing(p.rows, p.out, Tail(msgs), nm)
      /\ NamelessAll(p.cache, p.rows, Tail(msgs), nm)
  BY <1>4, OtherReceive
<1>6. Contains(q.pend, "static") \/ Wanted(q.s, q.out, Tail(msgs), sv, q.static)
  <2>1. p.s \in States
    BY DEF Pages
  <2> QED
    BY <1>1, <1>3, <2>1, WantedReceive DEF PageInv
<1>7. PageInv(q, Tail(msgs), nm, sv)
  BY <1>3, <1>5, <1>6 DEF PageInv
<1>8. ReplaceNames(q) \in Pages /\ PageInv(ReplaceNames(q), Tail(msgs), nm, sv)
  BY <1>3, <1>5, <1>6, ReplacePage, ReplaceKeeps
<1>9. OnStatic(p, msg) = q \/ OnStatic(p, msg) = ReplaceNames(q)
  BY <1>2 DEF OnStatic
<1> QED
  BY <1>1, <1>3, <1>7, <1>8, <1>9

\* on_instructions: the rows are drawn anew and their names asked for.
LEMMA OnInstructionsKeeps ==
  ASSUME NEW p \in Pages, NEW msgs \in Seq(Msgs), msgs # <<>>, NEW nm \in NameMaps, NEW sv \in Servers,
         PageInv(p, msgs, nm, sv), Head(msgs) \in InstructionsMsgs
  PROVE  /\ OnInstructions(p, Head(msgs).arg) \in Pages
         /\ PageInv(OnInstructions(p, Head(msgs).arg), Tail(msgs), nm, sv)
<1>1. PICK msg \in AddrMaps(Texts \cup {None}) : msg = Head(msgs).arg
  BY DEF InstructionsMsgs
<1>2. DOMAIN msg \in SUBSET Addrs /\ \A a \in DOMAIN msg : msg[a] \in Texts \cup {None}
  BY AddrMapsMember
<1>3. Head(msgs) \notin NamesMsgs /\ Head(msgs) \notin StaticMsgs
  <2>1. 1 \in Addrs
    BY TagsConstants
  <2> QED
    BY <2>1, MessageClasses
<1>4. NamelessAll(p.cache, p.rows, Tail(msgs), nm)
  BY <1>3, OtherReceive
<1>5. PICK c : c = p.s.clnum
  OBVIOUS
<1>6. PICK q : q = IF c \in DOMAIN msg THEN Set(Set(p, "iaddr", c), "iview", c) ELSE p
  OBVIOUS
<1>7. /\ q \in Pages /\ q.out = p.out /\ q.cache = p.cache /\ q.rows = p.rows /\ q.static = p.static
      /\ Contains(q.pend, "static") \/ (q.s = p.s /\ q.pend = p.pend)
  <2>1. CASE c \in DOMAIN msg
    <3>1. c \in Addrs
      BY <1>2, <2>1
    <3>2. PICK r : r = Set(p, "iaddr", c)
      OBVIOUS
    <3>3. SetKeeps(p, r)
      BY <3>1, <3>2, SetPage
    <3>4. r \in Pages
      BY <3>3 DEF SetKeeps
    <3>5. q = Set(r, "iview", c)
      BY <1>6, <2>1, <3>2
    <3>6. SetKeeps(r, q) /\ Contains(q.pend, "static")
      BY <3>1, <3>4, <3>5, SetPage
    <3> QED
      BY <3>3, <3>6 DEF SetKeeps
  <2>2. CASE c \notin DOMAIN msg
    BY <1>6, <2>2
  <2> QED
    BY <2>1, <2>2
<1>8. Contains(q.pend, "static") \/ Wanted(q.s, q.out, Tail(msgs), sv, q.static)
  <2>1. p.s \in States
    BY DEF Pages
  <2> QED
    BY <1>3, <1>7, <2>1, WantedReceive DEF PageInv
<1> DEFINE rows == [a \in DOMAIN msg |-> [text |-> None, comment |-> msg[a]]]
<1>9. rows \in AddrMaps(Rows) /\ \A a \in DOMAIN rows : rows[a].text = None
  <2>1. \A a \in DOMAIN msg : [text |-> None, comment |-> msg[a]] \in Rows
    BY <1>2 DEF Rows
  <2>2. rows \in [DOMAIN msg -> Rows] /\ \A a \in DOMAIN rows : rows[a].text = None
    BY <2>1
  <2> HIDE DEF rows
  <2> QED
    BY <1>2, <2>2, AddrMapsMade
<1>10. OnInstructions(p, msg) = ReplaceNames(PutRows(q, rows))
  BY <1>5, <1>6 DEF OnInstructions, PutRows
<1> HIDE DEF rows
<1>11. PICK r : r = PutRows(q, rows)
  OBVIOUS
<1>12. /\ r \in Pages /\ r.s = q.s /\ r.pend = q.pend /\ r.out = q.out /\ r.cache = q.cache
       /\ r.static = q.static /\ r.rows = rows
  BY <1>7, <1>9, <1>11, PutRowsPage
<1>13. NamelessAll(r.cache, r.rows, Tail(msgs), nm)
  BY <1>4, <1>7, <1>9, <1>12 DEF NamelessAll, Nameless
<1>14. ReplaceNames(r) \in Pages
  BY <1>12, ReplacePage
<1>15. PageInv(ReplaceNames(r), Tail(msgs), nm, sv)
  BY <1>8, <1>12, <1>13, ReplaceKeeps
<1> QED
  BY <1>1, <1>10, <1>11, <1>14, <1>15

-----------------------------------------------------------------------------
(* The autoruns *)

\* An autorun keeps what comes, and the one of the static view makes it come.
RunTo(p, q, msgs, nm, sv) ==
  /\ q \in Pages /\ q.s = p.s /\ q.pend = p.pend /\ q.static = p.static
  /\ NamesComing(q.rows, q.out, msgs, nm)
  /\ NamelessAll(q.cache, q.rows, msgs, nm)
  /\ Wanted(p.s, p.out, msgs, sv, p.static) => Wanted(q.s, q.out, msgs, sv, q.static)

LEMMA RunKeeps ==
  ASSUME NEW p \in Pages, NEW fxn \in Fxns, NEW msgs, NEW nm, NEW sv,
         NamesComing(p.rows, p.out, msgs, nm), NamelessAll(p.cache, p.rows, msgs, nm)
  PROVE  /\ RunTo(p, Run(p, fxn), msgs, nm, sv)
         /\ fxn = "static" => Wanted(p.s, Run(p, fxn).out, msgs, sv, p.static)
<1>1. p.s \in States /\ p.out \in Seq(Calls) /\ DOMAIN p.rows \in SUBSET Addrs
  BY RowsOf DEF Pages
<1>2. p.s.clnum \in Clnums /\ (p.s.iview # None => p.s.iview \in Addrs)
  BY <1>1 DEF States
<1>3. p.s.flat \in BOOLEAN
  BY <1>1 DEF States
<1>4. ASSUME NEW c \in Calls, \A a \in Addrs : c \notin RenamesIt(a)
      PROVE  /\ Emit(p, c) \in Pages /\ Emit(p, c).s = p.s /\ Emit(p, c).pend = p.pend
             /\ Emit(p, c).static = p.static /\ Emit(p, c).out = Append(p.out, c)
             /\ NamesComing(Emit(p, c).rows, Emit(p, c).out, msgs, nm)
             /\ NamelessAll(Emit(p, c).cache, Emit(p, c).rows, msgs, nm)
  <2>1. PICK q : q = Emit(p, c)
    OBVIOUS
  <2>2. /\ q \in Pages /\ q.out = Append(p.out, c) /\ q.s = p.s /\ q.pend = p.pend
        /\ q.cache = p.cache /\ q.rows = p.rows /\ q.static = p.static
    BY <2>1, EmitPage
  <2>3. ASSUME NEW a \in DOMAIN p.rows
        PROVE  NameComing(a, q.out, msgs, nm[a], q.rows[a].text)
    <3>1. PICK n, text : n = nm[a] /\ text = p.rows[a].text
      OBVIOUS
    <3>2. NameComing(a, p.out, msgs, n, text)
      BY <3>1 DEF NamesComing
    <3>3. NameComing(a, Append(p.out, c), msgs, n, text)
      BY <1>1, <1>4, <3>2, NameSend
    <3> QED
      BY <2>2, <3>1, <3>3
  <2> QED
    BY <2>1, <2>2, <2>3 DEF NamesComing
<1>5. CASE fxn = "static" /\ p.s.iview = None
  <2>1. Run(p, fxn) = p
    BY <1>5 DEF Run, EmitGetstaticview
  <2> QED
    BY <1>5, <2>1 DEF RunTo, Wanted
<1>6. CASE fxn = "static" /\ p.s.iview # None
  <2>1. PICK c : c = <<"getstaticview", p.s.iview, p.s.flat>>
    OBVIOUS
  <2>2. c \in GetstaticviewCalls
    BY <1>2, <1>3, <1>6, <2>1 DEF GetstaticviewCalls
  <2>3. c \in Calls /\ \A a \in Addrs : c \notin RenamesIt(a)
    BY <2>2, CallKinds, CallClasses
  <2>4. Run(p, fxn) = Emit(p, c)
    BY <1>6, <2>1 DEF Run, EmitGetstaticview
  <2>5. Wanted(p.s, Append(p.out, c), msgs, sv, p.static)
    BY <1>1, <2>1, <2>3, ViewSend DEF Wanted
  <2> QED
    BY <1>4, <2>3, <2>4, <2>5 DEF RunTo
<1>7. CASE fxn = "instructions"
  <2>1. PICK c : c = <<"getinstructions", p.s.clnum>>
    OBVIOUS
  <2>2. c \in GetinstructionsCalls
    BY <1>2, <2>1 DEF GetinstructionsCalls
  <2>3. c \in Calls /\ (\A a \in Addrs : c \notin RenamesIt(a)) /\ c \notin ChangesView
    <3>1. 1 \in Addrs
      BY TagsConstants
    <3> QED
      BY <2>2, <3>1, CallKinds, CallClasses
  <2>4. Run(p, fxn) = Emit(p, c)
    BY <1>7, <2>1 DEF Run
  <2>5. Wanted(p.s, p.out, msgs, sv, p.static) => Wanted(p.s, Append(p.out, c), msgs, sv, p.static)
    BY <1>1, <2>3, ViewSend DEF Wanted
  <2> QED
    BY <1>4, <1>7, <2>3, <2>4, <2>5 DEF RunTo
<1> QED
  BY <1>5, <1>6, <1>7 DEF Fxns

RunFold == INSTANCE FoldProofs WITH Op <- Run

LEMMA RunAllIsFold ==
  ASSUME NEW p, NEW fxns
  PROVE  RunAll(p, fxns) = RunFold!Result(p, fxns)
  BY Zenon DEF RunAll, FoldLeft, MapThenFoldSet, Max, RunFold!Result, RunFold!IsFold, RunFold!Max

\* Session._process: the autoruns keep what comes, and if the one of the static
\* view is among them the view comes.
LEMMA RunAllKeeps ==
  ASSUME NEW p \in Pages, NEW fxns \in Seq(Fxns), NEW msgs, NEW nm, NEW sv,
         NamesComing(p.rows, p.out, msgs, nm), NamelessAll(p.cache, p.rows, msgs, nm)
  PROVE  /\ RunTo(p, RunAll(p, fxns), msgs, nm, sv)
         /\ Contains(fxns, "static") => Wanted(p.s, RunAll(p, fxns).out, msgs, sv, p.static)
<1>1. PICK n \in Nat : n = Len(fxns) /\ DOMAIN fxns = 1 .. n
  OBVIOUS
<1>a. PICK r : RunFold!Steps(r, p, fxns, n)
  BY <1>1, RunFold!FoldSteps
<1>2. /\ r[0] = p /\ RunAll(p, fxns) = r[n]
      /\ \A i \in 1 .. n : r[i] = Run(r[i - 1], fxns[i])
  BY <1>a, RunAllIsFold DEF RunFold!Steps
<1> DEFINE W(i) == (\E j \in 1 .. i : fxns[j] = "static") => Wanted(p.s, r[i].out, msgs, sv, p.static)
           T == {i \in 0 .. n : RunTo(p, r[i], msgs, nm, sv) /\ W(i)}
<1>3. 0 \in T
  <2>1. RunTo(p, r[0], msgs, nm, sv)
    BY <1>2 DEF RunTo
  <2> QED
    BY <2>1
<1>4. ASSUME NEW i \in 1 .. n, i - 1 \in T PROVE i \in T
  <2>1. PICK q, q2, x : q = r[i - 1] /\ q2 = r[i] /\ x = fxns[i]
    OBVIOUS
  <2>2. RunTo(p, q, msgs, nm, sv) /\ q2 = Run(q, x) /\ x \in Fxns
    BY <1>1, <1>2, <1>4, <2>1
  <2>3. /\ RunTo(q, q2, msgs, nm, sv)
        /\ x = "static" => Wanted(q.s, q2.out, msgs, sv, q.static)
    BY <2>2, RunKeeps DEF RunTo
  <2>4. RunTo(p, q2, msgs, nm, sv)
    BY <2>2, <2>3 DEF RunTo
  <2>5. \A j : j \in 1 .. i <=> j \in 1 .. (i - 1) \/ j = i
    OBVIOUS
  <2>6. (\E j \in 1 .. (i - 1) : fxns[j] = "static") => Wanted(p.s, q.out, msgs, sv, p.static)
    BY <1>4, <2>1
  <2>7. W(i)
    BY <2>1, <2>2, <2>3, <2>5, <2>6 DEF RunTo
  <2> QED
    BY <2>1, <2>4, <2>7
<1> HIDE DEF T
<1>5. n \in T
  <2>1. 0 .. n \subseteq T
    BY <1>3, <1>4, RunFold!UpTo
  <2> QED
    BY <2>1
<1>6. RunTo(p, r[n], msgs, nm, sv) /\ W(n)
  BY <1>5 DEF T
<1>7. Contains(fxns, "static") => \E j \in 1 .. n : fxns[j] = "static"
  BY <1>1 DEF Contains
<1> QED
  BY <1>2, <1>6, <1>7

-----------------------------------------------------------------------------
(* The server *)

LEMMA NameAnswer ==
  ASSUME NEW a \in Addrs, NEW out \in Seq(Calls), out # <<>>, NEW msgs \in Seq(Msgs), NEW x \in Msgs,
         NEW n, NEW text, NameComing(a, out, msgs, n, text)
  PROVE  /\ \A n2 : x \in TellsName(a, n2) => NameComing(a, Tail(out), Append(msgs, x), n2, text)
         /\ Head(out) \notin AsksName(a) /\ x \notin TellsOf(a) =>
              NameComing(a, Tail(out), Append(msgs, x), n, text)
         /\ Head(out) \notin AsksName(a) => NameComing(a, Tail(out), msgs, n, text)
<1>1. /\ LastIn(out, AsksName(a), RenamesIt(a)) =>
           \/ LastIn(Tail(out), AsksName(a), RenamesIt(a))
           \/ Head(out) \in AsksName(a) /\ NoneIn(Tail(out), RenamesIt(a))
      /\ NoneIn(out, RenamesIt(a)) => NoneIn(Tail(out), RenamesIt(a))
  BY InTail
<1>2. /\ \A n2 : x \in TellsName(a, n2) => LastIn(Append(msgs, x), TellsName(a, n2), TellsOf(a))
      /\ x \notin TellsOf(a) /\ LastIn(msgs, TellsName(a, n), TellsOf(a)) =>
           LastIn(Append(msgs, x), TellsName(a, n), TellsOf(a))
      /\ x \notin TellsOf(a) /\ NoneIn(msgs, TellsOf(a)) => NoneIn(Append(msgs, x), TellsOf(a))
  BY InAppend
<1> QED
  BY <1>1, <1>2 DEF Coming, NameComing

\* Nothing else is known of what has no name.
LEMMA NamelessComing ==
  ASSUME NEW a \in Addrs, NEW out \in Seq(Calls), out # <<>>, NEW msgs, NEW msgs2,
         NEW n, NEW text, NameComing(a, out, msgs, n, text),
         NoneIn(msgs2, TellsOf(a)), text = n
  PROVE  NameComing(a, Tail(out), msgs2, n, text)
<1>1. /\ LastIn(out, AsksName(a), RenamesIt(a)) =>
           \/ LastIn(Tail(out), AsksName(a), RenamesIt(a))
           \/ Head(out) \in AsksName(a) /\ NoneIn(Tail(out), RenamesIt(a))
      /\ NoneIn(out, RenamesIt(a)) => NoneIn(Tail(out), RenamesIt(a))
  BY InTail
<1> QED
  BY <1>1 DEF Coming, NameComing

\* A renaming that is handled: the name is asked for behind it.
LEMMA NameSpoilt ==
  ASSUME NEW a \in Addrs, NEW out \in Seq(Calls), out # <<>>, NEW msgs, NEW n, NEW text,
         NameComing(a, out, msgs, n, text), Head(out) \in RenamesIt(a), Head(out) \notin AsksName(a),
         NEW n2
  PROVE  NameComing(a, Tail(out), msgs, n2, text)
<1>1. /\ LastIn(out, AsksName(a), RenamesIt(a)) =>
           \/ LastIn(Tail(out), AsksName(a), RenamesIt(a))
           \/ Head(out) \in AsksName(a) /\ NoneIn(Tail(out), RenamesIt(a))
      /\ NoneIn(out, RenamesIt(a)) => Head(out) \notin RenamesIt(a)
  BY InTail
<1> QED
  BY <1>1 DEF Coming, NameComing

LEMMA ViewAnswer ==
  ASSUME NEW v \in Addrs, NEW f \in BOOLEAN, NEW sv, NEW out \in Seq(Calls), out # <<>>,
         NEW msgs \in Seq(Msgs), NEW x \in Msgs, NEW static, ViewComing(v, f, sv, out, msgs, static)
  PROVE  /\ \A sv2 : x = ViewMsg(v, f, sv2) => ViewComing(v, f, sv2, Tail(out), Append(msgs, x), static)
         /\ Head(out) \in ChangesView /\ Head(out) # <<"getstaticview", v, f>> =>
              \A sv2, msgs2 : ViewComing(v, f, sv2, Tail(out), msgs2, static)
         /\ Head(out) \notin ChangesView => ViewComing(v, f, sv, Tail(out), msgs, static)
         /\ Head(out) \notin ChangesView /\ x \notin StaticMsgs =>
              ViewComing(v, f, sv, Tail(out), Append(msgs, x), static)
<1> DEFINE c == <<"getstaticview", v, f>>
           A == {c}
           T(k) == {ViewMsg(v, f, k)}
           Told3(ms, k) == \/ v \in k.behind
                           \/ LastIn(ms, T(k), StaticMsgs)
                           \/ NoneIn(ms, StaticMsgs) /\ static = ViewOf(v, f, k)
<1>1. c \in ChangesView
  BY DEF ChangesView, GetstaticviewCalls
<1>2. /\ LastIn(out, A, ChangesView) =>
           LastIn(Tail(out), A, ChangesView) \/ (Head(out) \in A /\ NoneIn(Tail(out), ChangesView))
      /\ NoneIn(out, ChangesView) => Head(out) \notin ChangesView /\ NoneIn(Tail(out), ChangesView)
  BY InTail
<1>3. \A k : /\ x \in T(k) => LastIn(Append(msgs, x), T(k), StaticMsgs)
             /\ x \notin StaticMsgs /\ LastIn(msgs, T(k), StaticMsgs) => LastIn(Append(msgs, x), T(k), StaticMsgs)
             /\ x \notin StaticMsgs /\ NoneIn(msgs, StaticMsgs) => NoneIn(Append(msgs, x), StaticMsgs)
  BY InAppend
<1>4. \A o, ms, k : ViewComing(v, f, k, o, ms, static) <=>
        \/ LastIn(o, A, ChangesView)
        \/ NoneIn(o, ChangesView) /\ Told3(ms, k)
  BY DEF ViewComing
<1>5. Head(out) \in A <=> Head(out) = c
  OBVIOUS
<1>6. \A k : x \in T(k) <=> x = ViewMsg(v, f, k)
  OBVIOUS
<1>7. /\ \A k : x \in T(k) => Told3(Append(msgs, x), k)
      /\ x \notin StaticMsgs /\ Told3(msgs, sv) => Told3(Append(msgs, x), sv)
  BY <1>3
<1> HIDE DEF c, A, T, Told3
<1>8. \/ LastIn(out, A, ChangesView)
      \/ NoneIn(out, ChangesView) /\ Told3(msgs, sv)
  BY <1>4
<1>9. ASSUME NEW sv2, x = ViewMsg(v, f, sv2)
      PROVE  ViewComing(v, f, sv2, Tail(out), Append(msgs, x), static)
  BY <1>2, <1>4, <1>6, <1>7, <1>8, <1>9
<1>10. ASSUME Head(out) \in ChangesView, Head(out) # c, NEW sv2, NEW msgs2
       PROVE  ViewComing(v, f, sv2, Tail(out), msgs2, static)
  <2>1. LastIn(Tail(out), A, ChangesView)
    BY <1>2, <1>5, <1>8, <1>10
  <2> QED
    BY <1>4, <2>1
<1>11. Head(out) \notin ChangesView => Head(out) \notin A
  BY <1>1, <1>5
<1>12. Head(out) \notin ChangesView => ViewComing(v, f, sv, Tail(out), msgs, static)
  BY <1>2, <1>4, <1>8, <1>11
<1>13. Head(out) \notin ChangesView /\ x \notin StaticMsgs =>
         ViewComing(v, f, sv, Tail(out), Append(msgs, x), static)
  BY <1>2, <1>4, <1>7, <1>8, <1>11
<1> QED
  BY <1>9, <1>10, <1>12, <1>13 DEF c

\* The page after a call was taken from what it sends.
PutOut(p, out) == [p EXCEPT !.out = out]

LEMMA PutOutPage ==
  ASSUME NEW p \in Pages, NEW out \in Seq(Calls), NEW q, q = PutOut(p, out)
  PROVE  /\ q \in Pages /\ q.s = p.s /\ q.pend = p.pend /\ q.cache = p.cache
         /\ q.static = p.static /\ q.panels = p.panels /\ q.rows = p.rows /\ q.out = out
  BY DEF Pages, PutOut

\* What is left to show when a call is handled: from the parts of the invariant
\* before, the parts after.
HandleParts(p, msgs, nm, sv, msgs2, nm2, sv2) ==
  /\ \A a \in DOMAIN p.rows : NameComing(a, Tail(p.out), msgs2, nm2[a], p.rows[a].text)
  /\ NamelessAll(p.cache, p.rows, msgs2, nm2)
  /\ Wanted(p.s, p.out, msgs, sv, p.static) => Wanted(p.s, Tail(p.out), msgs2, sv2, p.static)

\* A call that is answered with x: names it tells, or the view.
LEMMA AnswerParts ==
  ASSUME NEW p \in Pages, p.out # <<>>, NEW msgs \in Seq(Msgs), NEW nm \in NameMaps, NEW sv,
         PageInv(p, msgs, nm, sv), NEW x \in Msgs, NEW nm2 \in NameMaps, NEW sv2,
         \A a \in Addrs : \/ nm2[a] # None /\ x \in TellsName(a, nm2[a])
                          \/ nm2[a] = nm[a] /\ Head(p.out) \notin AsksName(a) /\ x \notin TellsOf(a)
                          \/ nm2[a] = None /\ nm[a] = None /\ x \notin TellsOf(a),
         \/ Head(p.out) \notin ChangesView /\ x \notin StaticMsgs /\ sv2 = sv
         \/ /\ sv2.on = sv.on
            /\ \E v \in Addrs, f \in BOOLEAN : Head(p.out) = <<"getstaticview", v, f>> /\ x = ViewMsg(v, f, sv2)
  PROVE  HandleParts(p, msgs, nm, sv, Append(msgs, x), nm2, sv2)
<1>1. p.out \in Seq(Calls) /\ p.s \in States /\ DOMAIN p.rows \in SUBSET Addrs
  BY RowsOf DEF Pages
<1>2. \A a \in Addrs : nm[a] = None => Nameless(a, p.cache, p.rows, msgs)
  BY DEF PageInv, NamelessAll
<1>3. ASSUME NEW a \in Addrs, nm2[a] = None
      PROVE  /\ Nameless(a, p.cache, p.rows, Append(msgs, x)) /\ NoneIn(Append(msgs, x), TellsOf(a))
             /\ Nameless(a, p.cache, p.rows, msgs)
  <2>1. x \notin TellsOf(a) /\ nm[a] = None
    BY <1>3
  <2>2. Nameless(a, p.cache, p.rows, msgs)
    BY <1>2, <2>1
  <2>3. NoneIn(Append(msgs, x), TellsOf(a))
    BY <2>1, <2>2, InAppend DEF Nameless
  <2> QED
    BY <2>2, <2>3 DEF Nameless
<1>4. ASSUME NEW a \in DOMAIN p.rows
      PROVE  NameComing(a, Tail(p.out), Append(msgs, x), nm2[a], p.rows[a].text)
  <2>1. PICK n, n2, text, out : n = nm[a] /\ n2 = nm2[a] /\ text = p.rows[a].text
                                /\ out = p.out /\ out \in Seq(Calls)
    BY <1>1
  <2>2. NameComing(a, out, msgs, n, text) /\ a \in Addrs
    BY <1>1, <2>1 DEF PageInv, NamesComing
  <2>3. CASE n2 = None
    <3>1. text = None
      BY <1>3, <2>1, <2>2, <2>3 DEF Nameless
    <3>2. NoneIn(Append(msgs, x), TellsOf(a)) /\ n = None
      BY <1>3, <2>1, <2>2, <2>3
    <3>3. NameComing(a, Tail(out), Append(msgs, x), n, text)
      BY <2>1, <2>2, <3>1, <3>2, NamelessComing
    <3> QED
      BY <2>1, <2>3, <3>2, <3>3
  <2>4. CASE n2 # None
    <3>1. \/ x \in TellsName(a, n2)
          \/ n2 = n /\ Head(out) \notin AsksName(a) /\ x \notin TellsOf(a)
      BY <2>1, <2>2, <2>4
    <3>2. NameComing(a, Tail(out), Append(msgs, x), n2, text)
      BY <2>1, <2>2, <3>1, NameAnswer
    <3> QED
      BY <2>1, <3>2
  <2> QED
    BY <2>3, <2>4
<1>5. ASSUME Wanted(p.s, p.out, msgs, sv, p.static), sv2.on, p.s.iview # None
      PROVE  ViewComing(p.s.iview, p.s.flat, sv2, Tail(p.out), Append(msgs, x), p.static)
  <2>1. PICK w, g, out : w = p.s.iview /\ g = p.s.flat /\ out = p.out /\ out \in Seq(Calls) /\ w \in Addrs
    BY <1>1, <1>5 DEF States
  <2>2. g \in BOOLEAN
    BY <1>1, <2>1 DEF States
  <2>3. ViewComing(w, g, sv, out, msgs, p.static)
    BY <1>5, <2>1 DEF Wanted
  <2>4. CASE Head(out) \notin ChangesView /\ x \notin StaticMsgs /\ sv2 = sv
    BY <2>1, <2>2, <2>3, <2>4, ViewAnswer
  <2>5. ASSUME NEW v \in Addrs, NEW f \in BOOLEAN, Head(out) = <<"getstaticview", v, f>>, x = ViewMsg(v, f, sv2)
        PROVE  ViewComing(w, g, sv2, Tail(out), Append(msgs, x), p.static)
    <3>1. Head(out) \in ChangesView
      <4>1. <<"getstaticview", v, f>> \in ChangesView
        BY DEF ChangesView, GetstaticviewCalls
      <4> QED
        BY <2>5, <4>1
    <3>2. CASE <<"getstaticview", v, f>> = <<"getstaticview", w, g>>
      <4>1. v = w /\ f = g
        BY <3>2
      <4> QED
        BY <2>1, <2>2, <2>3, <2>5, <4>1, ViewAnswer
    <3>3. CASE <<"getstaticview", v, f>> # <<"getstaticview", w, g>>
      BY <2>1, <2>2, <2>3, <2>5, <3>1, <3>3, ViewAnswer
    <3> QED
      BY <3>2, <3>3
  <2> QED
    BY <2>1, <2>4, <2>5
<1> QED
  BY <1>3, <1>4, <1>5 DEF HandleParts, NamelessAll, Wanted

LEMMA SomeMessage == \E x : x \in Msgs
<1>1. [kind |-> "static", arg |-> [at |-> 1, flat |-> TRUE, made |-> 0]] \in StaticMsgs
  <2>1. 1 \in Addrs
    BY TagsConstants
  <2> QED
    BY <2>1 DEF StaticMsgs, Views
<1> QED
  BY <1>1 DEF Msgs

\* settags: what is renamed is asked for behind it.
LEMMA SettagsParts ==
  ASSUME NEW p \in Pages, p.out # <<>>, NEW msgs \in Seq(Msgs), NEW nm \in NameMaps, NEW sv,
         PageInv(p, msgs, nm, sv), Head(p.out) \in SettagsCalls, NEW nm2 \in NameMaps,
         NEW b \in Addrs, Head(p.out)[2] = b,
         \/ Head(p.out)[3] = "name" /\ nm2[b] # None /\ \A a \in Addrs \ {b} : nm2[a] = nm[a]
         \/ Head(p.out)[3] = "comment" /\ nm2 = nm
  PROVE  HandleParts(p, msgs, nm, sv, msgs, nm2, sv)
<1>1. p.out \in Seq(Calls) /\ p.s \in States /\ DOMAIN p.rows \in SUBSET Addrs
  BY RowsOf DEF Pages
<1>2. PICK c : c = Head(p.out) /\ c \in SettagsCalls
  OBVIOUS
<1>3. NamelessAll(p.cache, p.rows, msgs, nm2)
  BY DEF PageInv, NamelessAll
<1>4. ASSUME NEW a \in DOMAIN p.rows
      PROVE  NameComing(a, Tail(p.out), msgs, nm2[a], p.rows[a].text)
  <2>1. PICK n, n2, text, out : /\ n = nm[a] /\ n2 = nm2[a] /\ text = p.rows[a].text
                                /\ out = p.out /\ out \in Seq(Calls)
    BY <1>1
  <2>2. NameComing(a, out, msgs, n, text) /\ a \in Addrs
    BY <1>1, <2>1 DEF PageInv, NamesComing
  <2>3. Head(out) \notin AsksName(a)
    BY <1>2, <2>1, <2>2, CallClasses
  <2>4. CASE a = b /\ Head(p.out)[3] = "name"
    <3>1. Head(out) \in RenamesIt(a)
      BY <1>2, <2>1, <2>2, <2>4, CallClasses
    <3>2. NameComing(a, Tail(out), msgs, n2, text)
      BY <2>1, <2>2, <2>3, <3>1, NameSpoilt
    <3> QED
      BY <2>1, <3>2
  <2>5. CASE ~(a = b /\ Head(p.out)[3] = "name")
    <3>1. n2 = n
      BY <2>1, <2>2, <2>5
    <3>2. NameComing(a, Tail(out), msgs, n, text)
      BY <2>1, <2>2, <2>3, SomeMessage, NameAnswer
    <3> QED
      BY <2>1, <3>1, <3>2
  <2> QED
    BY <2>4, <2>5
<1>5. Wanted(p.s, p.out, msgs, sv, p.static) => Wanted(p.s, Tail(p.out), msgs, sv, p.static)
  <2>1. Head(p.out) \notin ChangesView
    BY <1>2, CallClasses
  <2>2. p.s.iview # None => p.s.iview \in Addrs
    BY <1>1 DEF States
  <2>3. p.s.flat \in BOOLEAN
    BY <1>1 DEF States
  <2> QED
    BY <1>1, <2>1, <2>2, <2>3, SomeMessage, ViewAnswer DEF Wanted
<1> QED
  BY <1>3, <1>4, <1>5 DEF HandleParts

\* make, whatever it changes: the view is asked for behind it.  And a request for
\* the view that no handler takes.
LEMMA MakeParts ==
  ASSUME NEW p \in Pages, p.out # <<>>, NEW msgs \in Seq(Msgs), NEW nm \in NameMaps, NEW sv,
         PageInv(p, msgs, nm, sv), NEW sv2, sv2.on = sv.on,
         Head(p.out) \in MakeCalls \/ (Head(p.out) \in GetstaticviewCalls /\ ~sv.on)
  PROVE  HandleParts(p, msgs, nm, sv, msgs, nm, sv2)
<1>1. p.out \in Seq(Calls) /\ p.s \in States /\ DOMAIN p.rows \in SUBSET Addrs
  BY RowsOf DEF Pages
<1>2. PICK x : x \in Msgs
  BY SomeMessage
<1>3. ASSUME NEW a \in DOMAIN p.rows
      PROVE  NameComing(a, Tail(p.out), msgs, nm[a], p.rows[a].text)
  <2>1. PICK n, text, out : n = nm[a] /\ text = p.rows[a].text /\ out = p.out /\ out \in Seq(Calls)
    BY <1>1
  <2>2. NameComing(a, out, msgs, n, text) /\ a \in Addrs
    BY <1>1, <2>1 DEF PageInv, NamesComing
  <2>3. Head(out) \notin AsksName(a)
    BY <2>1, <2>2, CallKinds DEF AsksName
  <2>4. NameComing(a, Tail(out), msgs, n, text)
    BY <1>2, <2>1, <2>2, <2>3, NameAnswer
  <2> QED
    BY <2>1, <2>4
<1>4. NamelessAll(p.cache, p.rows, msgs, nm)
  BY DEF PageInv
<1>5. ASSUME Wanted(p.s, p.out, msgs, sv, p.static), sv2.on, p.s.iview # None
      PROVE  ViewComing(p.s.iview, p.s.flat, sv2, Tail(p.out), msgs, p.static)
  <2>1. PICK w, g, out : w = p.s.iview /\ g = p.s.flat /\ out = p.out /\ out \in Seq(Calls) /\ w \in Addrs
    BY <1>1, <1>5 DEF States
  <2>2. g \in BOOLEAN
    BY <1>1, <2>1 DEF States
  <2>3. ViewComing(w, g, sv, out, msgs, p.static)
    BY <1>5, <2>1 DEF Wanted
  <2>4. Head(out) \in ChangesView /\ Head(out)[1] = "make"
    BY <1>5, <2>1, CallKinds DEF ChangesView
  <2>5. Head(out) # <<"getstaticview", w, g>>
    BY <2>4
  <2>6. \A sv3, msgs2 : ViewComing(w, g, sv3, Tail(out), msgs2, p.static)
    BY <1>2, <2>1, <2>2, <2>3, <2>4, <2>5, ViewAnswer
  <2> QED
    BY <2>1, <2>6
<1> QED
  BY <1>3, <1>4, <1>5 DEF HandleParts, Wanted

-----------------------------------------------------------------------------
(* Analysis *)

LEMMA ServerTypes ==
  ASSUME ServerType
  PROVE  Told \in NameMaps /\ Server \in Servers
<1>1. \A a \in Addrs : tags[a].name \in Names \cup {None}
  BY DEF ServerType, TagMaps
<1>2. Told \in NameMaps
  BY <1>1 DEF Told, NameMaps
<1> QED
  BY <1>2 DEF ServerType, Server, Servers

\* A view that is wanted stays so, or analysis changed it.
LEMMA WantedAnalysis ==
  ASSUME NEW s, NEW out, NEW msgs, NEW sv \in Servers, NEW static, Wanted(s, out, msgs, sv, static),
         NEW fs, NEW sv2 \in Servers, sv2.on = sv.on, sv2.made = sv.made,
         sv2.functions = sv.functions \cup fs, sv2.behind = sv.behind \cup (fs \ sv.functions)
  PROVE  Wanted(s, out, msgs, sv2, static)
<1>1. ASSUME NEW v, NEW f, ViewComing(v, f, sv, out, msgs, static)
      PROVE  ViewComing(v, f, sv2, out, msgs, static)
  <2>1. CASE v \in sv2.behind
    BY <1>1, <2>1 DEF ViewComing
  <2>2. CASE v \notin sv2.behind
    <3>1. v \notin sv.behind /\ (v \in sv2.functions <=> v \in sv.functions)
      BY <2>2
    <3>2. ViewOf(v, f, sv2) = ViewOf(v, f, sv) /\ ViewMsg(v, f, sv2) = ViewMsg(v, f, sv)
      BY <3>1 DEF ViewOf, ViewMsg
    <3> QED
      BY <1>1, <3>1, <3>2 DEF ViewComing
  <2> QED
    BY <2>1, <2>2
<1> QED
  BY <1>1 DEF Wanted

\* What analysis finds the page is not told.
LEMMA MakeFunctionTold ==
  ASSUME ServerType, NEW fs \in SUBSET Addrs, NEW ns \in SUBSET Addrs, NEW untold \in SUBSET Addrs,
         MakeFunction(fs, ns, untold), UNCHANGED withStatic, made' \in Nat
  PROVE  /\ Told' = Told /\ ServerType'
         /\ Server'.functions = Server.functions \cup fs
         /\ Server'.behind = Server.behind \cup untold
<1> DEFINE unnamed == {a \in ns : tags[a].name = None}
           given(a) == IF a \in unnamed THEN [tags[a] EXCEPT !.name = AutoName(a)] ELSE tags[a]
<1>1. /\ functions' = functions \cup fs /\ tags' = [a \in Addrs |-> given(a)]
      /\ behind' = [names |-> behind.names \cup unnamed, views |-> behind.views \cup untold]
  BY DEF MakeFunction
<1>2. \A a \in Addrs : tags[a] \in [name : Names \cup {None}, comment : Texts \cup {None}]
  BY DEF ServerType, TagMaps
<1>3. \A a \in Addrs : AutoName(a) \in Names
  BY DEF Names
<1>4. ASSUME NEW a \in Addrs
      PROVE  /\ given(a) \in [name : Names \cup {None}, comment : Texts \cup {None}]
             /\ given(a).name = IF a \in unnamed THEN AutoName(a) ELSE tags[a].name
  BY <1>2, <1>3
<1> HIDE DEF given
<1>5. tags' \in TagMaps /\ \A a \in Addrs : tags'[a].name = IF a \in unnamed THEN AutoName(a) ELSE tags[a].name
  BY <1>1, <1>4 DEF TagMaps
<1>6. behind'.names = behind.names \cup unnamed /\ behind'.views = behind.views \cup untold
      /\ behind' \in [names : SUBSET Addrs, views : SUBSET Addrs]
  BY <1>1 DEF ServerType
<1>7. Told' = Told
  <2>1. ASSUME NEW a \in Addrs
        PROVE  (IF a \in behind'.names THEN None ELSE tags'[a].name)
                  = (IF a \in behind.names THEN None ELSE tags[a].name)
    BY <1>5, <1>6
  <2> QED
    BY <2>1 DEF Told
<1>8. ServerType'
  BY <1>1, <1>5, <1>6 DEF ServerType
<1> QED
  BY <1>1, <1>6, <1>7, <1>8 DEF Server

-----------------------------------------------------------------------------
(* The steps *)

\* What the invariant says of the state.
LEMMA InvParts ==
  ASSUME TagsInv
  PROVE  /\ page \in Pages /\ toClient \in Seq(Msgs) /\ ServerType
         /\ Told \in NameMaps /\ Server \in Servers /\ PageInv(page, toClient, Told, Server)
  BY ServerTypes DEF TagsInv, TagsType

LEMMA ServerUnchanged ==
  ASSUME UNCHANGED serverVars
  PROVE  Told' = Told /\ Server' = Server /\ (ServerType => ServerType')
  BY DEF serverVars, Told, Server, ServerType

\* Handling a call keeps the invariant when it keeps the parts.
LEMMA InvHandled ==
  ASSUME TagsInv, page.out # <<>>, page' = [page EXCEPT !.out = Tail(@)],
         ServerType', toClient' \in Seq(Msgs),
         HandleParts(page, toClient, Told, Server, toClient', Told', Server')
  PROVE  TagsInv'
<1>1. page \in Pages /\ PageInv(page, toClient, Told, Server)
  BY InvParts
<1>2. PICK p, out, q : p = page /\ out = Tail(page.out) /\ q = page'
  OBVIOUS
<1>3. page.out \in Seq(Calls)
  BY <1>1 DEF Pages
<1>4. out \in Seq(Calls)
  BY <1>2, <1>3, InTail
<1>5. p \in Pages /\ q = PutOut(p, out)
  BY <1>1, <1>2 DEF PutOut
<1>6. /\ q \in Pages /\ q.s = p.s /\ q.pend = p.pend /\ q.cache = p.cache
      /\ q.static = p.static /\ q.rows = p.rows /\ q.out = out
  BY <1>4, <1>5, PutOutPage
<1>7. PageInv(page', toClient', Told', Server')
  BY <1>1, <1>2, <1>6 DEF PageInv, HandleParts, NamesComing
<1> QED
  BY <1>2, <1>6, <1>7 DEF TagsInv, TagsType

LEMMA PartsGetnames ==
  ASSUME TagsInv, page.out # <<>>, Head(page.out) \in GetnamesCalls,
         Getnames(Head(page.out)[2]), UNCHANGED withStatic
  PROVE  /\ ServerType' /\ toClient' \in Seq(Msgs)
         /\ HandleParts(page, toClient, Told, Server, toClient', Told', Server')
<1>1. /\ page \in Pages /\ toClient \in Seq(Msgs) /\ ServerType
      /\ Told \in NameMaps /\ Server \in Servers /\ PageInv(page, toClient, Told, Server)
  BY InvParts
<1>2. PICK c, as : c = Head(page.out) /\ as = c[2] /\ c \in GetnamesCalls
  OBVIOUS
<1>3. as \in SUBSET Addrs
  BY <1>2, CallKinds
<1> DEFINE D == {b \in as : tags[b].name # None}
<1>4. PICK f : f = [a \in D |-> tags[a].name]
  OBVIOUS
<1>5. PICK x : x = [kind |-> "names", arg |-> f]
  OBVIOUS
<1>6. /\ toClient' = Append(toClient, x) /\ UNCHANGED <<tags, rnames, functions, made>>
      /\ behind' = [behind EXCEPT !.names = @ \ as]
  BY <1>2, <1>4, <1>5 DEF Getnames
<1>7. f \in AddrMaps(Names) /\ DOMAIN f = D /\ \A a \in D : f[a] = tags[a].name
  <2>1. D \in SUBSET Addrs /\ \A a \in D : tags[a].name \in Names
    BY <1>1, <1>3 DEF ServerType, TagMaps
  <2>2. f \in [D -> Names] /\ \A a \in D : f[a] = tags[a].name
    BY <1>4, <2>1
  <2> QED
    BY <2>1, <2>2, AddrMapsMade
<1>8. x \in NamesMsgs /\ x \in Msgs /\ x \notin StaticMsgs
  BY <1>5, <1>7, MessageClasses DEF NamesMsgs
<1>9. /\ behind' \in [names : SUBSET Addrs, views : SUBSET Addrs]
      /\ behind'.names = behind.names \ as /\ behind'.views = behind.views
  BY <1>1, <1>6 DEF ServerType
<1>10. ServerType' /\ Server' = Server
  BY <1>1, <1>6, <1>9 DEF ServerType, Server
<1>11. Told' \in NameMaps
  <2>1. (ServerType => Told \in NameMaps)'
    BY ServerTypes, PTL
  <2> QED
    BY <1>10, <2>1
<1>12. \A a \in Addrs : /\ Told[a] = IF a \in behind.names THEN None ELSE tags[a].name
                        /\ Told'[a] = IF a \in behind.names \ as THEN None ELSE tags[a].name
  BY <1>6, <1>9 DEF Told
<1>13. ASSUME NEW a \in Addrs
       PROVE  \/ Told'[a] # None /\ x \in TellsName(a, Told'[a])
              \/ Told'[a] = Told[a] /\ Head(page.out) \notin AsksName(a) /\ x \notin TellsOf(a)
              \/ Told'[a] = None /\ Told[a] = None /\ x \notin TellsOf(a)
  <2>1. x \in TellsOf(a) <=> a \in as /\ tags[a].name # None
    BY <1>5, <1>7, <1>8 DEF TellsOf
  <2>2. x \in TellsOf(a) => x \in TellsName(a, tags[a].name)
    BY <1>5, <1>7, <2>1 DEF TellsName
  <2>3. c \in AsksName(a) => a \in as
    BY <1>2 DEF AsksName
  <2>4. CASE a \in as
    BY <1>12, <2>1, <2>2, <2>4
  <2>5. CASE a \notin as
    BY <1>2, <1>12, <2>1, <2>3, <2>5
  <2> QED
    BY <2>4, <2>5
<1>14. c \notin ChangesView
  <2>1. 1 \in Addrs
    BY TagsConstants
  <2> QED
    BY <1>2, <2>1, CallClasses
<1>15. PICK n2, sv2 : n2 = Told' /\ sv2 = Server'
  OBVIOUS
<1>16. HandleParts(page, toClient, Told, Server, Append(toClient, x), n2, sv2)
  BY <1>1, <1>2, <1>8, <1>10, <1>11, <1>13, <1>14, <1>15, AnswerParts
<1> QED
  BY <1>1, <1>6, <1>8, <1>10, <1>15, <1>16

LEMMA PartsGetinstructions ==
  ASSUME TagsInv, page.out # <<>>, Head(page.out) \in GetinstructionsCalls,
         Getinstructions(Head(page.out)[2]), UNCHANGED withStatic
  PROVE  /\ ServerType' /\ toClient' \in Seq(Msgs)
         /\ HandleParts(page, toClient, Told, Server, toClient', Told', Server')
<1>1. /\ page \in Pages /\ toClient \in Seq(Msgs) /\ ServerType
      /\ Told \in NameMaps /\ Server \in Servers /\ PageInv(page, toClient, Told, Server)
  BY InvParts
<1>2. PICK c, n : c = Head(page.out) /\ n = c[2] /\ c \in GetinstructionsCalls
  OBVIOUS
<1>3. n \in Clnums
  BY <1>2, CallKinds
<1> DEFINE D == {n, n + 1}
<1>4. PICK f : f = [a \in D |-> tags[a].comment]
  OBVIOUS
<1>5. PICK x : x = [kind |-> "instructions", arg |-> f]
  OBVIOUS
<1>6. /\ toClient' = Append(toClient, x) /\ UNCHANGED <<rnames, made>>
      /\ \/ NoAnalysis
         \/ \E fs \in SUBSET Code, ns \in SUBSET Targets : MakeFunction(fs, ns, fs \ functions)
  BY <1>2, <1>4, <1>5 DEF Getinstructions
<1>7. f \in AddrMaps(Texts \cup {None})
  <2>1. D \in SUBSET Addrs
    BY <1>3, TagsConstants
  <2>2. \A a \in Addrs : tags[a].comment \in Texts \cup {None}
    BY <1>1 DEF ServerType, TagMaps
  <2> HIDE DEF D
  <2>3. f \in [D -> Texts \cup {None}]
    BY <1>4, <2>1, <2>2
  <2> QED
    BY <2>1, <2>3, AddrMapsMade
<1>8. x \in InstructionsMsgs
  BY <1>5, <1>7 DEF InstructionsMsgs
<1>9. x \in Msgs /\ x \notin StaticMsgs /\ c \notin ChangesView
      /\ \A a \in Addrs : x \notin TellsOf(a) /\ c \notin AsksName(a)
  <2>1. 1 \in Addrs
    BY TagsConstants
  <2> QED
    BY <1>2, <1>8, <2>1, CallClasses, MessageClasses
<1>10. HandleParts(page, toClient, Told, Server, Append(toClient, x), Told, Server)
  BY <1>1, <1>2, <1>9, AnswerParts
<1>11. toClient' \in Seq(Msgs)
  BY <1>1, <1>6, <1>9
<1>12. CASE NoAnalysis
  <2>1. ServerType' /\ Told' = Told /\ Server' = Server
    BY <1>1, <1>6, <1>12 DEF NoAnalysis, ServerType, Told, Server
  <2> QED
    BY <1>6, <1>10, <1>11, <2>1
<1>13. ASSUME NEW fs \in SUBSET Code, NEW ns \in SUBSET Targets, MakeFunction(fs, ns, fs \ functions)
       PROVE  ServerType' /\ HandleParts(page, toClient, Told, Server, toClient', Told', Server')
  <2>1. fs \in SUBSET Addrs /\ ns \in SUBSET Addrs /\ fs \ functions \in SUBSET Addrs
    BY TagsAssumption
  <2>2. made' \in Nat /\ made' = made
    BY <1>1, <1>6 DEF ServerType
  <2>3. /\ Told' = Told /\ ServerType'
        /\ Server'.functions = Server.functions \cup fs
        /\ Server'.behind = Server.behind \cup (fs \ functions)
    BY <1>1, <1>13, <2>1, <2>2, MakeFunctionTold
  <2>4. Server'.on = Server.on /\ Server'.made = Server.made /\ Server.functions = functions
    BY <2>2 DEF Server
  <2>5. Server' \in Servers
    <3>1. (ServerType => Server \in Servers)'
      BY ServerTypes, PTL
    <3> QED
      BY <2>3, <3>1
  <2>6. PICK sv2 : sv2 = Server'
    OBVIOUS
  <2>7. Wanted(page.s, page.out, toClient, Server, page.static) =>
          Wanted(page.s, Tail(page.out), Append(toClient, x), sv2, page.static)
    <3>1. Wanted(page.s, page.out, toClient, Server, page.static) =>
            Wanted(page.s, Tail(page.out), Append(toClient, x), Server, page.static)
      BY <1>10 DEF HandleParts
    <3> QED
      BY <1>1, <2>3, <2>4, <2>5, <2>6, <3>1, WantedAnalysis
  <2> QED
    BY <1>6, <1>10, <2>3, <2>6, <2>7 DEF HandleParts
<1> QED
  BY <1>6, <1>11, <1>12, <1>13

LEMMA PartsGetstaticview ==
  ASSUME TagsInv, page.out # <<>>, Head(page.out) \in GetstaticviewCalls,
         Getstaticview(Head(page.out)[2], Head(page.out)[3]), UNCHANGED withStatic
  PROVE  /\ ServerType' /\ toClient' \in Seq(Msgs)
         /\ HandleParts(page, toClient, Told, Server, toClient', Told', Server')
<1>1. /\ page \in Pages /\ toClient \in Seq(Msgs) /\ ServerType
      /\ Told \in NameMaps /\ Server \in Servers /\ PageInv(page, toClient, Told, Server)
  BY InvParts
<1>2. PICK c, v, f : c = Head(page.out) /\ v = c[2] /\ f = c[3] /\ c \in GetstaticviewCalls
  OBVIOUS
<1>3. v \in Addrs /\ f \in BOOLEAN /\ c = <<"getstaticview", v, f>>
  BY <1>2, CallKinds
<1>4. UNCHANGED <<tags, rnames, functions, made>>
  BY DEF Getstaticview
<1>5. CASE withStatic
  <2>1. PICK x : x = [kind |-> "static", arg |-> [at |-> v, flat |-> f \/ v \notin functions, made |-> made]]
    OBVIOUS
  <2>2. toClient' = Append(toClient, x) /\ behind' = [behind EXCEPT !.views = @ \ {v}]
    BY <1>2, <1>5, <2>1 DEF Getstaticview
  <2>3. behind' \in [names : SUBSET Addrs, views : SUBSET Addrs] /\ behind'.names = behind.names
    BY <1>1, <2>2 DEF ServerType
  <2>4. ServerType' /\ Told' = Told
    BY <1>1, <1>4, <2>3 DEF ServerType, Told
  <2>5. Server'.on = Server.on /\ x = ViewMsg(v, f, Server')
    BY <1>4, <2>1 DEF Server, ViewMsg, ViewOf
  <2>6. x \in StaticMsgs
    BY <1>1, <1>3, <2>1 DEF StaticMsgs, Views, ServerType
  <2>7. x \in Msgs /\ \A a \in Addrs : x \notin TellsOf(a) /\ c \notin AsksName(a)
    <3>1. 1 \in Addrs
      BY TagsConstants
    <3> QED
      BY <1>2, <2>6, <3>1, CallClasses, MessageClasses
  <2>8. PICK sv2 : sv2 = Server'
    OBVIOUS
  <2>9. HandleParts(page, toClient, Told, Server, Append(toClient, x), Told, sv2)
    BY <1>1, <1>2, <1>3, <2>5, <2>7, <2>8, AnswerParts
  <2> QED
    BY <1>1, <2>2, <2>4, <2>7, <2>8, <2>9
<1>6. CASE ~withStatic
  <2>1. toClient' = toClient /\ behind' = behind
    BY <1>6 DEF Getstaticview
  <2>2. ServerType' /\ Told' = Told /\ Server' = Server /\ ~Server.on
    BY <1>1, <1>4, <1>6, <2>1 DEF ServerType, Told, Server
  <2>3. HandleParts(page, toClient, Told, Server, toClient, Told, Server)
    BY <1>1, <1>2, <2>2, MakeParts
  <2> QED
    BY <1>1, <2>1, <2>2, <2>3
<1> QED
  BY <1>5, <1>6

LEMMA PartsMakeAt ==
  ASSUME TagsInv, page.out # <<>>, Head(page.out) \in MakeCalls,
         MakeAt(Head(page.out)[2], Head(page.out)[3]), UNCHANGED withStatic
  PROVE  /\ ServerType' /\ toClient' \in Seq(Msgs)
         /\ HandleParts(page, toClient, Told, Server, toClient', Told', Server')
<1>1. /\ page \in Pages /\ toClient \in Seq(Msgs) /\ ServerType
      /\ Told \in NameMaps /\ Server \in Servers /\ PageInv(page, toClient, Told, Server)
  BY InvParts
<1>2. PICK at : at = Head(page.out)[3] /\ at \in Addrs
  BY CallKinds
<1>3. /\ toClient' = toClient /\ made' \in Nat
      /\ \/ NoAnalysis
         \/ \E fs \in SUBSET Code, ns \in SUBSET Targets : MakeFunction(fs \cup {at}, ns, {})
  <2>1. MakeAt(Head(page.out)[2], at)
    BY <1>2
  <2>2. toClient' = toClient /\ made' = IF withStatic THEN made + 1 ELSE made
    BY <2>1 DEF MakeAt
  <2>3. made \in Nat
    BY <1>1 DEF ServerType
  <2>4. NoAnalysis \/ \E fs \in SUBSET Code, ns \in SUBSET Targets : MakeFunction(fs \cup {at}, ns, {})
    BY <2>1, Zenon DEF MakeAt
  <2>5. made' \in Nat
    BY <2>2, <2>3
  <2> QED
    BY <2>2, <2>4, <2>5, Zenon
<1>4. Told' = Told /\ ServerType'
  <2>1. CASE NoAnalysis
    BY <1>1, <1>3, <2>1 DEF NoAnalysis, ServerType, Told
  <2>2. ASSUME NEW fs \in SUBSET Code, NEW ns \in SUBSET Targets, MakeFunction(fs \cup {at}, ns, {})
        PROVE  Told' = Told /\ ServerType'
    <3>1. fs \cup {at} \in SUBSET Addrs /\ ns \in SUBSET Addrs /\ {} \in SUBSET Addrs
      BY <1>2, TagsAssumption
    <3> QED
      BY <1>1, <1>3, <2>2, <3>1, MakeFunctionTold
  <2> QED
    BY <1>3, <2>1, <2>2
<1>5. Server'.on = Server.on
  BY DEF Server
<1>6. PICK sv2 : sv2 = Server'
  OBVIOUS
<1>7. HandleParts(page, toClient, Told, Server, toClient, Told, sv2)
  BY <1>1, <1>5, <1>6, MakeParts
<1> QED
  BY <1>1, <1>3, <1>4, <1>6, <1>7

LEMMA PartsSettags ==
  ASSUME TagsInv, page.out # <<>>, Head(page.out) \in SettagsCalls,
         Settags(Head(page.out)[2], Head(page.out)[3], Head(page.out)[4]), UNCHANGED withStatic
  PROVE  /\ ServerType' /\ toClient' \in Seq(Msgs)
         /\ HandleParts(page, toClient, Told, Server, toClient', Told', Server')
<1>1. /\ page \in Pages /\ toClient \in Seq(Msgs) /\ ServerType
      /\ Told \in NameMaps /\ Server \in Servers /\ PageInv(page, toClient, Told, Server)
  BY InvParts
<1>2. PICK b, k, t : b = Head(page.out)[2] /\ k = Head(page.out)[3] /\ t = Head(page.out)[4]
  OBVIOUS
<1>3. b \in Addrs /\ k \in {"name", "comment"} /\ t \in Texts
  BY <1>2, CallKinds
<1>4. UNCHANGED <<functions, made, toClient>>
  BY DEF Settags
<1>5. tags[b] \in [name : Names \cup {None}, comment : Texts \cup {None}] /\ DOMAIN tags = Addrs
  BY <1>1, <1>3 DEF ServerType, TagMaps
<1>6. CASE k = "name"
  <2>1. SetName(b, t) /\ behind' = [behind EXCEPT !.names = @ \ {b}]
    BY <1>2, <1>6 DEF Settags
  <2>2. PICK j \in 0..LastClnum : tags' = [tags EXCEPT ![b].name = <<t, j>>]
    BY <2>1 DEF SetName
  <2>3. <<t, j>> \in Names
    BY <1>3 DEF Names, UserNames
  <2>4. PICK n : n = <<t, j>> /\ n \in Names /\ n # None
    BY <2>3, TagsConstants
  <2>5. /\ tags' \in TagMaps
        /\ \A a \in Addrs : tags'[a].name = IF a = b THEN n ELSE tags[a].name
    <3>1. PICK g : g = [tags[b] EXCEPT !.name = n]
      OBVIOUS
    <3>2. g \in [name : Names \cup {None}, comment : Texts \cup {None}] /\ g.name = n
      BY <1>5, <2>4, <3>1
    <3>3. tags' = [tags EXCEPT ![b] = g]
      BY <1>3, <1>5, <2>2, <2>4, <3>1
    <3>4. tags \in TagMaps
      BY <1>1 DEF ServerType
    <3> QED
      BY <1>3, <3>2, <3>3, <3>4 DEF TagMaps
  <2>6. /\ behind' \in [names : SUBSET Addrs, views : SUBSET Addrs]
        /\ behind'.names = behind.names \ {b} /\ behind'.views = behind.views
    BY <1>1, <2>1 DEF ServerType
  <2>7. ServerType' /\ Server' = Server
    BY <1>1, <1>4, <2>5, <2>6 DEF ServerType, Server
  <2>8. Told' \in NameMaps
    <3>1. (ServerType => Told \in NameMaps)'
      BY ServerTypes, PTL
    <3> QED
      BY <2>7, <3>1
  <2>9. Told'[b] # None /\ \A a \in Addrs \ {b} : Told'[a] = Told[a]
    BY <1>3, <2>4, <2>5, <2>6 DEF Told
  <2>10. PICK n2 : n2 = Told'
    OBVIOUS
  <2>11. HandleParts(page, toClient, Told, Server, toClient, n2, Server)
    BY <1>1, <1>2, <1>3, <1>6, <2>8, <2>9, <2>10, SettagsParts
  <2> QED
    BY <1>1, <1>4, <2>7, <2>10, <2>11
<1>7. CASE k = "comment"
  <2>1. tags' = [tags EXCEPT ![b].comment = t] /\ behind' = behind
    BY <1>2, <1>7 DEF Settags
  <2>2. /\ tags' \in TagMaps
        /\ \A a \in Addrs : tags'[a].name = tags[a].name
    <3>1. PICK g : g = [tags[b] EXCEPT !.comment = t]
      OBVIOUS
    <3>2. g \in [name : Names \cup {None}, comment : Texts \cup {None}] /\ g.name = tags[b].name
      BY <1>3, <1>5, <3>1
    <3>3. tags' = [tags EXCEPT ![b] = g]
      BY <1>3, <1>5, <2>1, <3>1
    <3>4. tags \in TagMaps
      BY <1>1 DEF ServerType
    <3> QED
      BY <1>3, <3>2, <3>3, <3>4 DEF TagMaps
  <2>3. ServerType' /\ Server' = Server /\ Told' = Told
    BY <1>1, <1>4, <2>1, <2>2 DEF ServerType, Server, Told
  <2>4. HandleParts(page, toClient, Told, Server, toClient, Told, Server)
    BY <1>1, <1>2, <1>3, <1>7, SettagsParts
  <2> QED
    BY <1>1, <1>4, <2>3, <2>4
<1> QED
  BY <1>3, <1>6, <1>7

LEMMA InvHandleCall ==
  ASSUME TagsInv, HandleCall
  PROVE  TagsInv'
<1>1. page \in Pages /\ page.out # <<>>
  BY InvParts DEF HandleCall
<1>2. page.out \in Seq(Calls)
  BY <1>1 DEF Pages
<1>3. PICK c \in Calls : c = Head(page.out)
  BY <1>1, <1>2
<1>4. /\ CASE c[1] = "getnames" -> Getnames(c[2])
           [] c[1] = "getinstructions" -> Getinstructions(c[2])
           [] c[1] = "getstaticview" -> Getstaticview(c[2], c[3])
           [] c[1] = "make" -> MakeAt(c[2], c[3])
           [] c[1] = "settags" -> Settags(c[2], c[3], c[4])
      /\ page' = [page EXCEPT !.out = Tail(@)] /\ UNCHANGED withStatic
  BY <1>3 DEF HandleCall
<1>5. SUFFICES /\ ServerType' /\ toClient' \in Seq(Msgs)
               /\ HandleParts(page, toClient, Told, Server, toClient', Told', Server')
  BY <1>1, <1>4, <1>5, InvHandled
<1>6. CASE c \in GetnamesCalls
  <2>1. Getnames(c[2])
    BY <1>4, <1>6, CallKinds
  <2> QED
    BY <1>1, <1>3, <1>4, <1>6, <2>1, PartsGetnames
<1>7. CASE c \in GetinstructionsCalls
  <2>1. Getinstructions(c[2])
    BY <1>4, <1>7, CallKinds
  <2> QED
    BY <1>1, <1>3, <1>4, <1>7, <2>1, PartsGetinstructions
<1>8. CASE c \in GetstaticviewCalls
  <2>1. c[1] = "getstaticview"
    BY <1>8, CallKinds
  <2>2. Getstaticview(c[2], c[3])
    BY <1>4, <2>1
  <2> QED
    BY <1>1, <1>3, <1>4, <1>8, <2>2, PartsGetstaticview
<1>9. CASE c \in MakeCalls
  <2>1. c[1] = "make"
    BY <1>9, CallKinds
  <2>2. MakeAt(c[2], c[3])
    BY <1>4, <2>1
  <2> QED
    BY <1>1, <1>3, <1>4, <1>9, <2>2, PartsMakeAt
<1>10. CASE c \in SettagsCalls
  <2>1. c[1] = "settags"
    BY <1>10, CallKinds
  <2>2. Settags(c[2], c[3], c[4])
    BY <1>4, <2>1
  <2> QED
    BY <1>1, <1>3, <1>4, <1>10, <2>2, PartsSettags
<1> QED
  BY <1>3, <1>6, <1>7, <1>8, <1>9, <1>10 DEF Calls

\* What the analysis thread finds, nobody is told.
LEMMA InvAnalyse ==
  ASSUME TagsInv, Analyse
  PROVE  TagsInv'
<1>1. /\ page \in Pages /\ toClient \in Seq(Msgs) /\ ServerType
      /\ Told \in NameMaps /\ Server \in Servers /\ PageInv(page, toClient, Told, Server)
  BY InvParts
<1>2. PICK fs, ns : /\ fs \in SUBSET Addrs /\ ns \in SUBSET Addrs /\ fs \cap functions = {}
                    /\ MakeFunction(fs, ns, fs)
  <2>1. CASE \E a \in Code \ functions : MakeFunction({a}, {}, {a})
    <3>1. PICK a \in Code \ functions : MakeFunction({a}, {}, {a})
      BY <2>1
    <3>2. a \in Addrs /\ {a} \in SUBSET Addrs /\ {a} \cap functions = {}
      BY <3>1, TagsAssumption
    <3> QED
      BY <3>1, <3>2
  <2>2. CASE \E a \in Targets : MakeFunction({}, {a}, {})
    BY <2>2, TagsAssumption
  <2> QED
    BY <2>1, <2>2 DEF Analyse
<1>3. UNCHANGED <<page, withStatic, made, toClient>>
  BY DEF Analyse
<1>4. made' \in Nat
  BY <1>1, <1>3 DEF ServerType
<1>5. /\ Told' = Told /\ ServerType'
      /\ Server'.functions = Server.functions \cup fs /\ Server'.behind = Server.behind \cup fs
  BY <1>1, <1>2, <1>3, <1>4, MakeFunctionTold
<1>6. Server'.on = Server.on /\ Server'.made = Server.made /\ fs \ Server.functions = fs
  BY <1>2, <1>3 DEF Server
<1>7. Server' \in Servers
  <2>1. (ServerType => Server \in Servers)'
    BY ServerTypes, PTL
  <2> QED
    BY <1>5, <2>1
<1>8. PICK sv2 : sv2 = Server'
  OBVIOUS
<1>9. Wanted(page.s, page.out, toClient, Server, page.static) =>
        Wanted(page.s, page.out, toClient, sv2, page.static)
  BY <1>1, <1>5, <1>6, <1>7, <1>8, WantedAnalysis
<1>10. PageInv(page, toClient, Told, sv2)
  BY <1>1, <1>9 DEF PageInv
<1> QED
  BY <1>1, <1>3, <1>5, <1>8, <1>10 DEF TagsInv, TagsType

LEMMA InvDeliver ==
  ASSUME TagsInv, Deliver
  PROVE  TagsInv'
<1>1. /\ page \in Pages /\ toClient \in Seq(Msgs) /\ ServerType /\ Told \in NameMaps /\ Server \in Servers
      /\ PageInv(page, toClient, Told, Server) /\ toClient # <<>>
  BY InvParts DEF Deliver
<1>2. PICK h : h = Head(toClient)
  OBVIOUS
<1>3. h \in Msgs /\ Tail(toClient) \in Seq(Msgs)
  BY <1>1, <1>2, InTail
<1>4. /\ page' = CASE h.kind = "names" -> OnNames(page, h.arg)
                   [] h.kind = "instructions" -> OnInstructions(page, h.arg)
                   [] h.kind = "static" -> OnStatic(page, h.arg)
      /\ toClient' = Tail(toClient) /\ UNCHANGED serverVars
  BY <1>2 DEF Deliver
<1>5. SUFFICES page' \in Pages /\ PageInv(page', Tail(toClient), Told, Server)
  BY <1>1, <1>3, <1>4, ServerUnchanged DEF TagsInv, TagsType
<1>6. CASE h \in NamesMsgs
  <2>1. page' = OnNames(page, h.arg)
    BY <1>4, <1>6, MessageClasses
  <2> QED
    BY <1>1, <1>2, <1>6, <2>1, OnNamesKeeps
<1>7. CASE h \in InstructionsMsgs
  <2>1. page' = OnInstructions(page, h.arg)
    <3>1. h.kind = "instructions"
      BY <1>7 DEF InstructionsMsgs
    <3> QED
      BY <1>4, <3>1
  <2> QED
    BY <1>1, <1>2, <1>7, <2>1, OnInstructionsKeeps
<1>8. CASE h \in StaticMsgs
  <2>1. page' = OnStatic(page, h.arg)
    <3>1. h.kind = "static"
      BY <1>8 DEF StaticMsgs
    <3> QED
      BY <1>4, <3>1
  <2> QED
    BY <1>1, <1>2, <1>8, <2>1, OnStaticKeeps
<1> QED
  BY <1>3, <1>6, <1>7, <1>8 DEF Msgs

LEMMA InvProcessTimeout ==
  ASSUME TagsInv, ProcessTimeout
  PROVE  TagsInv'
<1>1. /\ page \in Pages /\ toClient \in Seq(Msgs) /\ ServerType
      /\ PageInv(page, toClient, Told, Server)
  BY InvParts
<1>2. PICK p, fxns : p = TakePend(page) /\ fxns = page.pend
  OBVIOUS
<1>3. /\ p \in Pages /\ p.s = page.s /\ p.out = page.out /\ p.cache = page.cache /\ p.rows = page.rows
      /\ p.static = page.static /\ fxns \in Seq(Fxns)
  <2>1. PICK q : q = page
    OBVIOUS
  <2>2. q \in Pages /\ p = TakePend(q) /\ fxns = q.pend
    BY <1>1, <1>2, <2>1
  <2>3. <<>> \in Seq(Fxns) /\ q.s \in States /\ fxns \in Seq(Fxns)
    BY <2>2 DEF Pages
  <2>4. PICK e \in Seq(Fxns) : e = <<>>
    BY <2>3
  <2>5. p = [q EXCEPT !.pend = e]
    BY <2>2, <2>4 DEF TakePend
  <2>6. /\ p \in Pages /\ p.s = q.s /\ p.out = q.out /\ p.cache = q.cache
        /\ p.rows = q.rows /\ p.static = q.static
    BY <2>2, <2>5 DEF Pages
  <2> QED
    BY <2>1, <2>3, <2>6
<1>4. page' = RunAll(p, fxns) /\ UNCHANGED <<serverVars, toClient>>
  BY <1>2 DEF ProcessTimeout
<1>5. /\ RunTo(p, RunAll(p, fxns), toClient, Told, Server)
      /\ Contains(fxns, "static") => Wanted(p.s, RunAll(p, fxns).out, toClient, Server, p.static)
  <2>1. NamesComing(p.rows, p.out, toClient, Told) /\ NamelessAll(p.cache, p.rows, toClient, Told)
    BY <1>1, <1>3 DEF PageInv
  <2> QED
    BY <1>3, <2>1, RunAllKeeps
<1>6. PageInv(page', toClient, Told, Server) /\ page' \in Pages
  <2>1. Contains(fxns, "static") \/ Wanted(p.s, p.out, toClient, Server, p.static)
    BY <1>1, <1>2, <1>3 DEF PageInv
  <2> QED
    BY <1>4, <1>5, <2>1 DEF RunTo, PageInv
<1> QED
  BY <1>1, <1>4, <1>6, ServerUnchanged DEF TagsInv, TagsType

\* A user event leaves the server alone.
LEMMA InvDo ==
  ASSUME TagsInv, NEW q, Do(q), q \in Pages, PageInv(q, toClient, Told, Server)
  PROVE  TagsInv'
  BY ServerUnchanged DEF TagsInv, TagsType, Do

LEMMA InvKeyDown ==
  ASSUME TagsInv, KeyDown
  PROVE  TagsInv'
<1>1. PICK p, a, msgs, nm, sv : p = page /\ a = page.s.iaddr /\ msgs = toClient /\ nm = Told /\ sv = Server
  OBVIOUS
<1>2. p \in Pages /\ PageInv(p, msgs, nm, sv)
  BY <1>1 DEF TagsInv, TagsType
<1>3. p.s \in States /\ p.out \in Seq(Calls)
  BY <1>2 DEF Pages
<1>4. p.s.flat \in BOOLEAN
  BY <1>3 DEF States
<1>5. a # None => a \in Addrs
  BY <1>1, <1>3 DEF States
<1>6. ASSUME NEW n \in Clnums, Do(Set(page, "clnum", n)) PROVE TagsInv'
  <2>1. PICK q : q = Set(p, "clnum", n)
    OBVIOUS
  <2>2. SetKeeps(p, q) /\ q.s = [p.s EXCEPT !.clnum = n]
    BY <1>2, <2>1, SetPage
  <2>3. q.s.iview = p.s.iview /\ q.s.flat = p.s.flat
    BY <1>3, <2>2 DEF States
  <2>4. q \in Pages /\ PageInv(q, msgs, nm, sv)
    BY <1>2, <2>2, <2>3, SetKeepsInv DEF SetKeeps
  <2> QED
    BY <1>1, <1>6, <2>1, <2>4, InvDo
<1>7. ASSUME a # None, NEW dat \in Texts, Do(RenameKey(page, a, dat)) PROVE TagsInv'
  <2>1. PICK c : c = <<"settags", a, "name", dat>>
    OBVIOUS
  <2>2. c \in SettagsCalls
    BY <1>5, <1>7, <2>1 DEF SettagsCalls
  <2>3. c \in Calls /\ c \notin ChangesView
    BY <1>5, <1>7, <2>2, CallKinds, CallClasses
  <2>4. PICK r : r = Emit(p, c)
    OBVIOUS
  <2>5. /\ r \in Pages /\ r.out = Append(p.out, c) /\ r.s = p.s /\ r.pend = p.pend
        /\ r.cache = p.cache /\ r.rows = p.rows /\ r.static = p.static
    BY <1>2, <2>3, <2>4, EmitPage
  <2>6. NamelessAll(r.cache, r.rows, msgs, nm)
    BY <1>2, <2>5 DEF PageInv
  <2>7. Contains(r.pend, "static") \/ Wanted(r.s, r.out, msgs, sv, r.static)
    <3>1. Wanted(p.s, p.out, msgs, sv, p.static) => Wanted(p.s, Append(p.out, c), msgs, sv, p.static)
      BY <1>3, <2>3, ViewSend DEF Wanted
    <3> QED
      BY <1>2, <2>5, <3>1 DEF PageInv
  <2>8. ReplaceNames(r) \in Pages
    BY <2>5, ReplacePage
  <2>9. PageInv(ReplaceNames(r), msgs, nm, sv)
    BY <2>5, <2>6, <2>7, ReplaceKeeps
  <2>10. RenameKey(p, a, dat) = ReplaceNames(r)
    BY <2>1, <2>4 DEF RenameKey
  <2> QED
    BY <1>1, <1>7, <2>8, <2>9, <2>10, InvDo
<1>8. ASSUME a # None, NEW dat \in Texts, Do(CommentKey(page, a, dat)) PROVE TagsInv'
  <2>1. PICK c : c = <<"settags", a, "comment", dat>>
    OBVIOUS
  <2>2. c \in SettagsCalls
    BY <1>5, <1>8, <2>1 DEF SettagsCalls
  <2>3. c \in Calls /\ c \notin ChangesView /\ \A b \in Addrs : c \notin RenamesIt(b)
    <3>1. c[3] = "comment"
      BY <2>1
    <3> QED
      BY <1>5, <1>8, <2>2, <3>1, CallKinds, CallClasses
  <2>4. PICK r : r = Emit(p, c)
    OBVIOUS
  <2>5. r \in Pages /\ PageInv(r, msgs, nm, sv)
    BY <1>2, <2>3, <2>4, EmitPage, EmitKeeps
  <2>6. CommentKey(p, a, dat) = IF a \in DOMAIN r.rows THEN [r EXCEPT !.rows[a].comment = dat] ELSE r
    BY <2>1, <2>4 DEF CommentKey
  <2>7. CASE a \in DOMAIN r.rows
    <3>1. r.rows \in AddrMaps(Rows) /\ DOMAIN r.rows \in SUBSET Addrs /\ \A b \in DOMAIN r.rows : r.rows[b] \in Rows
      BY <2>5, RowsOf
    <3>2. PICK rows, row : row = [r.rows[a] EXCEPT !.comment = dat] /\ rows = [r.rows EXCEPT ![a] = row]
      OBVIOUS
    <3>3. row \in Rows /\ row.text = r.rows[a].text
      BY <2>7, <3>1, <3>2 DEF Rows
    <3>4. r.rows \in [DOMAIN r.rows -> Rows]
      BY <3>1, AddrMapsMember
    <3>5. /\ rows \in [DOMAIN r.rows -> Rows]
          /\ \A b \in DOMAIN r.rows : rows[b].text = r.rows[b].text
      BY <2>7, <3>2, <3>3, <3>4
    <3>6. rows \in AddrMaps(Rows) /\ DOMAIN rows = DOMAIN r.rows
      BY <3>1, <3>5, AddrMapsMade
    <3>7. PICK q : q = PutRows(r, rows)
      OBVIOUS
    <3>8. /\ q \in Pages /\ q.s = r.s /\ q.pend = r.pend /\ q.out = r.out /\ q.cache = r.cache
          /\ q.static = r.static /\ q.rows = rows
      BY <2>5, <3>6, <3>7, PutRowsPage
    <3>9. PageInv(q, msgs, nm, sv)
      <4>1. NamesComing(rows, r.out, msgs, nm)
        BY <2>5, <3>5, <3>6 DEF PageInv, NamesComing
      <4>2. NamelessAll(r.cache, rows, msgs, nm)
        BY <2>5, <3>5, <3>6 DEF PageInv, NamelessAll, Nameless
      <4> QED
        BY <2>5, <3>8, <4>1, <4>2 DEF PageInv
    <3>10. CommentKey(p, a, dat) = q
      BY <2>5, <2>6, <2>7, <3>2, <3>7 DEF PutRows, Pages
    <3> QED
      BY <1>1, <1>8, <3>8, <3>9, <3>10, InvDo
  <2>8. CASE a \notin DOMAIN r.rows
    BY <1>1, <1>8, <2>5, <2>6, <2>8, InvDo
  <2> QED
    BY <2>7, <2>8
<1>9. ASSUME a # None, NEW kind \in Kinds, Do(MakeKey(page, kind)) PROVE TagsInv'
  <2>1. PICK c : c = <<"make", kind, a>>
    OBVIOUS
  <2>2. c \in MakeCalls
    BY <1>5, <1>9, <2>1 DEF MakeCalls
  <2>3. c \in Calls /\ \A b \in Addrs : c \notin RenamesIt(b)
    BY <2>2, CallKinds, CallClasses
  <2>4. PICK r : r = Emit(p, c)
    OBVIOUS
  <2>5. /\ r \in Pages /\ r.out = Append(p.out, c) /\ r.s = p.s
        /\ r.cache = p.cache /\ r.rows = p.rows
    BY <1>2, <2>3, <2>4, EmitPage
  <2>6. PICK q, f : f = p.s.flat /\ q = Set(r, "flat", f)
    OBVIOUS
  <2>7. f \in BOOLEAN
    BY <1>4, <2>6
  <2>8. SetKeeps(r, q) /\ Contains(q.pend, "static")
    BY <2>5, <2>6, <2>7, SetPage
  <2>9. q \in Pages /\ q.out = Append(p.out, c) /\ q.cache = p.cache /\ q.rows = p.rows
    BY <2>5, <2>8 DEF SetKeeps
  <2>10. NamesComing(q.rows, q.out, msgs, nm)
    <3>1. DOMAIN p.rows \in SUBSET Addrs
      BY <1>2, RowsOf
    <3>2. ASSUME NEW b \in DOMAIN p.rows
          PROVE  NameComing(b, Append(p.out, c), msgs, nm[b], p.rows[b].text)
      <4>1. PICK n, text : n = nm[b] /\ text = p.rows[b].text
        OBVIOUS
      <4>2. NameComing(b, p.out, msgs, n, text) /\ c \notin RenamesIt(b)
        BY <1>2, <2>3, <3>1, <4>1 DEF PageInv, NamesComing
      <4>3. NameComing(b, Append(p.out, c), msgs, n, text)
        BY <1>3, <2>3, <4>2, NameSend
      <4> QED
        BY <4>1, <4>3
    <3> QED
      BY <2>9, <3>2 DEF NamesComing
  <2>11. PageInv(q, msgs, nm, sv)
    BY <1>2, <2>8, <2>9, <2>10 DEF PageInv
  <2>12. MakeKey(p, kind) = q
    BY <1>1, <2>1, <2>4, <2>6 DEF MakeKey
  <2> QED
    BY <1>1, <1>9, <2>9, <2>11, <2>12, InvDo
<1>10. ASSUME Do(SpaceKey(page)) PROVE TagsInv'
  <2>1. PICK q, f : f = ~p.s.flat /\ q = Set(p, "flat", f)
    OBVIOUS
  <2>2. f \in BOOLEAN
    BY <1>4, <2>1
  <2>3. SetKeeps(p, q) /\ Contains(q.pend, "static")
    BY <1>2, <2>1, <2>2, SetPage
  <2>4. q \in Pages /\ PageInv(q, msgs, nm, sv)
    BY <1>2, <2>3, SetKeepsInv DEF SetKeeps
  <2>5. SpaceKey(p) = q
    BY <2>1 DEF SpaceKey
  <2> QED
    BY <1>1, <1>10, <2>4, <2>5, InvDo
<1> QED
  BY <1>1, <1>6, <1>7, <1>8, <1>9, <1>10 DEF KeyDown

LEMMA InvWheel ==
  ASSUME TagsInv, Wheel
  PROVE  TagsInv'
<1>1. PICK p, msgs, nm, sv : p = page /\ msgs = toClient /\ nm = Told /\ sv = Server
  OBVIOUS
<1>2. p \in Pages /\ PageInv(p, msgs, nm, sv)
  BY <1>1 DEF TagsInv, TagsType
<1>3. PICK d \in {-1, 1} : page.static.at + d \in Addrs /\ Do(FlatWheel(page, d))
  BY DEF Wheel
<1>4. PICK v, q : v = page.static.at + d /\ q = Set(p, "iview", v)
  OBVIOUS
<1>5. SetKeeps(p, q) /\ Contains(q.pend, "static")
  BY <1>2, <1>3, <1>4, SetPage
<1>6. q \in Pages /\ PageInv(q, msgs, nm, sv)
  BY <1>2, <1>5, SetKeepsInv DEF SetKeeps
<1>7. FlatWheel(page, d) = q
  BY <1>1, <1>4 DEF FlatWheel
<1> QED
  BY <1>1, <1>3, <1>6, <1>7, InvDo

LEMMA InvInit ==
  ASSUME Init
  PROVE  TagsInv
<1>1. PICK panels \in StaticPanels : page = TagPage(panels)
  BY DEF Init
<1>2. panels \in BOOLEAN
  BY TagsAssumption
<1>3. /\ tags = [a \in Addrs |-> [name |-> IF a \in Symbols THEN AutoName(a) ELSE None, comment |-> None]]
      /\ withStatic \in WithStatic /\ functions = {} /\ made = 0 /\ toClient = <<>>
      /\ behind = [names |-> {}, views |-> {}]
  BY DEF Init
<1> DEFINE s0 == [clnum |-> 1, iaddr |-> None, iview |-> None, flat |-> FALSE]
           d0 == [clnum |-> <<>>, iaddr |-> <<>>, iview |-> <<>>, flat |-> <<>>]
           d1 == [clnum |-> <<"instructions">>, iaddr |-> <<>>, iview |-> <<>>, flat |-> <<>>]
           c0 == [a \in Addrs |-> None]
           o0 == << <<"getinstructions", 1>> >>
           At(d, o) == [s |-> s0, deps |-> d, pend |-> <<>>, panels |-> panels,
                        out |-> o, cache |-> c0, rows |-> <<>>, static |-> None]
<1>4. FreshSession(s0).s = s0 /\ FreshSession(s0).deps = d0 /\ FreshSession(s0).pend = <<>>
  BY DEF FreshSession
<1>a. \A x : Append(<<>>, x) = <<x>>
  OBVIOUS
<1>5. Run(At(d0, <<>>), "instructions") = At(d0, o0)
  <2>1. Run(At(d0, <<>>), "instructions") = [At(d0, <<>>) EXCEPT !.out = Append(<<>>, <<"getinstructions", 1>>)]
    BY DEF Run, Emit
  <2>2. Append(<<>>, <<"getinstructions", 1>>) = o0
    BY <1>a
  <2> HIDE DEF s0, d0, c0, o0
  <2> QED
    BY <2>1, <2>2
<1>6. Autorun(At(d0, o0), "instructions", {"clnum"}) = At(d1, o0)
  <2> DEFINE d == [n \in DOMAIN d0 |-> IF n \in {"clnum"} THEN Append(d0[n], "instructions") ELSE d0[n]]
  <2>1. d = d1
    BY <1>a
  <2> HIDE DEF d, s0, d0, d1, c0, o0
  <2>2. At(d0, o0).deps = d0
    OBVIOUS
  <2>3. Autorun(At(d0, o0), "instructions", {"clnum"}) = [At(d0, o0) EXCEPT !.deps = d]
    BY <2>2 DEF Autorun, d
  <2> QED
    BY <2>1, <2>3
<1>7. Run(At(d1, o0), "static") = At(d1, o0)
  BY DEF Run, EmitGetstaticview
<1>8. Autorun(At(d1, o0), "static", {"iview", "flat"}) = At(Deps, o0)
  <2> DEFINE d == [n \in DOMAIN d1 |-> IF n \in {"iview", "flat"} THEN Append(d1[n], "static") ELSE d1[n]]
  <2>1. d = Deps
    BY <1>a DEF Deps
  <2> HIDE DEF d, s0, d1, c0, o0
  <2>2. At(d1, o0).deps = d1
    OBVIOUS
  <2>3. Autorun(At(d1, o0), "static", {"iview", "flat"}) = [At(d1, o0) EXCEPT !.deps = d]
    BY <2>2 DEF Autorun, d
  <2> QED
    BY <2>1, <2>3
<1>9. page = At(Deps, o0)
  BY <1>1, <1>4, <1>5, <1>6, <1>7, <1>8 DEF TagPage
<1>10. page \in Pages
  <2>1. s0 \in States
    BY TagsConstants DEF States
  <2>2. o0 \in Seq(Calls)
    <3>1. <<"getinstructions", 1>> \in Calls
      BY TagsConstants DEF Calls, GetinstructionsCalls
    <3> QED
      BY <3>1
  <2>3. c0 \in NameMaps
    BY DEF NameMaps
  <2>4. <<>> \in AddrMaps(Rows)
    <3>1. <<>> \in [{} -> Rows]
      OBVIOUS
    <3> QED
      BY <3>1, AddrMapsMade
  <2>5. <<>> \in Seq(Fxns)
    OBVIOUS
  <2> HIDE DEF s0, o0, c0
  <2> QED
    BY <1>2, <1>9, <2>1, <2>2, <2>3, <2>4, <2>5 DEF Pages
<1>11. PageInv(page, toClient, Told, Server)
  <2>1. page.rows = <<>> /\ page.cache = c0 /\ page.s.iview = None /\ DOMAIN page.rows = {}
    BY <1>9
  <2>2. NamesComing(page.rows, page.out, toClient, Told)
    BY <2>1 DEF NamesComing
  <2>3. NamelessAll(page.cache, page.rows, toClient, Told)
    BY <1>3, <2>1, InEmpty DEF NamelessAll, Nameless
  <2>4. Wanted(page.s, page.out, toClient, Server, page.static)
    BY <2>1 DEF Wanted
  <2> QED
    BY <2>2, <2>3, <2>4 DEF PageInv
<1>12. ServerType /\ toClient \in Seq(Msgs)
  <2>1. \A a \in Addrs : AutoName(a) \in Names
    BY DEF Names
  <2>2. tags \in TagMaps
    BY <1>3, <2>1 DEF TagMaps
  <2>3. withStatic \in BOOLEAN
    BY <1>3, TagsAssumption
  <2> QED
    BY <1>3, <2>2, <2>3 DEF ServerType
<1> QED
  BY <1>10, <1>11, <1>12 DEF TagsInv, TagsType

-----------------------------------------------------------------------------

\* The invariant holds in every state of every execution: what a row shows or
\* the static view shows is up to date, or is asked for or told behind
\* everything that would make it stale (replace_names, on_names, settags, make).
THEOREM TagsInductive == Spec => []TagsInv
<1>1. Init => TagsInv
  BY InvInit
<1>2. TagsInv /\ [Next]_vars => TagsInv'
  <2>1. ASSUME TagsInv, UNCHANGED vars PROVE TagsInv'
    <3>1. UNCHANGED <<page, serverVars, toClient>>
      BY <2>1 DEF vars
    <3> QED
      BY <2>1, <3>1, ServerUnchanged DEF TagsInv, TagsType
  <2> QED
    BY <2>1, InvHandleCall, InvAnalyse, InvDeliver, InvProcessTimeout, InvKeyDown, InvWheel DEF Next
<1> QED
  BY <1>1, <1>2, PTL DEF Spec

\* Once nothing is under way every row shows the name the server has, but for
\* names analysis gave since the page asked, and with --static the static view is
\* the selected one as it is after everything that was made, unless analysis
\* changed it since (replace_names and on_names of highlight.js, controls.js,
\* qira_webstatic.py, analyzer.py).
THEOREM TagsShownAlways == Spec => []TagsShown
<1>1. TagsInv => TagsShown
  <2> SUFFICES ASSUME TagsInv, Quiet PROVE TagsShown
    BY DEF TagsShown, NamesSettled, StaticFresh
  <2>1. page.pend = <<>> /\ page.out = <<>> /\ toClient = <<>>
    BY DEF Quiet
  <2>2. PageInv(page, toClient, Told, Server)
    BY DEF TagsInv
  <2>3. page \in Pages /\ DOMAIN page.rows \in SUBSET Addrs
    BY InvParts, RowsOf
  <2>4. ASSUME NEW a \in DOMAIN page.rows
        PROVE  page.rows[a].text = IF a \in behind.names THEN None ELSE tags[a].name
    <3>1. NameComing(a, <<>>, <<>>, Told[a], page.rows[a].text)
      BY <2>1, <2>2 DEF PageInv, NamesComing
    <3>2. page.rows[a].text = Told[a]
      BY <3>1, InEmpty DEF NameComing, Coming
    <3> QED
      BY <2>3, <3>2 DEF Told
  <2>5. ~Contains(page.pend, "static")
    BY <2>1 DEF Contains
  <2>6. ASSUME withStatic, page.s.iview \notin behind.views \cup {None}
        PROVE  page.static = [at |-> page.s.iview, flat |-> page.s.flat \/ page.s.iview \notin functions,
                              made |-> made]
    <3>1. Server.on /\ Server.behind = behind.views /\ Server.functions = functions /\ Server.made = made
      BY <2>6 DEF Server
    <3>2. ViewComing(page.s.iview, page.s.flat, Server, <<>>, <<>>, page.static)
      BY <2>1, <2>2, <2>5, <2>6, <3>1 DEF PageInv, Wanted
    <3>3. page.static = ViewOf(page.s.iview, page.s.flat, Server)
      BY <2>6, <3>1, <3>2, InEmpty DEF ViewComing
    <3> QED
      BY <3>1, <3>3 DEF ViewOf
  <2> QED
    BY <2>4, <2>6 DEF TagsShown, NamesSettled, StaticFresh
<1> QED
  BY <1>1, TagsInductive, PTL
=============================================================================
