------------------------------ MODULE WebClient ------------------------------
(***************************************************************************)
(* The web page of qira: the functions, handlers and autoruns of           *)
(* web/client that keep the position in the trace and the views of it      *)
(* (compatibility/base.js, controls.js, idump.js, regmem.js, vtimeline.js, *)
(* ida.js).                                                                *)
(*                                                                         *)
(* A page is the record of module Session with the fields                  *)
(*   scenario  which of the Scenarios is looked at; it never changes       *)
(*   out     requests emitted on the stream that the server has yet to see *)
(*   loaded  how many of the Scripts have run                              *)
(*   view    what idump, hexdump, regviewer and datachanges show (the      *)
(*           request whose answer was rendered last), what the control     *)
(*           inputs show and what is highlighted                           *)
(*   flags, vt, drawn, overlays, pictures  the vtimeline: its flags, the   *)
(*           forks that have a box, the flags and the pictures drawn       *)
(*   down    clnum of the last mouse button press on the vtimeline         *)
(*   hist, hpos, timers, back  the browser's history, whose first entry is *)
(*           the page as it was loaded, and the timeouts that will push to *)
(*           it                                                            *)
(*   ws, onopen, ida, lost  the socket to IDA: its state, the address its  *)
(*           onopen sends, the address IDA got last, whether a later       *)
(*           address was thrown away                                       *)
(* Values are clnums, fork numbers and addresses as numbers; a data address *)
(* counts rows of 16 bytes.  HTML, colours and pixels are left out.        *)
(***************************************************************************)
EXTENDS Session, FiniteSetsExt

CONSTANTS
  Scenarios,     \* what a run looks at: from the names of scenarios to records
                 \*   followed   the autoruns that are followed; the others never register
                 \*   history    bound: entries the browser's history keeps (0: none)
                 \* and the fields that module ClientServer adds
  MaxTimers,     \* bound: outstanding timeouts of the history autorun
  Plain          \* addresses of instructions in whose text no address is named

\* A page that keeps a history runs the autorun that records it.
ASSUME HistoryAssumption ==
  /\ MaxTimers \in Nat \ {0}
  /\ \A name \in DOMAIN Scenarios :
       /\ Scenarios[name].history \in Nat
       /\ Scenarios[name].history > 0 => "history" \in Scenarios[name].followed

\* The session variables, undefined at first.
NoSession ==
  [n \in {"forknum", "clnum", "iaddr", "iview", "daddr", "dview", "dirtyiaddr",
          "max_clnum", "cview", "pmaps"} |-> None]

NoPage(scenario) ==
  [s |-> NoSession, deps |-> [n \in DOMAIN NoSession |-> <<>>], pend |-> <<>>,
   scenario |-> scenario, out |-> <<>>, loaded |-> 0,
   view |-> [k \in {"instructions", "memory", "registers", "clnum", "controls", "highlight"} |-> None],
   flags |-> {}, vt |-> {}, drawn |-> {}, overlays |-> {}, pictures |-> {},
   down |-> -1, hist |-> <<None>>, hpos |-> 1, timers |-> 0, back |-> FALSE,
   ws |-> "none", onopen |-> None, ida |-> None, lost |-> FALSE]

\* stream.emit: undefined and NaN arrive as None, and socket_method drops a
\* call with such an argument.
Emit(p, call) == IF None \in ToSet(call) THEN p ELSE [p EXCEPT !.out = Append(@, call)]

\* Arithmetic on undefined is NaN.
Plus(v, d) == IF v = None THEN None ELSE v + d

-----------------------------------------------------------------------------
(* compatibility/base.js *)

\* The keys of push_history in their order; sview is module Strace's.
HistoryKeys == <<"cview", "dview", "iview", "clnum", "daddr", "iaddr">>

HistoryEntry(p) == [k \in ToSet(HistoryKeys) |-> p.s[k]]

\* push_history: pushState drops the entries in front of the current one and
\* the browser the oldest.
PushHistory(p) ==
  LET h == Append(SubSeq(p.hist, 1, p.hpos), HistoryEntry(p))
      n == Min({Len(h), Scenarios[p.scenario].history})
  IN  IF p.hpos > 0 /\ p.hist[p.hpos] = HistoryEntry(p) THEN p
      ELSE [p EXCEPT !.hist = SubSeq(h, Len(h) - n + 1, Len(h)), !.hpos = n]

\* onpopstate: an array of the entry is never == to the one in the session, and
\* the first entry has no state to restore.
RestoreKey(p, k) ==
  LET e == p.hist[p.hpos]
  IN  IF p.s[k] # e[k] \/ (k = "cview" /\ e[k] # None) THEN Set(p, k, e[k]) ELSE p
RestoreAll(p, keys) == FoldLeft(RestoreKey, p, keys)
OnPopState(p) ==
  LET q == [p EXCEPT !.hpos = @ - 1, !.back = FALSE]
  IN  IF q.hist[q.hpos] = None THEN q ELSE RestoreAll(q, HistoryKeys)

\* The history autorun: historyTimeout is never assigned, so no timeout is
\* ever cleared.
MutantHistoryOnce(p) == [p EXCEPT !.timers = IF p.hist = <<None>> /\ @ < MaxTimers THEN @ + 1 ELSE @]
HistoryAutorun(p) == [p EXCEPT !.timers = IF @ < MaxTimers THEN @ + 1 ELSE @]

\* get_data_type throws without pmaps, and with it the handler that renders.
Typed(p) == p.s.pmaps # None

\* update_dview shows the address in the third row.
UpdateDview(p, addr) == PushHistory(Set(Set(p, "daddr", addr), "dview", addr - 2))

UpdateIaddr(p, addr, dirty) ==
  LET q == Set(p, "iaddr", addr)
  IN  PushHistory(IF dirty THEN Set(Set(q, "dirtyiaddr", TRUE), "iview", addr) ELSE q)

AbsMaxclnum(p) ==
  LET m == p.s.max_clnum
  IN  IF m = None \/ m = <<>> THEN None ELSE Max({m[f][2] : f \in DOMAIN m})

ZoomOutMax(p) ==
  IF AbsMaxclnum(p) = None THEN p
  ELSE PushHistory(Set(p, "cview", <<0, AbsMaxclnum(p)>>))

MutantUpdateOldRead(p, msg) ==
  LET q == SetDefault(ZoomOutMax(Set(p, "max_clnum", msg)), "forknum", 0)
      f == q.s.forknum
      r == SetDefault(q, "clnum", msg[f][2])
      old == r.s.max_clnum
  IN  IF f \notin DOMAIN msg THEN q
      ELSE IF old[f][2] = r.s.clnum THEN Set(r, "clnum", msg[f][2]) ELSE r
UpdateMaxclnum(p, msg) ==
  LET old == p.s.max_clnum
      a == Set(p, "max_clnum", msg)
      b == IF a.s.cview = None \/ a.s.cview[1] = 0 THEN ZoomOutMax(a) ELSE a
      q == SetDefault(b, "forknum", 0)
      f == q.s.forknum
      r == SetDefault(q, "clnum", msg[f][2])
      known == old # None /\ f \in DOMAIN old
  IN  IF f \notin DOMAIN msg THEN q
      ELSE IF known /\ old[f][2] = r.s.clnum THEN Set(r, "clnum", msg[f][2]) ELSE r

-----------------------------------------------------------------------------
(* controls.js *)

OnSetiaddr(p, iaddr) == UpdateIaddr(p, iaddr, TRUE)

OnSetclnum(p, arg) == PushHistory(Set(Set(p, "forknum", arg[1]), "clnum", arg[2]))

MutantKeepGoneFork(p) ==
  LET m == p.s.max_clnum
  IN  IF m = None \/ m = <<>> \/ p.s.clnum # None THEN p
      ELSE Set(Set(p, "forknum", Min(DOMAIN m)), "clnum", m[Min(DOMAIN m)][2])
SelectFirstFork(p) ==
  LET m == p.s.max_clnum
  IN  IF m = None \/ m = <<>> \/ p.s.forknum \in DOMAIN m THEN p
      ELSE Set(Set(p, "forknum", Min(DOMAIN m)), "clnum", m[Min(DOMAIN m)][2])

\* left and right: Object.keys lists the forks in ascending order, and
\* indexOf is -1 for a fork that is gone.
OtherForks(p, next) ==
  LET fs == DOMAIN p.s.max_clnum
      f == p.s.forknum
      later == {g \in fs : f \notin fs \/ g > f}
      earlier == {g \in fs : f \in fs /\ g < f}
  IN  IF next THEN {g \in later : \A h \in later : g <= h}
              ELSE {g \in earlier : \A h \in earlier : g >= h}

\* The values in the control inputs, and what the views highlight.
UpdateControls(p) ==
  [p EXCEPT !.view.controls = <<p.s.clnum, p.s.forknum, p.s.iaddr, p.s.daddr>>]

Rehighlight(p) == [p EXCEPT !.view.highlight = <<p.s.clnum, p.s.iaddr, p.s.daddr>>]

-----------------------------------------------------------------------------
(* vtimeline.js *)

GetCscale(p) == IF p.s.cview = None THEN None ELSE p.s.cview[2] - p.s.cview[1]

\* update_picture clears the picture first; for a fork that is gone and still
\* has its box it then throws.
Drawable(p, f) ==
  /\ f \in p.overlays /\ p.s.cview # None /\ p.s.max_clnum # None
  /\ f \in DOMAIN p.s.max_clnum
UpdatePicture(p, f) ==
  IF f \notin p.vt THEN p
  ELSE [p EXCEPT !.pictures = IF Drawable(p, f) THEN @ \cup {f} ELSE @ \ {f}]

OnSetpicture(p, f) == UpdatePicture([p EXCEPT !.overlays = @ \cup {f}], f)

\* A flag is a type at a clnum of a fork.
AddFlags(p, type, at) == [p EXCEPT !.flags = @ \cup {<<type, a[1], a[2]>> : a \in at}]
MutantRemoveHere(p, type) ==
  [p EXCEPT !.flags = {g \in @ : g[1] # type \/ g[2] # p.s.forknum}]
RemoveFlags(p, type) == [p EXCEPT !.flags = {g \in @ : g[1] # type}]

\* The ends of the view that lie strictly inside a fork.
ZoomFlags(p) ==
  LET m == p.s.max_clnum
  IN  {a \in (DOMAIN m) \X ToSet(p.s.cview) : m[a[1]][1] < a[2] /\ a[2] < m[a[1]][2]}

\* A box for every fork, with its picture.
RedrawVtimelines(p) ==
  LET q == AddFlags(RemoveFlags([p EXCEPT !.vt = DOMAIN p.s.max_clnum], "zoom"), "zoom", ZoomFlags(p))
  IN  [q EXCEPT !.pictures = {f \in q.vt : Drawable(q, f)}]

\* The flags that are drawn: those of forks there are, within the view.
Visible(p) ==
  {<<g[2], g[3]>> : g \in {h \in p.flags : /\ h[2] \in DOMAIN p.s.max_clnum
                                           /\ h[3] >= p.s.cview[1] /\ h[3] <= p.s.cview[2]}}

RedrawFlags(p) ==
  IF p.s.cview = None \/ p.s.max_clnum = None THEN p
  ELSE LET q == RedrawVtimelines(p) IN [q EXCEPT !.drawn = Visible(q)]

Ascending(ns) == SetToSortSeq(ns, LAMBDA a, b : a < b)

DeleteAllForks(p) ==
  LET fs == Ascending(IF p.s.max_clnum = None THEN {} ELSE DOMAIN p.s.max_clnum)
  IN  RedrawFlags([p EXCEPT !.out = @ \o [i \in DOMAIN fs |-> <<"deletefork", fs[i]>>]])

\* The clnums j and k step through: the current one and those of the fork that
\* have a flag of the types.
FlaggedClnums(p, data) ==
  LET types == IF data THEN {"daddrr", "daddrw"} ELSE {"ciaddr"}
  IN  {p.s.clnum} \cup {g[3] : g \in {h \in p.flags : h[1] \in types /\ h[2] = p.s.forknum}}

GoToFlag(p, next, data) ==
  LET cls == FlaggedClnums(p, data)
      after == {n \in cls : n > p.s.clnum}
      before == {n \in cls : n < p.s.clnum}
  IN  PushHistory(IF next /\ after # {} THEN Set(p, "clnum", Min(after))
                  ELSE IF ~next /\ before # {} THEN Set(p, "clnum", Max(before)) ELSE p)

BoundsFlags(p) ==
  LET m == p.s.max_clnum
  IN  IF m = None THEN p
      ELSE RedrawFlags(AddFlags(RemoveFlags(p, "bounds"), "bounds",
                                {<<f, m[f][i]>> : f \in DOMAIN m, i \in 1..2}))

ChangeFlag(p) ==
  LET q == RemoveFlags(p, "change")
  IN  RedrawFlags(IF None \in {p.s.forknum, p.s.clnum} THEN q
                  ELSE AddFlags(q, "change", {<<p.s.forknum, p.s.clnum>>}))

EmitGetchangesI(p) ==
  Emit(p, <<"getchanges", p.s.iaddr, "I", p.s.cview, GetCscale(p), p.s.clnum>>)

EmitGetchangesD(p) ==
  LET Ask(q, type) == Emit(q, <<"getchanges", p.s.daddr, type, p.s.cview, GetCscale(p), p.s.clnum>>)
  IN  Ask(Ask(p, "L"), "S")

FlagType == [I |-> "ciaddr", L |-> "daddrr", S |-> "daddrw"]

\* The clnum of the answer that is nearest; the answer is in ascending order,
\* so the lower one of two.
MutantClosestDiff(ns, n) == Min({IF a > n THEN a - n ELSE n - a : a \in ns})
Closest(ns, n) ==
  LET Dist(a) == IF a > n THEN a - n ELSE n - a
  IN  Min({a \in ns : \A b \in ns : Dist(a) <= Dist(b)})

\* on_changes: an address to be followed (dirtyiaddr) moves the position to the
\* nearest clnum that executes it; then the flags are those of the answer.
MutantFollowAlways(p, msg) ==
  LET here == {a[2] : a \in {b \in msg.at : b[1] = p.s.forknum}}
      follow == msg.type = "I" /\ p.s.forknum \in msg.forks /\ p.s.clnum \notin here
      q == IF ~follow \/ here = {} THEN p ELSE Set(p, "clnum", Closest(here, p.s.clnum))
  IN  RedrawFlags(AddFlags(RemoveFlags(q, FlagType[msg.type]), FlagType[msg.type], msg.at))
OnChanges(p, msg) ==
  LET here == {a[2] : a \in {b \in msg.at : b[1] = p.s.forknum}}
      follow == /\ msg.type = "I" /\ p.s.forknum \in msg.forks
                /\ p.s.clnum \notin here /\ p.s.dirtyiaddr = TRUE
      moved == IF here = {} THEN p ELSE Set(p, "clnum", Closest(here, p.s.clnum))
      q == IF follow THEN Set(moved, "dirtyiaddr", FALSE) ELSE p
  IN  RedrawFlags(AddFlags(RemoveFlags(q, FlagType[msg.type]), FlagType[msg.type], msg.at))

\* The wheel on the vtimeline moves the view by what 50 pixels are.
WheelVtimeline(p, d, move) ==
  LET v == p.s.cview
      max == AbsMaxclnum(p)
      up == IF v[1] - move < 0 THEN v[1] ELSE move
      dn == IF v[2] + move > max THEN max - v[2] ELSE move
  IN  IF max = None \/ v = None THEN p
      ELSE Set(p, "cview", IF d < 0 THEN <<v[1] - up, v[2] - up>> ELSE <<v[1] + dn, v[2] + dn>>)

\* get_clnum: a pixel of the vtimeline, which reaches below the view, as a clnum.
PointedClnums(p) ==
  IF p.s.cview = None \/ AbsMaxclnum(p) = None THEN {}
  ELSE {Min({n, AbsMaxclnum(p)}) :
          n \in p.s.cview[1]..(p.s.cview[2] + (IF GetCscale(p) = 0 THEN 0 ELSE 1))}

\* mouseup: a click sets the position, a drag the view.  down is never reset.
MouseUp(p, up, f) ==
  IF p.down = -1 \/ (p.down = up /\ f = -1) THEN p
  ELSE PushHistory(
         IF p.down = up THEN Set(Set(p, "clnum", up), "forknum", f)
         ELSE Set(p, "cview", IF p.down < up THEN <<p.down, up>> ELSE <<up, p.down>>))

-----------------------------------------------------------------------------
(* idump.js and regmem.js *)

EmitGetinstructions(p) == Emit(p, <<"getinstructions", p.s.forknum, p.s.clnum>>)

\* The hexdump is emptied when there is no dview.
EmitGetmemory(p) ==
  IF p.s.dview = None THEN [p EXCEPT !.view.memory = None]
  ELSE Emit(p, <<"getmemory", p.s.forknum, Plus(p.s.clnum, -1), p.s.dview>>)

EmitGetregisters(p) == Emit(p, <<"getregisters", p.s.forknum, Plus(p.s.clnum, -1)>>)

EmitGetclnum(p) == Emit(p, <<"getclnum", p.s.forknum, p.s.clnum>>)

\* on_instructions: the row of the current clnum sets iaddr and iview, whatever
\* the answer was asked for.  Without pmaps the first row that names an address
\* throws, after it was looked at (highlight_instruction).
MutantInstructionsRetry(p, msg) ==
  LET q == IF p.s.clnum \in DOMAIN msg.rows
             THEN Set(Set(p, "iaddr", msg.rows[p.s.clnum]), "iview", msg.rows[p.s.clnum])
             ELSE EmitGetinstructions(p)
  IN  [q EXCEPT !.view.instructions = msg]
MutantInstructionsFirst(p, msg) ==
  LET n == IF DOMAIN msg.rows = {} THEN 0 ELSE Min(DOMAIN msg.rows)
      q == IF DOMAIN msg.rows = {} THEN p
           ELSE Set(Set(p, "iaddr", msg.rows[n]), "iview", msg.rows[n])
  IN  [q EXCEPT !.view.instructions = msg]
OnInstructions(p, msg) ==
  LET n == p.s.clnum
      throwing == {i \in DOMAIN msg.rows : ~Typed(p) /\ msg.rows[i] \notin Plain}
      q == IF n \in DOMAIN msg.rows /\ \A i \in throwing : n <= i
             THEN Set(Set(p, "iaddr", msg.rows[n]), "iview", msg.rows[n]) ELSE p
  IN  IF throwing = {} THEN Rehighlight([q EXCEPT !.view.instructions = msg]) ELSE q

\* on_memory, on_registers, on_clnum: the answer is rendered as it comes.
OnMemory(p, at) == IF Typed(p) THEN Rehighlight([p EXCEPT !.view.memory = at]) ELSE p
OnRegisters(p, at) == IF Typed(p) THEN Rehighlight([p EXCEPT !.view.registers = at]) ELSE p
OnClnum(p, at) == IF Typed(p) THEN [p EXCEPT !.view.clnum = at] ELSE p

-----------------------------------------------------------------------------
(* ida.js *)

\* do_ida_socket: send throws while the socket is connecting and the exception
\* is swallowed; onopen sends the address it was created for.
DoIdaSocket(p) ==
  IF p.ws \in {"none", "closed"} THEN [p EXCEPT !.ws = "connecting", !.onopen = p.s.iaddr, !.lost = FALSE]
  ELSE IF p.ws = "open" THEN [p EXCEPT !.ida = p.s.iaddr, !.lost = FALSE]
  ELSE [p EXCEPT !.lost = TRUE]

MutantOpenSilent(p) == [p EXCEPT !.ws = "open"]
OnOpen(p) == [p EXCEPT !.ws = "open", !.ida = p.onopen]

OnIdaIaddr(p, addr) == Set(Set(p, "iaddr", addr), "dirtyiaddr", TRUE)

-----------------------------------------------------------------------------
(* The scripts ui.js loads once the panels exist, in their order. *)

Run(p, fxn) ==
  CASE fxn = "history" -> HistoryAutorun(p)
    [] fxn = "rehighlight" -> Rehighlight(p)
    [] fxn = "firstfork" -> SelectFirstFork(p)
    [] fxn = "controls" -> UpdateControls(p)
    [] fxn = "ida" -> DoIdaSocket(p)
    [] fxn = "instructions" -> EmitGetinstructions(p)
    [] fxn = "memory" -> EmitGetmemory(p)
    [] fxn = "registers" -> EmitGetregisters(p)
    [] fxn = "clnum" -> EmitGetclnum(p)
    [] fxn = "bounds" -> BoundsFlags(p)
    [] fxn = "change" -> ChangeFlag(p)
    [] fxn = "ichanges" -> EmitGetchangesI(p)
    [] fxn = "dchanges" -> EmitGetchangesD(p)

RunAll(p, fxns) == FoldLeft(Run, p, fxns)

\* What a first run reads; redraw_flags returns early without a view, and
\* "firstfork" reads forknum with donttrack.
Tracked(p, fxn) ==
  LET redraw == IF p.s.cview = None THEN {"cview"} ELSE {"cview", "max_clnum"}
  IN  CASE fxn = "history" -> {"cview", "dview", "clnum", "daddr"}
        [] fxn = "rehighlight" -> {"clnum", "iaddr", "daddr"}
        [] fxn = "firstfork" -> {"max_clnum"}
        [] fxn = "controls" -> {"clnum", "forknum", "iaddr", "daddr"}
        [] fxn = "ida" -> {"iaddr"}
        [] fxn \in {"instructions", "registers", "clnum"} -> {"forknum", "clnum"}
        [] fxn = "memory" -> {"forknum", "daddr", "dview", "clnum"}
        [] fxn = "bounds" -> {"max_clnum"} \cup (IF p.s.max_clnum = None THEN {} ELSE redraw)
        [] fxn = "change" -> {"forknum", "clnum"} \cup redraw
        [] fxn = "ichanges" -> {"max_clnum", "cview", "iaddr", "clnum"}
        [] fxn = "dchanges" -> {"max_clnum", "cview", "daddr", "clnum"}

\* A script: the autoruns it starts and the messages it listens to.
Scripts ==
  <<[autoruns |-> <<"history", "rehighlight">>, on |-> {}],      \* base.js, highlight.js
    [autoruns |-> <<"firstfork", "controls">>, on |-> {"setiaddr", "setclnum"}],          \* controls.js
    [autoruns |-> <<"ida">>, on |-> {}],                                      \* ida.js
    [autoruns |-> <<"instructions">>, on |-> {"instructions"}],               \* idump.js
    [autoruns |-> <<"memory", "registers", "clnum">>,                         \* regmem.js
     on |-> {"maxclnum", "pmaps", "memory", "registers", "clnum"}],
    [autoruns |-> <<"bounds", "change", "ichanges", "dchanges">>,             \* vtimeline.js
     on |-> {"setpicture", "changes"}]>>

Start(p, fxn) ==
  IF fxn \in Scenarios[p.scenario].followed THEN Autorun(Run(p, fxn), fxn, Tracked(p, fxn)) ELSE p
StartAll(p, fxns) == FoldLeft(Start, p, fxns)

LoadScript(p) == StartAll([p EXCEPT !.loaded = @ + 1], Scripts[p.loaded + 1].autoruns)

AllLoaded(p) == p.loaded = Len(Scripts)

\* The page after the first n scripts.
LoadNext(p, i) == LoadScript(p)
LoadAll(p, scripts) == FoldLeft(LoadNext, p, scripts)
PageAfter(scenario, n) == LoadAll(NoPage(scenario), [i \in 1..n |-> i])

\* A message of the stream: one nobody listens to yet is lost.
OnMessage(p, msg) ==
  IF msg.kind \notin UNION {Scripts[i].on : i \in 1..p.loaded} THEN p
  ELSE
  CASE msg.kind = "setiaddr" -> OnSetiaddr(p, msg.arg)
    [] msg.kind = "setclnum" -> OnSetclnum(p, msg.arg)
    [] msg.kind = "instructions" -> OnInstructions(p, msg.arg)
    [] msg.kind = "maxclnum" -> UpdateMaxclnum(p, msg.arg)
    [] msg.kind = "pmaps" -> Set(p, "pmaps", TRUE)
    [] msg.kind = "memory" -> OnMemory(p, msg.arg)
    [] msg.kind = "registers" -> OnRegisters(p, msg.arg)
    [] msg.kind = "clnum" -> OnClnum(p, msg.arg)
    [] msg.kind = "changes" -> OnChanges(p, msg.arg)
    [] msg.kind = "setpicture" -> OnSetpicture(p, msg.arg)
==============================================================================
