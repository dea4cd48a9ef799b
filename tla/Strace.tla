-------------------------------- MODULE Strace --------------------------------
(***************************************************************************)
(* The strace panel of the web page (web/client/strace.js): the system     *)
(* calls of every fork as the server last sent them, and sview, the window *)
(* of them that is drawn.                                                  *)
(*                                                                         *)
(* A page is the record of module Session with the fields                  *)
(*   traces  for every fork the clnums of its system calls, or None        *)
(*   shown   the system calls that are drawn                               *)
(* A system call is the clnum it was made at.                              *)
(***************************************************************************)
EXTENDS Session, FiniteSetsExt

CONSTANTS
  Forks,         \* the forks there are
  WindowSize,    \* system calls that are drawn: 10 in the code
  Before,        \* system calls kept in front of the position: 3 in the code
  MaxCalls,      \* bound: system calls of a fork
  CallGap,       \* clnums from a system call to the next
  MaxClnum       \* bound: clnums

ASSUME WindowAssumption == WindowSize \in Nat /\ Before \in 1..(WindowSize - 1)
ASSUME ForksAssumption ==
  /\ Forks # {} /\ Forks \subseteq Nat /\ None \notin Forks
  /\ CallGap \in Nat /\ MaxClnum \in Nat

VARIABLES
  page,          \* the web page
  made,          \* Trace.strace of the middleware, per fork
  toClient,      \* the strace messages on their way to the page
  followed       \* history: sview was last set for the position, and for the
                 \* system calls that the page knows now

vars == <<page, made, toClient, followed>>

\* slice(sview[0], sview[1])
Slice(t, sview) == SubSeq(t, sview[1] + 1, Min({sview[2], Len(t)}))

RedrawStrace(p) ==
  LET t == p.traces[p.s.forknum]
  IN  IF p.s.forknum = None \/ t = None THEN p ELSE [p EXCEPT !.shown = Slice(t, p.s.sview)]

\* The first call after a clnum, counted from 0.
CallsUpTo(t, clnum) == Cardinality({i \in DOMAIN t : t[i] <= clnum})

\* The window for i calls up to the position, out of n.
MutantWindowAfter(i, n) ==
  LET min == i
      off == IF min + WindowSize > n THEN min + WindowSize - n ELSE 0
      fix == IF min - off < 0 THEN off - min ELSE 0
  IN  <<min - off + fix, min + WindowSize - off + fix>>
Window(i, n) ==
  LET min == IF i > Before THEN i - Before ELSE 0
      off == IF min + WindowSize > n THEN min + WindowSize - n ELSE 0
      fix == IF min - off < 0 THEN off - min ELSE 0
  IN  <<min - off + fix, min + WindowSize - off + fix>>

UpdateSview(p) ==
  LET t == p.traces[p.s.forknum]
  IN  IF p.s.forknum = None \/ t = None THEN p
      ELSE Set(p, "sview", Window(CallsUpTo(t, p.s.clnum), Len(t)))

Run(p, fxn) == IF fxn = "redraw" THEN RedrawStrace(p) ELSE UpdateSview(p)
RunAll(p, fxns) == FoldLeft(Run, p, fxns)

\* The script: the default window and the two autoruns, which both return early.
StraceScript(defaults) ==
  LET session == FreshSession(defaults)
      fresh == [s |-> session.s, deps |-> session.deps, pend |-> session.pend,
                traces |-> [f \in Forks \cup {None} |-> None], shown |-> <<>>]
      p == SetDefault(fresh, "sview", <<0, WindowSize>>)
      drawn == Autorun(Run(p, "redraw"), "redraw", {"forknum", "sview"})
  IN  Autorun(Run(drawn, "update"), "update", {"forknum", "clnum"})

\* on_strace: the window stays.
MutantOnStraceSilent(p, f, dat) == [p EXCEPT !.traces[f] = dat]
OnStrace(p, f, dat) == RedrawStrace([p EXCEPT !.traces[f] = dat])

WheelStrace(p, d) ==
  LET sv == p.s.sview
      t == p.traces[p.s.forknum]
  IN  IF p.s.forknum = None \/ t = None THEN p
      ELSE IF (d > 0 /\ sv[2] < Len(t)) \/ (d < 0 /\ sv[1] > 0)
        THEN Set(p, "sview", <<sv[1] + d, sv[2] + d>>) ELSE p

Init ==
  /\ page = StraceScript([sview |-> None, forknum |-> None, clnum |-> None])
  /\ made = [f \in Forks |-> <<>>]
  /\ toClient = <<>>
  /\ followed = FALSE

\* The traced program makes a system call every CallGap clnums.
Syscall(f) ==
  /\ Len(made[f]) < MaxCalls
  /\ made' = [made EXCEPT ![f] = Append(@, CallGap * (Len(@) + 1))]
  /\ UNCHANGED <<page, toClient, followed>>

\* mwpoll has read the file again.
PushStrace(f) ==
  /\ toClient = <<>> /\ page.traces[f] # made[f]
  /\ toClient' = <<<<f, made[f]>>>>
  /\ UNCHANGED <<page, made, followed>>

Deliver ==
  /\ toClient # <<>>
  /\ page' = OnStrace(page, Head(toClient)[1], Head(toClient)[2])
  /\ followed' = (followed /\ Head(toClient)[1] # page.s.forknum)
  /\ toClient' = Tail(toClient)
  /\ UNCHANGED made

ProcessTimeout ==
  /\ page.pend # <<>>
  /\ page' = RunAll(TakePend(page), page.pend)
  /\ followed' = (followed \/ Contains(page.pend, "update"))
  /\ UNCHANGED <<made, toClient>>

\* maxclnum selects the first position; the user others.
Ready == page.s.forknum # None /\ page.s.clnum # None

First ==
  /\ ~Ready
  /\ page' = Set(Set(page, "forknum", Min(Forks)), "clnum", MaxClnum)
  /\ UNCHANGED <<made, toClient, followed>>

SelectFork(f) ==
  /\ Ready
  /\ page' = Set(page, "forknum", f)
  /\ UNCHANGED <<made, toClient, followed>>

SelectClnum(n) ==
  /\ Ready
  /\ page' = Set(page, "clnum", n)
  /\ UNCHANGED <<made, toClient, followed>>

Wheel(d) ==
  /\ Ready
  /\ page' = WheelStrace(page, d)
  /\ followed' = FALSE
  /\ UNCHANGED <<made, toClient>>

Next ==
  \/ First \/ Deliver \/ ProcessTimeout
  \/ \E f \in Forks : Syscall(f) \/ PushStrace(f) \/ SelectFork(f)
  \/ \E n \in 0..MaxClnum : SelectClnum(n)
  \/ \E d \in {-1, 1} : Wheel(d)

Spec == Init /\ [][Next]_vars

-----------------------------------------------------------------------------

\* The calls of the selected fork that the page knows.
Known == IF page.s.forknum = None THEN None ELSE page.traces[page.s.forknum]

\* The window has its size and starts in the list, however the position, the
\* wheel and forks of other lengths move it (the autorun "updating sview" and
\* the wheel handler).
SviewIsWindow == page.s.sview[1] >= 0 /\ page.s.sview[2] = page.s.sview[1] + WindowSize

\* When no autorun waits, the panel shows the window of the selected fork's
\* calls as they came last, whichever of the two autoruns and the handler of the
\* messages wrote it (redraw_strace).
SliceShown == page.pend = <<>> /\ Known # None => page.shown = Slice(Known, page.s.sview)

\* What the panel shows is a window of the selected fork's calls.
StraceShown == SviewIsWindow /\ SliceShown

\* When the window was last set for the position, the last call made up to it is
\* drawn, and so is the next one (the autorun "updating sview").
PositionShown ==
  page.pend = <<>> /\ followed /\ Known # None =>
    LET i == CallsUpTo(Known, page.s.clnum)
    IN  \A j \in {i, i + 1} \cap DOMAIN Known : Contains(page.shown, Known[j])
==============================================================================
