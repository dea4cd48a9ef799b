------------------------------- MODULE Session -------------------------------
(***************************************************************************)
(* The reactive session of the web page                                    *)
(* (web/client/compatibility/fakemeteor.js).                               *)
(*                                                                         *)
(* A page is a record with at least the fields                             *)
(*   s     Session._session: a value for every session variable            *)
(*   deps  Deps._deps: for every variable the autoruns that run when it is *)
(*         set, in the order of their registration                         *)
(*   pend  Session._pend: the autoruns that wait for the timeout of 0 ms   *)
(* and every function of the page is an operator from pages to pages.      *)
(***************************************************************************)
EXTENDS Integers, FiniteSets, SequencesExt

CONSTANT None      \* JavaScript's undefined

\* A page on which no autorun is registered.
FreshSession(defaults) ==
  [s |-> defaults, deps |-> [n \in DOMAIN defaults |-> <<>>], pend |-> <<>>]

\* An autorun that already waits is not queued again.
Enqueue(pend, fxn) == IF Contains(pend, fxn) THEN pend ELSE Append(pend, fxn)
EnqueueAll(pend, fxns) == FoldLeft(Enqueue, pend, fxns)

\* Session.set: every autorun that depends on the variable is queued, once,
\* and also when the value stays the same.
MutantSetOneWaiter(p, name, data) ==
  [p EXCEPT !.s[name] = data, !.pend = IF @ = <<>> THEN p.deps[name] ELSE @]
Set(p, name, data) ==
  [p EXCEPT !.s[name] = data,
            !.pend = EnqueueAll(@, p.deps[name])]

SetDefault(p, name, data) == IF p.s[name] = None THEN Set(p, name, data) ELSE p

\* Deps.autorun: what the first run has read (Session.get without donttrack)
\* is what the autorun depends on for good. q is the page as that run left it.
Autorun(q, fxn, tracked) ==
  [q EXCEPT !.deps = [n \in DOMAIN q.deps |->
                        IF n \in tracked THEN Append(q.deps[n], fxn) ELSE q.deps[n]]]

\* Session._process takes the queue before it runs the autoruns of it one after
\* the other: what they set waits for the next timeout.
TakePend(p) == [p EXCEPT !.pend = <<>>]
==============================================================================
