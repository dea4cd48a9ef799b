------------------------------ MODULE ClientTags ------------------------------
(***************************************************************************)
(* Names, comments and the static view: the page's side (replace_names and *)
(* on_names of compatibility/highlight.js, the tag keys of controls.js,    *)
(* static/static.js, the rows of idump.js), the server's                   *)
(* (middleware/qira_webstatic.py, the names of static2), and the analysis  *)
(* that finds functions and names things (static2/builtin/analyzer.py).    *)
(* The stream keeps requests and answers in order.                         *)
(*                                                                         *)
(* Addresses are numbers.  At clnum n idump shows the addresses n and n+1, *)
(* and n is the instruction there.  A page is the record of module Session *)
(* with the fields                                                         *)
(*   panels  whether the static panels are on it                           *)
(*   out     requests on their way to the server                           *)
(*   cache   names_cache                                                   *)
(*   rows    the addresses idump shows, with the text of their element     *)
(*           (None: the address itself) and their comment                  *)
(*   static  what on_flat or on_function was given last                    *)
(***************************************************************************)
EXTENDS Session, FiniteSetsExt

CONSTANTS
  Texts,         \* names and comments the user enters
  LastClnum,     \* the last clnum of the trace
  Symbols,       \* the addresses the loader named
  Code,          \* the addresses analysis puts in functions by itself
  Targets,       \* the addresses calls and jumps go to
  WithStatic,    \* values of qira_config.WITH_STATIC (--static): FALSE by default
  StaticPanels,  \* whether the panels "Flat" and "Control Flow" may be on the
                 \* page: {FALSE} is this ui.js, which has them commented out
  MaxEvents      \* bound: user events

VARIABLES
  page,          \* the web page
  withStatic,    \* qira_config.WITH_STATIC
  tags,          \* program.static: name and comment of every address
  rnames,        \* static.rnames: who was given a name first
  functions,          \* program.static: the addresses with a function
  made,          \* how many requests to make something were handled
  toClient,      \* answers on their way to the page
  behind,        \* history: what analysis found and the page was not told:
                 \* names, and functions that change what a view shows
  events         \* history: number of user events

serverVars == <<withStatic, tags, rnames, functions, made, behind>>
vars == <<page, serverVars, toClient, events>>

Clnums == 1..LastClnum
Addrs == 1..(LastClnum + 1)

\* A name is what the user entered with a number of underscores behind it, or
\* the one a symbol or the analysis has for the address (sub_, loc_), which no
\* user enters.
UserNames == Texts \X (0..LastClnum)
AutoName(a) == <<"auto", a>>
Names == UserNames \cup {AutoName(a) : a \in Addrs}

\* What the user enters is something: prompt's undefined returns early.
ASSUME TagsAssumption ==
  /\ LastClnum \in Nat \ {0} /\ Symbols \cup Code \cup Targets \subseteq Addrs
  /\ None \notin Texts /\ None \notin Names /\ "auto" \notin Texts
  /\ WithStatic \subseteq BOOLEAN /\ StaticPanels \subseteq BOOLEAN

Emit(p, call) == [p EXCEPT !.out = Append(@, call)]

-----------------------------------------------------------------------------
(* The page *)

\* replace_names: the names that are known at once, then the server is asked.
MutantReplaceCached(p) ==
  LET unknown == {a \in DOMAIN p.rows : p.cache[a] = None}
      named == [a \in DOMAIN p.rows |->
                  IF a \in unknown THEN p.rows[a] ELSE [p.rows[a] EXCEPT !.text = p.cache[a]]]
  IN  Emit([p EXCEPT !.rows = named], <<"getnames", unknown>>)
ReplaceNames(p) ==
  LET named == [a \in DOMAIN p.rows |->
                  IF p.cache[a] = None THEN p.rows[a] ELSE [p.rows[a] EXCEPT !.text = p.cache[a]]]
  IN  Emit([p EXCEPT !.rows = named], <<"getnames", DOMAIN p.rows>>)

Cached(cache, names) == [a \in Addrs |-> IF a \in DOMAIN names THEN names[a] ELSE cache[a]]

MutantOnNamesReplaces(p, names) == ReplaceNames([p EXCEPT !.cache = Cached(@, names)])
OnNames(p, names) ==
  [p EXCEPT !.cache = Cached(@, names),
            !.rows = [a \in DOMAIN @ |->
                        IF a \in DOMAIN names THEN [@[a] EXCEPT !.text = names[a]] ELSE @[a]]]

OnInstructions(p, msg) ==
  LET q == IF p.s.clnum \in DOMAIN msg
             THEN Set(Set(p, "iaddr", p.s.clnum), "iview", p.s.clnum) ELSE p
  IN  ReplaceNames([q EXCEPT !.rows = [a \in DOMAIN msg |-> [text |-> None, comment |-> msg[a]]]])

\* on_flat and on_function; without its panel render throws in the latter.
OnStatic(p, msg) ==
  LET q == [p EXCEPT !.static = msg]
  IN  IF msg.flat \/ p.panels THEN ReplaceNames(q) ELSE q

EmitGetstaticview(p) ==
  IF p.s.iview = None THEN p ELSE Emit(p, <<"getstaticview", p.s.iview, p.s.flat>>)

Run(p, fxn) ==
  IF fxn = "static" THEN EmitGetstaticview(p) ELSE Emit(p, <<"getinstructions", p.s.clnum>>)

RunAll(p, fxns) == FoldLeft(Run, p, fxns)

TagPage(panels) ==
  LET session == FreshSession([clnum |-> 1, iaddr |-> None, iview |-> None, flat |-> FALSE])
      fresh == [s |-> session.s, deps |-> session.deps, pend |-> session.pend, panels |-> panels,
                out |-> <<>>, cache |-> [a \in Addrs |-> None], rows |-> <<>>, static |-> None]
      first == Autorun(Run(fresh, "instructions"), "instructions", {"clnum"})
  IN  Autorun(Run(first, "static"), "static", {"iview", "flat"})

\* n: rename; the names are asked for behind the new one.
RenameKey(p, addr, dat) == ReplaceNames(Emit(p, <<"settags", addr, "name", dat>>))

\* ;: the comment is shown at once.
CommentKey(p, addr, dat) ==
  LET q == Emit(p, <<"settags", addr, "comment", dat>>)
  IN  IF addr \in DOMAIN q.rows THEN [q EXCEPT !.rows[addr].comment = dat] ELSE q

\* p (kind "function"), c, a, d, u: setting flat to what it is asks for the view
\* again.
MakeKey(p, kind) == Set(Emit(p, <<"make", kind, p.s.iaddr>>), "flat", p.s.flat)

SpaceKey(p) == Set(p, "flat", ~p.s.flat)

\* The wheel on the flat view takes its neighbour from what is shown.
FlatWheel(p, d) == Set(p, "iview", p.static.at + d)

-----------------------------------------------------------------------------
(* The server *)

Kinds == {"function", "data"}

\* make_function_at: instructions fs are in functions now, and what is called or
\* jumped to, ns, has a name, unless it had one (_auto_update_name).
MakeFunction(fs, ns, untold) ==
  LET unnamed == {a \in ns : tags[a].name = None}
  IN  /\ functions' = functions \cup fs
      /\ tags' = [a \in Addrs |->
                    IF a \in unnamed THEN [tags[a] EXCEPT !.name = AutoName(a)] ELSE tags[a]]
      /\ behind' = [names |-> behind.names \cup unnamed, views |-> behind.views \cup untold]

\* A call that has no handler, or whose handler finds nothing to do.
NoAnalysis == UNCHANGED <<tags, functions, behind>>

Getnames(as) ==
  /\ toClient' = Append(toClient, [kind |-> "names",
                   arg |-> [a \in {b \in as : tags[b].name # None} |-> tags[a].name]])
  /\ behind' = [behind EXCEPT !.names = @ \ as]
  /\ UNCHANGED <<tags, rnames, functions, made>>

\* With WITH_STATIC the targets of calls that are listed are made functions
\* (display_call_args).
Getinstructions(n) ==
  /\ toClient' = Append(toClient, [kind |-> "instructions",
                   arg |-> [a \in {n, n + 1} |-> tags[a].comment]])
  /\ \/ NoAnalysis
     \/ withStatic /\ \E fs \in SUBSET Code, ns \in SUBSET Targets : MakeFunction(fs, ns, fs \ functions)
  /\ UNCHANGED <<rnames, made>>

\* An address in no function is shown flat.
Getstaticview(v, flat) ==
  /\ IF withStatic
       THEN /\ toClient' = Append(toClient, [kind |-> "static",
                    arg |-> [at |-> v, flat |-> flat \/ v \notin functions, made |-> made]])
            /\ behind' = [behind EXCEPT !.views = @ \ {v}]
       ELSE UNCHANGED <<toClient, behind>>
  /\ UNCHANGED <<tags, rnames, functions, made>>

MakeAt(kind, at) ==
  /\ made' = IF withStatic THEN made + 1 ELSE made
  /\ IF withStatic /\ kind = "function" /\ at \notin functions
       THEN \E fs \in SUBSET Code, ns \in SUBSET Targets : MakeFunction(fs \cup {at}, ns, {})
       ELSE NoAnalysis
  /\ UNCHANGED <<rnames, toClient>>

\* static.set_name: a name another address was given gets an underscore more.
SetName(at, text) ==
  \E k \in 0..LastClnum :
    LET free(j) == rnames[<<text, j>>] \in {None, at}
    IN  /\ free(k) /\ \A j \in 0..(k - 1) : ~free(j)
        /\ rnames' = [rnames EXCEPT ![<<text, k>>] = at]
        /\ tags' = [tags EXCEPT ![at].name = <<text, k>>]

Settags(at, tag, text) ==
  /\ \/ /\ tag = "name" /\ SetName(at, text)
        /\ behind' = [behind EXCEPT !.names = @ \ {at}]
     \/ /\ tag = "comment" /\ tags' = [tags EXCEPT ![at].comment = text]
        /\ UNCHANGED <<rnames, behind>>
  /\ UNCHANGED <<functions, made, toClient>>

HandleCall ==
  /\ page.out # <<>>
  /\ LET call == Head(page.out)
     IN  CASE call[1] = "getnames" -> Getnames(call[2])
           [] call[1] = "getinstructions" -> Getinstructions(call[2])
           [] call[1] = "getstaticview" -> Getstaticview(call[2], call[3])
           [] call[1] = "make" -> MakeAt(call[2], call[3])
           [] call[1] = "settags" -> Settags(call[2], call[3], call[4])
  /\ page' = [page EXCEPT !.out = Tail(@)]
  /\ UNCHANGED <<withStatic, events>>

\* The thread of static.process goes on finding functions.
Analyse ==
  /\ withStatic
  /\ \/ \E a \in Code \ functions : MakeFunction({a}, {}, {a})
     \/ \E a \in Targets : tags[a].name = None /\ MakeFunction({}, {a}, {})
  /\ UNCHANGED <<page, withStatic, rnames, made, toClient, events>>

-----------------------------------------------------------------------------

Init ==
  /\ \E panels \in StaticPanels : page = TagPage(panels)
  /\ withStatic \in WithStatic
  /\ tags = [a \in Addrs |->
               [name |-> IF a \in Symbols THEN AutoName(a) ELSE None, comment |-> None]]
  /\ rnames = [n \in UserNames |-> None]
  /\ functions = {}
  /\ made = 0
  /\ toClient = <<>>
  /\ behind = [names |-> {}, views |-> {}]
  /\ events = 0

Deliver ==
  /\ toClient # <<>>
  /\ LET msg == Head(toClient)
     IN  page' = CASE msg.kind = "names" -> OnNames(page, msg.arg)
                   [] msg.kind = "instructions" -> OnInstructions(page, msg.arg)
                   [] msg.kind = "static" -> OnStatic(page, msg.arg)
  /\ toClient' = Tail(toClient)
  /\ UNCHANGED <<serverVars, events>>

ProcessTimeout ==
  /\ page.pend # <<>>
  /\ page' = RunAll(TakePend(page), page.pend)
  /\ UNCHANGED <<serverVars, toClient, events>>

Do(q) ==
  /\ events < MaxEvents
  /\ page' = q
  /\ events' = events + 1
  /\ UNCHANGED <<serverVars, toClient>>

\* Keys that need an address do nothing without one.
KeyDown ==
  \/ \E n \in Clnums \ {page.s.clnum} : Do(Set(page, "clnum", n))
  \/ page.s.iaddr # None /\ \E dat \in Texts : Do(RenameKey(page, page.s.iaddr, dat))
  \/ page.s.iaddr # None /\ \E dat \in Texts : Do(CommentKey(page, page.s.iaddr, dat))
  \/ page.s.iaddr # None /\ \E kind \in Kinds : Do(MakeKey(page, kind))
  \/ Do(SpaceKey(page))

Wheel ==
  /\ page.panels /\ page.static # None /\ page.static.flat
  /\ \E d \in {-1, 1} : page.static.at + d \in Addrs /\ Do(FlatWheel(page, d))

Next == HandleCall \/ Analyse \/ Deliver \/ ProcessTimeout \/ KeyDown \/ Wheel

Spec == Init /\ [][Next]_vars

\* The server and the browser go on.
FairSpec == Spec /\ WF_vars(HandleCall \/ Deliver \/ ProcessTimeout)

-----------------------------------------------------------------------------
(* Properties *)

Quiet == page.pend = <<>> /\ page.out = <<>> /\ toClient = <<>>

\* Once nothing is under way every address that is shown has the name the server
\* has for it, though views are drawn from a cache and from answers about
\* earlier names and names grow underscores (replace_names, on_names, settags,
\* set_name).  A name analysis gave since the page last asked is not shown.
NamesSettled ==
  Quiet => \A a \in DOMAIN page.rows :
    page.rows[a].text = IF a \in behind.names THEN None ELSE tags[a].name

\* With WITH_STATIC the static view given last is the selected one, with
\* everything that was made and the functions known then (the re-set of flat
\* behind the requests of controls.js), unless analysis put the address in a
\* function since.
StaticFresh ==
  Quiet /\ withStatic /\ page.s.iview \notin behind.views \cup {None} =>
    page.static = [at |-> page.s.iview, flat |-> page.s.flat \/ page.s.iview \notin functions,
                   made |-> made]

\* What is shown of the tags is what the server has.
TagsShown == NamesSettled /\ StaticFresh

\* Asking for names, which answers do, comes to an end.
TagsSettle == <>[]Quiet
==============================================================================
