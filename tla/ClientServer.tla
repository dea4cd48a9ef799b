----------------------------- MODULE ClientServer -----------------------------
(***************************************************************************)
(* One web page (module WebClient) connected to the middleware.            *)
(*                                                                         *)
(* The handlers of one client run one after the other and the stream keeps *)
(* their answers in order; the poller's pushes come in between             *)
(* (middleware/qira_webserver.py).  On the page everything runs in one     *)
(* event loop: a message, a user event, a timeout or a script that has     *)
(* arrived is one step, in any order.                                      *)
(***************************************************************************)
EXTENDS WebClient

CONSTANTS
  Access,       \* Access[type][fork][clnum]: the address executed ("I"),
                \* loaded ("L") and stored ("S") at a clnum
  Above, Below  \* rows of idump before and from the clnum on: 8 and 16 in the code

\* The page has loaded some of its scripts when it connects.
ASSUME LoadedAssumption == \A name \in DOMAIN Scenarios : Scenarios[name].loaded \in 0..Len(Scripts)

AllForks == UNION {Scenarios[name].forks : name \in DOMAIN Scenarios}

\* Fork numbers are naturals, a trace has its first and its last clnum, and
\* controls.js always registers its first autorun.
ASSUME TracesAssumption ==
  /\ AllForks \subseteq Nat
  /\ \A name \in DOMAIN Scenarios :
       LET t == Scenarios[name].traces
       IN  /\ t \in [DOMAIN t -> Nat \X Nat] /\ DOMAIN t \subseteq Scenarios[name].forks
           /\ "firstfork" \in Scenarios[name].followed

\* Undefined is none of the values a session variable is compared with.
ASSUME UndefinedAssumption ==
  /\ None \notin Nat /\ None # TRUE
  /\ \A fs \in SUBSET AllForks : None \notin [fs -> Nat \X Nat]

VARIABLES
  page,         \* the web page
  traces,       \* program.traces with the clnums of their databases
  stale,        \* some trace's did_update is set
  gone,         \* history: the numbers of the runs that were deleted
  toClient,     \* messages of the stream on their way to the page
  last,         \* history: the last event that set the position or the address
  events        \* history: number of user events

serverVars == <<traces, stale, gone>>
vars == <<page, serverVars, toClient, last, events>>

\* The scenario of the page, with
Scenario == Scenarios[page.scenario]
Forks == Scenario.forks          \* fork numbers of the traces there may be
Events == Scenario.events        \* the kinds of events that happen
MaxClnum == Scenario.clnums      \* bound: clnums of a trace
MaxEvents == Scenario.steps      \* bound: user events
Followed == Scenario.followed

Addresses == UNION {{Access["I"][f][n] : n \in 0..MaxClnum} : f \in Forks}
DataAddresses == UNION {{Access[t][f][n] : n \in 0..MaxClnum} : t \in {"L", "S"}, f \in Forks}

Message(kind, arg) == [kind |-> kind, arg |-> arg]

\* push_updates, as far as the page's state is concerned.
PushUpdates(t) == <<Message("pmaps", None), Message("maxclnum", t)>>

\* Some scripts have run when the client connects to a server with some traces,
\* functions from forks to <<minclnum, maxclnum>>.
Init ==
  /\ \E name \in DOMAIN Scenarios : page = PageAfter(name, Scenarios[name].loaded)
  /\ traces = Scenario.traces
  /\ stale = FALSE
  /\ gone = {}
  /\ toClient = PushUpdates(traces)
  /\ last = [kind |-> "none", clnum |-> None, fork |-> None, iaddr |-> None,
             dirty |-> None, quiet |-> FALSE]
  /\ events = 0

-----------------------------------------------------------------------------
(* The middleware *)

\* What touches an address within a window of clnums, the end excluded.
Touches(type, addr, view) ==
  {a \in (DOMAIN traces) \X (0..MaxClnum) :
     /\ a[2] >= view[1] /\ a[2] < view[2]
     /\ a[2] >= traces[a[1]][1] /\ a[2] <= traces[a[1]][2]
     /\ Access[type][a[1]][a[2]] = addr}

\* getinstructions: the rows around a clnum that the trace has.
Rows(f, n) ==
  LET before == {i \in traces[f][1]..traces[f][2] : i < n}
      after == {i \in traces[f][1]..traces[f][2] : i >= n /\ i <= n + Below}
      top == {i \in before : Cardinality({j \in before : j > i}) < Above}
      ret == {i \in after : Cardinality({j \in after : j < i}) < Below}
  IN  [i \in top \cup ret |-> Access["I"][f][i]]

\* The messages with which a call may be answered; a handler that throws, as it
\* does for a fork that is gone, answers nothing.
Answers(call) ==
  LET name == call[1]
      Of(kind, arg) == {<<Message(kind, arg)>>}
  IN  CASE name = "getchanges" ->
             Of("changes", [type |-> call[3], forks |-> DOMAIN traces,
                            at |-> Touches(call[3], call[2], call[4])])
        [] name = "gotoname" -> {<<>>} \cup UNION {Of("setiaddr", a) : a \in Addresses}
        [] OTHER ->
             IF call[2] \notin DOMAIN traces THEN {<<>>}
             ELSE
             CASE name = "getinstructions" ->
                    Of("instructions", [fork |-> call[2], at |-> call[3], rows |-> Rows(call[2], call[3])])
               [] name = "getmemory" -> Of("memory", Tail(call))
               [] name = "getregisters" -> Of("registers", Tail(call))
               [] name = "getclnum" -> Of("clnum", Tail(call))
               [] name = "navigatefunction" ->
                    {<<>>} \cup UNION {Of("setclnum", <<call[2], n>>) : n \in traces[call[2]][1]..traces[call[2]][2]}

HandleCall ==
  /\ page.out # <<>>
  /\ Head(page.out)[1] # "deletefork"
  /\ \E ans \in Answers(Head(page.out)) : toClient' = toClient \o ans
  /\ page' = [page EXCEPT !.out = Tail(@)]
  /\ UNCHANGED <<serverVars, last, events>>

\* deletefork throws for a fork that is gone.
DeleteFork ==
  LET f == Head(page.out)[2]
      left == [g \in (DOMAIN traces) \ {f} |-> traces[g]]
  IN  /\ page.out # <<>>
      /\ Head(page.out)[1] = "deletefork"
      /\ page' = [page EXCEPT !.out = Tail(@)]
      /\ traces' = left
      /\ gone' = gone \cup {f}
      /\ toClient' = IF f \in DOMAIN traces THEN toClient \o PushUpdates(left) ELSE toClient
      /\ UNCHANGED <<stale, last, events>>

\* The tracer logs, the database ingests.
Grow(f) ==
  /\ "grow" \in Events /\ traces[f][2] < MaxClnum
  /\ traces' = [traces EXCEPT ![f][2] = @ + 1]
  /\ stale' = TRUE
  /\ UNCHANGED <<page, gone, toClient, last, events>>

\* A run takes the first number that is free (get_next_id), be it that of a run
\* that was deleted, and the poller finds its file.
NewRun ==
  /\ "newrun" \in Events
  /\ \E id \in Forks \ DOMAIN traces :
       /\ 0..(id - 1) \subseteq DOMAIN traces
       /\ traces' = [f \in (DOMAIN traces) \cup {id} |-> IF f = id THEN <<0, 0>> ELSE traces[f]]
  /\ stale' = TRUE
  /\ UNCHANGED <<page, gone, toClient, last, events>>

Poll ==
  /\ stale
  /\ stale' = FALSE
  /\ toClient' = toClient \o PushUpdates(traces)
  /\ UNCHANGED <<page, traces, gone, last, events>>

\* analysis_thread has drawn a fork's picture.
Analysed(f) ==
  /\ "picture" \in Events /\ f \notin page.overlays
  /\ \A i \in DOMAIN toClient : toClient[i].kind # "setpicture"
  /\ toClient' = Append(toClient, Message("setpicture", f))
  /\ UNCHANGED <<page, serverVars, last, events>>

-----------------------------------------------------------------------------
(* The page's event loop *)

Load ==
  /\ ~AllLoaded(page)
  /\ page' = LoadScript(page)
  /\ UNCHANGED <<serverVars, toClient, last, events>>

ProcessTimeout ==
  /\ page.pend # <<>>
  /\ page' = RunAll(TakePend(page), page.pend)
  /\ UNCHANGED <<serverVars, toClient, last, events>>

\* Nothing is under way: no autorun waits, no request and no message.
Quiet == page.pend = <<>> /\ page.out = <<>> /\ toClient = <<>>

\* What is remembered of an event that leaves page q.
Navigated(kind, q) ==
  [kind |-> kind, clnum |-> q.s.clnum, fork |-> q.s.forknum, iaddr |-> q.s.iaddr,
   dirty |-> page.s.dirtyiaddr, quiet |-> Quiet]

Deliver ==
  /\ toClient # <<>>
  /\ LET msg == Head(toClient)
         q == OnMessage(page, msg)
     IN  /\ page' = q
         /\ last' = IF msg.kind \in {"setiaddr", "setclnum"} THEN Navigated(msg.kind, q) ELSE last
  /\ toClient' = Tail(toClient)
  /\ UNCHANGED <<serverVars, events>>

HistoryTimeout ==
  /\ page.timers > 0
  /\ page' = PushHistory([page EXCEPT !.timers = @ - 1])
  /\ UNCHANGED <<serverVars, toClient, last, events>>

PopState ==
  /\ page.back /\ page.hpos > 1
  /\ page' = OnPopState(page)
  /\ last' = Navigated("back", OnPopState(page))
  /\ UNCHANGED <<serverVars, toClient, events>>

\* The socket to IDA opens, or IDA goes away.
IdaOpens ==
  /\ page.ws = "connecting"
  /\ page' = OnOpen(page)
  /\ UNCHANGED <<serverVars, toClient, last, events>>

IdaCloses ==
  /\ "ida" \in Events /\ page.ws \in {"connecting", "open"} /\ events < MaxEvents
  /\ page' = [page EXCEPT !.ws = "closed"]
  /\ events' = events + 1
  /\ UNCHANGED <<serverVars, toClient, last>>

\* A user event of a kind; q is the page its handler leaves.
Do(kind, q) ==
  /\ kind \in Events /\ events < MaxEvents
  /\ page' = q
  /\ last' = Navigated(kind, q)
  /\ events' = events + 1
  /\ UNCHANGED <<serverVars, toClient>>

\* The user acts on a page that is complete and shows a trace.
Ready == AllLoaded(page) /\ page.s.max_clnum # None /\ page.s.clnum # None

Stepped(d) == Set(page, "clnum", page.s.clnum + d)

\* window.onkeydown; the keys about names and static tags are module ClientTags's.
\* y, which tells the server how many arguments of a function to list in the text
\* of a call, is left out: no state of the page depends on that text.
KeyDown ==
  /\ Ready
  /\ \/ \E next \in BOOLEAN : \E f \in OtherForks(page, next) : Do("fork", Set(page, "forknum", f))
     \/ \E d \in {-1, 1} : page.s.clnum + d \in -1..(MaxClnum + 1) /\ Do("step", Stepped(d))
     \/ Do("function", Emit(page, <<"navigatefunction", page.s.forknum, page.s.clnum>>))
     \/ Do("zoom", ZoomOutMax(page))
     \/ \E next, data \in BOOLEAN : Do("jk", GoToFlag(page, next, data))
     \/ ~page.back /\ Do("esc", [page EXCEPT !.back = TRUE])
     \/ Do("clear", DeleteAllForks(page))
     \/ \E a \in Addresses : Do("goto", UpdateIaddr(page, a, TRUE))
     \/ \E n \in 0..MaxClnum : Do("clnum", Set(page, "clnum", n))
     \/ Do("gotoname", Emit(page, <<"gotoname", 0>>))

\* The fork input takes any number, also that of no fork.
ForkEntered == Ready /\ \E f \in Forks, d \in 0..1 : Do("control", Set(page, "forknum", f + d))

\* The change events of the four control inputs; "" is undefined.
ControlChanged ==
  /\ Ready
  /\ \/ \E n \in 0..MaxClnum : Do("control", Set(page, "clnum", n))
     \/ ForkEntered
     \/ Do("noiaddr", Set(page, "iaddr", None))
     \/ \E a \in Addresses : Do("goto", UpdateIaddr(page, a, TRUE))
     \/ Do("nodaddr", Set(Set(page, "daddr", None), "dview", None))
     \/ \E a \in DataAddresses : Do("dview", UpdateDview(page, a))

\* The click handlers: what is clicked is shown.
Clicked ==
  /\ Ready /\ page.view.instructions # None
  /\ \/ \E n \in DOMAIN page.view.instructions.rows : Do("clnum", PushHistory(Set(page, "clnum", n)))
     \/ \E a \in DataAddresses : Do("data", PushHistory(Set(page, "daddr", a)))
     \/ \E a \in DataAddresses : Do("dview", UpdateDview(page, a))
     \/ \E a \in Addresses, dirty \in BOOLEAN : Do("iaddr", UpdateIaddr(page, a, dirty))
     \/ \E g \in page.drawn : Do("flag", OnSetclnum(page, g))

\* The wheel over idump, over the hexdump and over the vtimeline.
IdumpWheel ==
  /\ Ready
  /\ \E d \in {-1, 1} : page.s.clnum + d \in -1..(MaxClnum + 1) /\ Do("wheel", Stepped(d))

HexdumpWheel ==
  /\ Ready /\ page.s.dview # None
  /\ \E d \in {-1, 1} : Do("hexwheel", Set(page, "dview", page.s.dview + d))

VtimelineWheel ==
  /\ Ready
  /\ \E d \in {-1, 1}, move \in 0..2 : Do("vtwheel", WheelVtimeline(page, d, move))

\* The mouse on the vtimeline; -1 is the box around the forks.
VtimelineMouse ==
  /\ Ready
  /\ \/ \E n \in PointedClnums(page) : Do("mouse", [page EXCEPT !.down = n])
     \/ \E n \in PointedClnums(page), f \in page.vt \cup {-1} : Do("mouse", MouseUp(page, n, f))
     \/ \E f \in page.vt : Do("delete", RedrawFlags(Emit(page, <<"deletefork", f>>)))

Resized == Ready /\ Do("resize", RedrawFlags(page))

\* A data address is looked up in pmaps, without which the handler throws; one on
\* a page of instructions is ignored.
IdaMessage ==
  /\ Ready /\ page.ws = "open"
  /\ \/ \E a \in Addresses : Do("ida", OnIdaIaddr(page, a))
     \/ \E a \in DataAddresses : Typed(page) /\ Do("idadata", UpdateDview(page, a))

User ==
  \/ KeyDown \/ ControlChanged \/ Clicked \/ IdumpWheel \/ HexdumpWheel
  \/ VtimelineWheel \/ VtimelineMouse \/ Resized \/ IdaMessage \/ IdaCloses

\* What happens without the user or the traced program.
System ==
  \/ HandleCall \/ DeleteFork \/ Poll \/ Load \/ ProcessTimeout \/ Deliver
  \/ HistoryTimeout \/ PopState \/ IdaOpens

Next ==
  \/ System
  \/ User
  \/ NewRun
  \/ \E f \in DOMAIN traces : Grow(f) \/ Analysed(f)

Spec == Init /\ [][Next]_vars

\* The server, the network and the browser's event loop do not stop.
FairSpec == Spec /\ WF_vars(System)

-----------------------------------------------------------------------------
(* Properties *)

\* The page knows of the traces what the server does.
Informed == page.s.max_clnum = traces

\* However requests, late answers and autoruns interleave, once nothing is under
\* way every view shows the selected fork and clnum, the hexdump the selected
\* window, and the controls and highlights the selected addresses (the autoruns
\* of regmem.js, idump.js, controls.js and highlight.js).  A page that missed the
\* pmaps message while its scripts were loading cannot draw (get_data_type), and
\* one that does not see its fork go before another run has the number does not
\* ask again what it asked of the run that was deleted.
ViewsSettled ==
  LET s == page.s
      v == page.view
      Shows(fxn, shown, wanted) == fxn \in Followed => shown = wanted
  IN  Quiet /\ s.pmaps # None /\ s.clnum # None /\ s.forknum \in (DOMAIN traces) \ gone =>
        /\ Shows("registers", v.registers, <<s.forknum, s.clnum - 1>>)
        /\ Shows("clnum", v.clnum, <<s.forknum, s.clnum>>)
        /\ s.dview # None => Shows("memory", v.memory, <<s.forknum, s.clnum - 1, s.dview>>)
        /\ "instructions" \in Followed =>
             v.instructions # None /\ v.instructions.fork = s.forknum /\ v.instructions.at = s.clnum
        /\ Shows("controls", v.controls, <<s.clnum, s.forknum, s.iaddr, s.daddr>>)
        /\ Shows("rehighlight", v.highlight, <<s.clnum, s.iaddr, s.daddr>>)

\* The page knows of forks, is on none of them and nothing is about to change that.
Strayed ==
  /\ page.s.max_clnum \notin {None, <<>>} /\ page.s.forknum \notin DOMAIN page.s.max_clnum
  /\ ~Contains(page.pend, "firstfork")

\* Whatever forks are deleted and numbers used again while answers and clicks
\* about them are under way, the page comes to be on a fork that does not exist
\* only by the user's entering its number, which nothing checks (the "select
\* first fork if current fork isn't valid" autorun of controls.js, which reads
\* forknum with donttrack).
ForkSelected == [][Strayed' => Strayed \/ ForkEntered]_vars

\* The kinds of events that ask for a position.
PositionKinds ==
  {"fork", "step", "wheel", "jk", "clnum", "control", "flag", "back", "setclnum"}

\* A position that was asked for stays, unless its trace grows or is deleted:
\* with no address left to be followed (dirtyiaddr), no late answer moves it
\* (on_changes of vtimeline.js, update_maxclnum of base.js).
PositionSticks ==
  Quiet /\ last.kind \in PositionKinds /\ last.fork = page.s.forknum
    /\ last.fork \in DOMAIN traces /\ last.dirty # TRUE =>
      page.s.clnum \in {last.clnum, traces[last.fork][2]}

\* After a new position was selected in a finished trace (the answer about a
\* clnum beyond the end of a growing one is empty and nothing asks again when the
\* trace gets there), iaddr is the instruction there, even when
\* answers about earlier positions and other forks came in between
\* (on_instructions of idump.js).  A page without pmaps is left out, since a row
\* before that of the position may throw, and a fork whose number was used before.
IaddrFollowsPosition ==
  LET f == page.s.forknum
      n == page.s.clnum
  IN  /\ Quiet /\ last.kind \in {"none", "fork", "step", "wheel", "clnum", "flag", "setclnum"}
      /\ f \in (DOMAIN traces) \ gone /\ n \in traces[f][1]..traces[f][2]
      /\ "grow" \notin Events /\ page.s.pmaps # None
      => page.s.iaddr = Access["I"][f][n]

\* The clnums of the view, its end included, at which an address is executed,
\* loaded or stored.
Passes(type, addr) ==
  {a \in (DOMAIN traces) \X (0..MaxClnum) :
     /\ a[2] \in traces[a[1]][1]..traces[a[1]][2] /\ a[2] \in page.s.cview[1]..page.s.cview[2]
     /\ Access[type][a[1]][a[2]] = addr}

\* The server does not answer the last clnum of the view.
AtViewEnd(a) == a[2] = page.s.cview[2]

\* An address asked for from a page at rest is reached: when the answers have
\* come, which set iaddr themselves, the position executes it, if the view has a
\* clnum of the selected fork before its end that does (on_changes and
\* on_instructions).
AddressReached ==
  Quiet /\ last.kind \in {"ida", "goto"} /\ last.quiet /\ page.s.clnum \in 0..MaxClnum =>
    \/ Access["I"][page.s.forknum][page.s.clnum] = last.iaddr
    \/ \A a \in Passes("I", last.iaddr) : a[1] # page.s.forknum \/ AtViewEnd(a)

\* The flags of a type that the session and the traces call for.
WantedFlags(type) ==
  LET m == page.s.max_clnum
  IN  CASE type = "change" -> {<<page.s.forknum, page.s.clnum>>}
        [] type = "bounds" -> {<<f, m[f][i]>> : f \in DOMAIN m, i \in 1..2}
        [] type = "zoom" -> ZoomFlags(page)

FlagsOf(type) == {<<g[2], g[3]>> : g \in {h \in page.flags : h[1] = type}}

\* Every flag is a passthrough of the address, and every passthrough of it has
\* a flag, but that at the last clnum of the view may have none.
PassesFlagged(type, addr) ==
  LET flags == FlagsOf(FlagType[type])
  IN  /\ flags \subseteq Passes(type, addr)
      /\ \A a \in Passes(type, addr) \ flags : AtViewEnd(a)

\* Once nothing is under way the vtimeline has the flags of the session and of
\* what the traces do, a box for every fork and all the flags in view drawn,
\* though five autoruns and three kinds of answers write them (vtimeline.js).
FlagsSettled ==
  {"bounds", "change", "ichanges"} \subseteq Followed
    /\ Quiet /\ Informed /\ page.s.cview # None /\ page.s.clnum # None /\ page.vt # {} =>
    /\ \A type \in {"change", "bounds", "zoom"} : FlagsOf(type) = WantedFlags(type)
    /\ page.s.iaddr # None => PassesFlagged("I", page.s.iaddr)
    /\ page.s.daddr # None => \A type \in {"L", "S"} : PassesFlagged(type, page.s.daddr)
    /\ page.vt = DOMAIN traces
    /\ page.drawn = Visible(page)
    /\ page.pictures = page.overlays \cap page.vt

\* Without deletions the view stays a window of the clnums there are (wheel,
\* drag, zoom and history of vtimeline.js and base.js).
CviewInBounds ==
  page.s.cview # None /\ {"delete", "clear"} \cap Events = {} =>
    /\ 0 <= page.s.cview[1] /\ page.s.cview[1] <= page.s.cview[2]
    /\ page.s.cview[2] <= AbsMaxclnum(page)

\* What the vtimeline shows: a window of the trace, with the flags in it.
VtimelineShown == FlagsSettled /\ CviewInBounds

\* While the user does nothing the page follows the end of a growing trace, from
\* whichever script on it was listening (update_maxclnum of base.js).
FollowsLive ==
  Quiet /\ Informed /\ events = 0 /\ DOMAIN traces # {} => page.s.clnum = traces[page.s.forknum][2]

\* When the timeouts have run, the current entry of the history, unless it is the
\* first one, which has no state, is the view that is shown, so that going back
\* returns to it, and no entry repeats the one before it, so that going back goes
\* somewhere (the history autorun, whose timeouts overlap, and push_history and
\* onpopstate of base.js).
HistoryRecorded ==
  /\ Quiet /\ page.timers = 0 /\ page.hpos > 0 /\ page.hist[page.hpos] # None =>
       \A k \in {"cview", "dview", "clnum", "daddr"} : page.hist[page.hpos][k] = page.s[k]
  /\ \A i \in 1..(Len(page.hist) - 1) : page.hist[i] # page.hist[i + 1]

\* An IDA that is connected shows the page's iaddr, unless an address was set
\* while the socket was connecting (do_ida_socket of ida.js).
IdaFollows == Quiet /\ "ida" \in Followed /\ page.ws = "open" /\ ~page.lost => page.ida = page.s.iaddr

\* The page comes to rest: answers that set session variables, which emit
\* requests, which are answered, do not go on for ever.
Settles == <>[]Quiet

-----------------------------------------------------------------------------
(* What the documentation says of the page, and the code does not keep *)

\* "up -- -1 clnum, down -- +1 clnum" (README.md): a step from a page
\* at rest is not taken back.
StepSticks ==
  Quiet /\ last.kind = "step" /\ last.quiet /\ last.fork = page.s.forknum => page.s.clnum = last.clnum
==============================================================================
