--------------------------- MODULE MCClientServer ---------------------------
(***************************************************************************)
(* Two small traces: a loop over the addresses 10 and 11 that fork 1       *)
(* leaves, with loads and stores of the data addresses 4 and 5; and the    *)
(* scenarios in which the page looks at them.                              *)
(***************************************************************************)
EXTENDS ClientServer

MCAccess ==
  [t \in {"I", "L", "S"} |->
     [f \in 0..1 |->
        [n \in 0..3 |->
           IF t = "I" THEN IF f = 1 /\ n = 2 THEN 12 ELSE 10 + (n % 2)
           ELSE IF t = "L" THEN 4 + ((n + f) % 2) ELSE 4 + ((n % 3) % 2)]]]

OneTrace == [f \in {0} |-> <<0, 2>>]
TwoTraces == [f \in {0, 1} |-> IF f = 0 THEN <<0, 2>> ELSE <<1, 3>>]
NewTrace == [f \in {0} |-> <<0, 0>>]

\* A scenario of a page whose scripts have all run.
On(t, clnums, steps, followed, evts) ==
  [traces |-> t, forks |-> DOMAIN t, clnums |-> clnums, steps |-> steps, loaded |-> Len(Scripts),
   history |-> 0, followed |-> {"firstfork", "instructions"} \cup followed, events |-> evts]

Navigation == On(TwoTraces, 3, 2, {"ichanges", "bounds"},
  {"fork", "step", "wheel", "clnum", "iaddr", "delete", "flag", "function", "gotoname"})
Views == On(TwoTraces, 3, 2, {"memory", "registers", "clnum", "controls", "rehighlight"},
  {"control", "dview", "data", "hexwheel", "nodaddr", "clear"})
Timeline == On(TwoTraces, 3, 2, {"bounds", "change", "ichanges", "dchanges"},
  {"mouse", "vtwheel", "jk", "zoom", "data", "resize", "grow"})
History == [On(OneTrace, 2, 3, {"history"}, {"step", "dview", "esc"})
              EXCEPT !.history = 3]
Ida == [On(OneTrace, 2, 2, {"ichanges", "ida"}, {"ida", "goto", "noiaddr", "idadata"})
          EXCEPT !.loaded = 2]
Startup == [On(NewTrace, 1, 0, {"bounds", "change", "ichanges"}, {"grow", "newrun"})
              EXCEPT !.loaded = 1, !.forks = {0, 1}]
Rerun == On(TwoTraces, 3, 2, {"bounds", "change", "registers"},
  {"delete", "newrun", "flag", "fork", "iaddr", "clnum"})
Pictures == [Startup EXCEPT !.events = {"newrun", "picture"}]
Stepping == On(OneTrace, 2, 3, {"ichanges"}, {"iaddr", "step"})

AllScenarios == [navigation |-> Navigation, views |-> Views, timeline |-> Timeline,
                 history |-> History, ida |-> Ida, startup |-> Startup, pictures |-> Pictures,
                 rerun |-> Rerun]
OneScenario == [stepping |-> Stepping]
=============================================================================
