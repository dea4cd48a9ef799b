----------------------------- MODULE StaticGraph -----------------------------
(***************************************************************************)
(* The control flow graph of the static view (web/client/static/static.js, *)
(* static/graph.js), up to its levels.                                     *)
(*                                                                         *)
(* A function is the sequence of its blocks; a block has the address of    *)
(* its first instruction (None if it is empty) and the destinations of its *)
(* last one, each with its type.  A graph is a record:                     *)
(*   order              the vertices in the order they were added          *)
(*   parents, children  of every vertex, in the order of the edges         *)
(*   edges              <<from, to, colour>>                               *)
(*   level, levels      what assignLevels gave                             *)
(*   popped             the level it took off at the end                   *)
(* The HTML of a block is left out, and so is render: the panel it draws   *)
(* in is commented out of this page (ui.js:65-66), and render throws when  *)
(* it looks for it (graph.js:107).                                         *)
(***************************************************************************)
EXTENDS Integers, FiniteSets, SequencesExt, FiniteSetsExt

CONSTANTS
  None,
  Programs,      \* sets of functions: the ones of the program that is analysed
  MaxLevels      \* levels after which assignLevels gives up: 100 in the code

VARIABLES
  program,       \* the functions the server may send
  graph          \* the last graph built

vars == <<program, graph>>

-----------------------------------------------------------------------------
(* graph.js *)

EmptyGraph ==
  [order |-> <<>>, parents |-> <<>>, children |-> <<>>, edges |-> <<>>,
   level |-> <<>>, levels |-> <<>>, popped |-> <<>>]

AddVertex(g, addr) ==
  IF addr \in ToSet(g.order) THEN g
  ELSE [g EXCEPT !.order = Append(@, addr),
                 !.parents = (addr :> <<>>) @@ @, !.children = (addr :> <<>>) @@ @]

AddEdge(g, v1, v2, color) ==
  LET h == AddVertex(AddVertex(g, v1), v2)
  IN  [h EXCEPT !.edges = Append(@, <<v1, v2, color>>),
                !.children[v1] = Append(@, v2), !.parents[v2] = Append(@, v1)]

\* splice(indexOf(addr), 1): an index of -1 is the last element.
Spliced(seq, addr) ==
  LET at == IF Contains(seq, addr) THEN Min({i \in DOMAIN seq : seq[i] = addr}) ELSE Len(seq)
  IN  IF seq = <<>> THEN seq ELSE RemoveAt(seq, at)

\* One parent of a vertex of the level onlevel; st.remove are the positions that
\* are given up.
MutantVisitAlways(st, onlevel, addr, paddr) ==
  IF paddr = addr \/ (st.level[paddr] # None /\ paddr > addr) THEN st
  ELSE [st EXCEPT !.level[paddr] = onlevel + 1, !.levels[onlevel + 2] = Append(@, paddr)]
VisitParent(st, onlevel, addr, paddr) ==
  IF paddr = addr \/ (st.level[paddr] # None /\ paddr > addr) THEN st
  ELSE [st EXCEPT
          !.remove = IF st.level[paddr] # None THEN Append(@, <<paddr, st.level[paddr]>>) ELSE @,
          !.level[paddr] = onlevel + 1,
          !.levels[onlevel + 2] = Append(@, paddr)]

VisitLevel(g, st, onlevel) ==
  LET Vertex(u, addr) ==
        FoldLeft(LAMBDA t, paddr : VisitParent(t, onlevel, addr, paddr), u, g.parents[addr])
      opened == [st EXCEPT !.levels = Append(@, <<>>), !.remove = <<>>]
      visited == FoldLeft(Vertex, opened, st.levels[onlevel + 1])
      GiveUp(t, r) == [t EXCEPT !.levels[r[2] + 1] = Spliced(@, r[1])]
  IN  [FoldLeft(GiveUp, visited, visited.remove) EXCEPT !.on = onlevel + 1]

AssignLevels(g) ==
  LET sinks == SelectSeq(g.order, LAMBDA a : g.children[a] = <<>>)
      first == [levels |-> <<sinks>>, remove |-> <<>>, on |-> 0,
                level |-> [a \in ToSet(g.order) |-> IF Contains(sinks, a) THEN 0 ELSE None]]
      Round(st, i) == IF st.levels[st.on + 1] = <<>> THEN st ELSE VisitLevel(g, st, st.on)
      done == FoldLeft(Round, first, [i \in 1..(MaxLevels + 1) |-> i])
  IN  [g EXCEPT !.level = done.level, !.levels = Front(done.levels), !.popped = Last(done.levels)]

-----------------------------------------------------------------------------
(* static.js *)

Color(dests, type) ==
  IF Len(dests) > 1 /\ type = 4 THEN "red" ELSE IF type = 1 THEN "green" ELSE "blue"

\* A block: calls (type 3) are no edges.
AddBlock(g, bb) ==
  LET Dest(h, dd) == IF dd[2] = 3 THEN h ELSE AddEdge(h, bb.addr, dd[1], Color(bb.dests, dd[2]))
  IN  IF bb.addr = None THEN g ELSE FoldLeft(Dest, AddVertex(g, bb.addr), bb.dests)

GraphOf(fxn) == AssignLevels(FoldLeft(AddBlock, EmptyGraph, fxn))

OnFunction(fxn) ==
  /\ graph' = GraphOf(fxn)
  /\ UNCHANGED program

-----------------------------------------------------------------------------

Init ==
  /\ program \in Programs
  /\ graph = EmptyGraph

Next == \E fxn \in program : OnFunction(fxn)

Spec == Init /\ [][Next]_vars

-----------------------------------------------------------------------------
(* Properties *)

Vertices == ToSet(graph.order)
Occurrences(addr) == {l \in (DOMAIN graph.levels) \X (1..Cardinality(Vertices)) :
                        l[2] \in DOMAIN graph.levels[l[1]] /\ graph.levels[l[1]][l[2]] = addr}
Complete == graph.popped = <<>>

\* A vertex that was given a level is in that level, once, and in no other,
\* however often its children made it move up; the others are in none
\* (assignLevels, whose splice would remove a wrong vertex).
LevelsConsistent ==
  Complete => \A a \in Vertices :
                IF graph.level[a] = None THEN Occurrences(a) = {}
                ELSE Cardinality(Occurrences(a)) = 1
                     /\ \A l \in Occurrences(a) : l[1] = graph.level[a] + 1

\* An edge to a later address goes down at least one level (assignLevels).
ForwardEdgesDescend ==
  Complete => \A e \in ToSet(graph.edges) :
                e[1] < e[2] /\ graph.level[e[2]] # None =>
                  graph.level[e[1]] # None /\ graph.level[e[1]] > graph.level[e[2]]

\* What assignLevels computes, whichever way the edges of a function run.
LevelsCorrect == LevelsConsistent /\ ForwardEdgesDescend
==============================================================================
