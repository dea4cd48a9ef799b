----------------------------- MODULE MCStaticGraph -----------------------------
(***************************************************************************)
(* Functions of up to four blocks, each with a fall-through, a branch or   *)
(* both, loops included.                                                   *)
(***************************************************************************)
EXTENDS StaticGraph

Block(addr, dests) == [addr |-> addr, dests |-> dests]

\* Where a block may go: nowhere, into a call, to one or to two blocks of the
\* function.
DestSeqs(n) ==
  {<<>>, <<<<1, 3>>>>} \cup {<<<<d, 4>>>> : d \in 1..n}
  \cup {<<<<d, 1>>, <<(d % n) + 1, 4>>>> : d \in 1..n} \cup {<<<<n, 1>>, <<d, 4>>>> : d \in 1..n}

Small == {{[i \in 1..4 |-> Block(i, ds[i])]} : ds \in [1..4 -> DestSeqs(4)]}

Chain(n) == [i \in 1..n |-> Block(i, IF i = n THEN <<>> ELSE <<<<i + 1, 4>>>>)]
Diamond == <<Block(1, <<<<2, 1>>, <<3, 4>>>>), Block(None, <<>>), Block(2, <<<<4, 1>>>>),
             Block(3, <<<<4, 4>>>>), Block(4, <<<<1, 1>>, <<5, 4>>>>), Block(5, <<>>)>>
Few == {{Chain(2), Chain(3), Diamond}}

Functions4 == Small \cup Few
================================================================================
