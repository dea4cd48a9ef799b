------------------------------ MODULE LiveTrace ------------------------------
(***************************************************************************)
(* What the pipeline from the tracer to the clients promises, without the  *)
(* log, the mapping, the indexes or the flag in between: the range of      *)
(* clnums a client is told of only grows while the trace is open, and is   *)
(* at every moment one that the database had published out of what the     *)
(* tracer had reached.                                                     *)
(***************************************************************************)
EXTENDS Naturals

VARIABLES
  traced,      \* the clnum the traced program is in
  published,   \* the largest clnum the database has ingested
  shown,       \* the maximum the clients were last sent
  open         \* the trace has not been closed

liveVars == <<traced, published, shown, open>>

Init == traced = 0 /\ published = 0 /\ shown = 0 /\ open = TRUE

\* The program runs on.
Advance == traced' > traced /\ UNCHANGED <<published, shown, open>>

\* The database catches up, as far as it likes.  A thread that is being
\* stopped still finishes the batch it is in.
Publish ==
  /\ published' > published
  /\ published' <= traced
  /\ UNCHANGED <<traced, shown, open>>

\* The clients are told where the database is.
Show == open /\ shown' = published /\ UNCHANGED <<traced, published, open>>

Close == open /\ open' = FALSE /\ UNCHANGED <<traced, published, shown>>

Next == Advance \/ Publish \/ Show \/ Close

Spec == Init /\ [][Next]_liveVars
==============================================================================
