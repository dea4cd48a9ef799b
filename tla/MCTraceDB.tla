------------------------------ MODULE MCTraceDB ------------------------------
(***************************************************************************)
(* TraceDB fed with every short log the tracer could have written: valid   *)
(* entries, the clnum never going back, an instruction start opening the   *)
(* next clnum.  One step ingests one entry, of a little-endian target or   *)
(* of a big-endian one, whose byte loop runs the other way.                *)
(***************************************************************************)
EXTENDS TraceDB

CONSTANTS
  MaxLog,      \* bound: entries ingested
  FirstClnum   \* clnum before the first instruction start

VARIABLE big   \* the target is big-endian

Big == INSTANCE TraceDB WITH BigEndian <- TRUE

\* The clnum of the last entry.
LastClnum == IF DOMAIN ingested = {} THEN FirstClnum ELSE LastOf(DOMAIN ingested).clnum

\* The accesses a log may hold: two-byte memory accesses can overlap.
MCChanges ==
  LET Of(F, A, D, Z, n) == [flags : F, address : A, data : D, size : Z, clnum : {n}]
  IN  Of({{"VALID", "START"}}, {0, 2}, {1}, {0}, LastClnum + 1)
        \cup Of({{"VALID", "SYSCALL"}}, {1}, {0}, {0}, LastClnum)
        \cup Of({{"VALID", "MEM"}}, {0, 1}, {1}, {1, 2}, LastClnum)
        \cup Of({{"VALID", "MEM", "WRITE"}}, {0, 1}, {2}, {1, 2}, LastClnum)
        \cup Of({{"VALID", "WRITE"}}, {0, 1, 2}, {1, 2}, {1}, LastClnum)
        \cup Of({{"VALID"}}, {0}, {1}, {1}, LastClnum)

MCNext ==
  /\ entries_done <= (IF big THEN MaxLog - 1 ELSE MaxLog)
  /\ \E c \in MCChanges :
       /\ IF big THEN Big!InsertEntry(entries_done, c, TypeOf(c.flags))
          ELSE InsertEntry(entries_done, c, TypeOf(c.flags))
       /\ UpdateMax(c.clnum)
       /\ UpdateMin(c.clnum)
       /\ entries_done' = entries_done + 1
  /\ UNCHANGED big

MCInit == DBInit /\ big \in BOOLEAN

MCSpec == MCInit /\ [][MCNext]_<<dbVars, big>>

\* On a target of either byte order, what FetchMemory answers about an address
\* and a clnum is the last byte that the log has there (commit_memory, get_byte).
MemoryOfEither == IF big THEN Big!MemoryAsLogged ELSE MemoryAsLogged
==============================================================================
