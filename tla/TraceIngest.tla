----------------------------- MODULE TraceIngest -----------------------------
(***************************************************************************)
(* A running trace: the tracer that appends to the log, the thread of      *)
(* class Trace that ingests it, and the Python side that queries it        *)
(* (qiradb/qiradb/Trace.cpp, Trace.h, _qiradb.cpp).                        *)
(*                                                                         *)
(* The three share the log file, the mapping of it that remap_backing      *)
(* replaces, the indexes, and the plain members entries_done_, max_clnum_, *)
(* min_clnum_ and did_update_.  A critical section in which nothing else   *)
(* can be observed is one step.  The Python binding keeps the GIL during a *)
(* call, so there is at most one call in progress.                         *)
(***************************************************************************)
EXTENDS QemuTracer, TraceDB

CONSTANTS
  Clamp,      \* most entries of one process() call: 1000000 in the code
  Limits      \* limits FetchChangesByClnum is called with; 0 is none

ASSUME IngestAssumption ==
  /\ Clamp \in Nat \ {0}
  /\ Limits \subseteq Nat

VARIABLES
  \* the ingest thread
  dpc,            \* program point
  entry_count,    \* process(): its latched copy of change_count
  type,           \* process(): type of the current entry
  backing_size,   \* entries of the file that are mapped at backing_
  did_update,     \* did_update_
  is_running,     \* is_running_
  \* the Python side
  cpc,            \* where the call in progress is
  req, limit,     \* FetchChangesByClnum: its arguments,
  en, got,        \*   the entry it starts at, how many it has copied
  en_done,        \*   history: entries_done when it was called
  polling,        \* mwpoll saw an update and has yet to send the range
  pushed_max      \* the last maxclnum sent to the clients

threadVars == <<dpc, entry_count, type, backing_size, did_update, is_running>>
callVars == <<cpc, req, limit, en, got, en_done, polling, pushed_max>>
vars == <<tracerVars, dbVars, threadVars, callVars>>

DBPoints == {"connect", "idle", "remap", "loop", "insert", "max", "min", "exited", "dead"}
CallPoints == {"none", "clear", "lock", "scan", "returned"}

\* backing_mutex_ is held across steps by a scan only.
BackingUnlocked == cpc # "scan"

IngestInit ==
  /\ TracerInit
  /\ DBInit
  /\ dpc = "connect"
  /\ entry_count = 0
  /\ type = "?"
  /\ backing_size = 0
  /\ did_update = FALSE
  /\ is_running = TRUE
  /\ cpc = "none"
  /\ req = 0 /\ limit = 0 /\ en = 0 /\ got = 0 /\ en_done = 1
  /\ polling = FALSE
  /\ pushed_max = 0

-----------------------------------------------------------------------------
(* The ingest thread.                                                      *)

\* Fault: the file is mapped without waiting for ftruncate.
MutantRemapAtOnce(n) ==
  \/ backing_size = n /\ UNCHANGED backing_size
  \/ backing_size # n /\ BackingUnlocked /\ backing_size' = n

\* Fault: the wait is for a file one entry longer.
MutantRemapLate(n) ==
  \/ backing_size = n /\ UNCHANGED backing_size
  \/ /\ backing_size # n
     /\ file_size > n
     /\ BackingUnlocked
     /\ backing_size' = n

\* remap_backing(n): nothing to do, or wait for the file to be that long and
\* replace the mapping under the mutex.
RemapBacking(n) ==
  \/ backing_size = n /\ UNCHANGED backing_size
  \/ /\ backing_size # n
     /\ file_size >= n
     /\ BackingUnlocked
     /\ backing_size' = n

\* ConnectToFileAndStart: map the header, start the thread.
ConnectToFileAndStart ==
  /\ dpc = "connect"
  /\ RemapBacking(1)
  /\ dpc' = "idle"
  /\ UNCHANGED <<dbVars, entry_count, type, did_update, is_running, callVars>>

\* process() reads the header's counter once; up to date, it returns.
LatchCount ==
  /\ dpc = "idle"
  /\ is_running
  /\ BackingUnlocked
  /\ \/ /\ entries_done >= change_count
        /\ UNCHANGED <<dpc, entry_count>>
     \/ /\ entries_done < change_count
        /\ entry_count' = change_count
        /\ dpc' = "remap"
  /\ UNCHANGED <<dbVars, type, backing_size, did_update, is_running, callVars>>

\* The count process() works up to in one call.
Clamped(n) == IF entries_done + Clamp < n THEN entries_done + Clamp ELSE n

RemapAndClamp ==
  /\ dpc = "remap"
  /\ RemapBacking(entry_count)
  /\ entry_count' = Clamped(entry_count)
  /\ dpc' = "loop"
  /\ UNCHANGED <<dbVars, type, did_update, is_running, callVars>>

\* The entry's type is read from its flags before db_lock_ is taken.
ReadType ==
  /\ dpc = "loop"
  /\ entries_done # entry_count
  /\ type' = TypeOf(buffer[entries_done].flags)
  /\ dpc' = "insert"
  /\ UNCHANGED <<dbVars, entry_count, backing_size, did_update, is_running, callVars>>

\* The critical section of db_lock_.
Insert ==
  /\ dpc = "insert"
  /\ InsertEntry(entries_done, buffer[entries_done], type)
  /\ dpc' = "max"
  /\ UNCHANGED <<entries_done, max_clnum, min_clnum, entry_count, type, backing_size,
                 did_update, is_running, callVars>>

PublishMax ==
  /\ dpc = "max"
  /\ UpdateMax(buffer[entries_done].clnum)
  /\ dpc' = "min"
  /\ UNCHANGED <<indexVars, entries_done, min_clnum, entry_count, type, backing_size,
                 did_update, is_running, callVars>>

\* min_clnum_, then entries_done_++: no reader of one looks at the other.
PublishMinAndDone ==
  /\ dpc = "min"
  /\ UpdateMin(buffer[entries_done].clnum)
  /\ entries_done' = entries_done + 1
  /\ type' = "?"
  /\ dpc' = "loop"
  /\ UNCHANGED <<indexVars, max_clnum, entry_count, backing_size, did_update,
                 is_running, callVars>>

\* Fault: the update is not announced when the call was clamped.
MutantSetDidUpdate ==
  /\ dpc = "loop"
  /\ entries_done = entry_count
  /\ did_update' = (did_update \/ entries_done = change_count)
  /\ entry_count' = 0
  /\ dpc' = "idle"
  /\ UNCHANGED <<dbVars, type, backing_size, is_running, callVars>>

\* Fault: the update is never announced.
MutantNoDidUpdate ==
  /\ dpc = "loop"
  /\ entries_done = entry_count
  /\ entry_count' = 0
  /\ dpc' = "idle"
  /\ UNCHANGED <<dbVars, type, backing_size, did_update, is_running, callVars>>

\* "set this at the end"
SetDidUpdate ==
  /\ dpc = "loop"
  /\ entries_done = entry_count
  /\ did_update' = TRUE
  /\ entry_count' = 0
  /\ dpc' = "idle"
  /\ UNCHANGED <<dbVars, type, backing_size, is_running, callVars>>

\* thread_entry leaves its loop between two calls of process().
ThreadExit ==
  /\ dpc = "idle"
  /\ ~is_running
  /\ dpc' = "exited"
  /\ UNCHANGED <<dbVars, entry_count, type, backing_size, did_update, is_running, callVars>>

-----------------------------------------------------------------------------
(* The Python side.                                                        *)

\* The object is constructed and not being destroyed, and no call is in it.
Callable == cpc = "none" /\ dpc # "connect" /\ is_running

\* FetchChangesByClnum: look the clnum up under db_lock_ ...
FetchChangesByClnum(n, k) ==
  /\ Callable
  /\ req' = n
  /\ limit' = k
  /\ en' = EntryOf(n)
  /\ got' = 0
  /\ en_done' = entries_done
  /\ cpc' = IF EntryOf(n) # 0 THEN "lock" ELSE "returned"
  /\ UNCHANGED <<dbVars, threadVars, polling, pushed_max>>

\* ... take backing_mutex_ ...
FetchLock ==
  /\ cpc = "lock"
  /\ cpc' = "scan"
  /\ UNCHANGED <<dbVars, threadVars, req, limit, en, got, en_done, polling, pushed_max>>

\* Fault: the scan does not stop at the next clnum.
MutantScanGoesOn ==
  /\ limit = 0 \/ got < limit
  /\ en + got < entries_done

\* One more entry to copy: within the limit, ingested, and of this clnum.
ScanGoesOn ==
  /\ limit = 0 \/ got < limit
  /\ en + got < entries_done
  /\ buffer[en + got].clnum = req

\* ... and copy entries until the clnum changes.
FetchScan ==
  /\ cpc = "scan"
  /\ \/ ~ScanGoesOn /\ cpc' = "returned" /\ UNCHANGED got
     \/ ScanGoesOn /\ got' = got + 1 /\ UNCHANGED cpc
  /\ UNCHANGED <<dbVars, threadVars, req, limit, en, en_done, polling, pushed_max>>

FetchReturn ==
  /\ cpc = "returned"
  /\ cpc' = "none"
  /\ req' = 0 /\ limit' = 0 /\ en' = 0 /\ got' = 0 /\ en_done' = 1
  /\ UNCHANGED <<dbVars, threadVars, polling, pushed_max>>

\* GetDidUpdate reads the flag ...
GetDidUpdate ==
  /\ Callable
  /\ ~polling
  /\ did_update
  /\ cpc' = "clear"
  /\ UNCHANGED <<dbVars, threadVars, req, limit, en, got, en_done, polling, pushed_max>>

\* ... and clears it in a second access; mwpoll then goes on to push_updates.
ClearDidUpdate ==
  /\ cpc = "clear"
  /\ did_update' = FALSE
  /\ polling' = TRUE
  /\ cpc' = "none"
  /\ UNCHANGED <<dbVars, dpc, entry_count, type, backing_size, is_running, req, limit,
                 en, got, en_done, pushed_max>>

\* push_updates sends get_maxclnum.
PushUpdates ==
  /\ Callable
  /\ polling
  /\ pushed_max' = max_clnum
  /\ polling' = FALSE
  /\ UNCHANGED <<dbVars, threadVars, cpc, req, limit, en, got, en_done>>

\* ~Trace: stop the thread ...
Stop ==
  /\ Callable
  /\ ~polling
  /\ is_running' = FALSE
  /\ UNCHANGED <<dbVars, dpc, entry_count, type, backing_size, did_update, callVars>>

\* ... join it and unmap.
Join ==
  /\ dpc = "exited"
  /\ backing_size' = 0
  /\ dpc' = "dead"
  /\ UNCHANGED <<dbVars, entry_count, type, did_update, is_running, callVars>>

-----------------------------------------------------------------------------
Thread ==
  \/ ConnectToFileAndStart \/ LatchCount \/ RemapAndClamp \/ ReadType \/ Insert
  \/ PublishMax \/ PublishMinAndDone \/ SetDidUpdate \/ ThreadExit \/ Join

Call ==
  \/ FetchLock \/ FetchScan \/ FetchReturn \/ ClearDidUpdate

Poll == GetDidUpdate \/ PushUpdates

Fetch == \E n \in 0 .. max_clnum + 1, k \in Limits : FetchChangesByClnum(n, k)

IngestNext ==
  \/ TracerNext /\ UNCHANGED <<dbVars, threadVars, callVars>>
  \/ (Thread \/ Call \/ Poll \/ Fetch \/ Stop) /\ UNCHANGED tracerVars

IngestSpec == IngestInit /\ [][IngestNext]_vars

\* A handler of the tracer that has begun goes on (unless it is killed), the
\* ingest thread and a call in progress are scheduled, mwpoller polls.  The
\* ingest thread gets a mutex that is released again and again.
Fairness ==
  /\ WF_vars(Finish /\ UNCHANGED <<dbVars, threadVars, callVars>>)
  /\ SF_vars(Thread /\ UNCHANGED tracerVars)
  /\ WF_vars(Call /\ UNCHANGED tracerVars)
  /\ SF_vars(Poll /\ UNCHANGED tracerVars)

FairSpec == IngestSpec /\ Fairness

-----------------------------------------------------------------------------
(* Properties.                                                             *)

\* Every variable of the composition has its type.
IngestTypeOK ==
  /\ TracerTypeOK
  /\ DBTypeOK
  /\ dpc \in DBPoints
  /\ entry_count \in Nat
  /\ type \in Types
  /\ backing_size \in Nat
  /\ did_update \in BOOLEAN
  /\ is_running \in BOOLEAN
  /\ cpc \in CallPoints
  /\ req \in Nat /\ limit \in Nat /\ en \in Nat /\ got \in Nat /\ en_done \in Nat
  /\ polling \in BOOLEAN
  /\ pushed_max \in Nat

\* No access to the mapping faults: the mapping never extends beyond the file
\* although the counter runs ahead of ftruncate (qemu.patch:398, 403), the
\* entry process() is on is mapped, and so is the entry a scan of another
\* thread has got to, which it bounds by entries_done_ alone (Trace.cpp:281).
MappedReads ==
  /\ backing_size <= file_size
  /\ dpc \in {"insert", "max", "min"} => entries_done < backing_size
  /\ dpc \notin {"connect", "dead"} => entries_done <= backing_size
  /\ dpc = "loop" => entries_done <= entry_count /\ entry_count <= backing_size
  /\ (cpc = "scan" /\ en + got < entries_done) => en + got < backing_size

\* Whatever the interleaving with the tracer's stores, the index holds for
\* clnum n nothing or the entry of the file that starts instruction n: a torn
\* entry is left out and never shifts the ones after it (Trace.cpp:179-184).
IndexPointsToStart ==
  \A n \in 0 .. index_size - 1 :
    clnum_to_entry_number[n] # 0 =>
      LET e == clnum_to_entry_number[n]
      IN  e < file_size /\ IsStart(e) /\ buffer[e].clnum = n

\* What was ingested under a type was complete when it was read: it is what
\* the tracer finally stored (a segment load's operands apart, which are
\* stored late and not indexed).
IngestedAsWritten ==
  \A e \in DOMAIN ingested :
    ingested[e].type # "?" =>
      /\ TypeOf(buffer[e].flags) = ingested[e].type
      /\ \A f \in {"address", "clnum", "size", "flags"} : ingested[e].c[f] = buffer[e][f]
      /\ ingested[e].type # "s" => ingested[e].c.data = buffer[e].data

\* If no torn entry was met, every clnum below the published maximum can be
\* fetched at once: get_instruction_flow walks min_clnum .. max_clnum - 1
\* without looking for the ingest thread.
PublishedIsFetchable ==
  (\A e \in DOMAIN ingested : ingested[e].type # "?") =>
    \A n \in StartClnum .. max_clnum : n < max_clnum =>
      EntryOf(n) # 0 /\ EntryOf(n) < entries_done

\* FetchChangesByClnum(n) returns a run of entries of clnum n that begins with
\* its instruction start; without a limit, and if no torn entry was met, it
\* misses none that was ingested when it was called.
FetchIsExact ==
  (cpc = "returned" /\ en # 0) =>
    /\ limit # 0 => got <= limit
    /\ \A i \in 0 .. got - 1 : en + i < entries_done /\ buffer[en + i].clnum = req
    /\ got > 0 => IsStart(en)
    /\ (limit = 0 /\ \A e \in DOMAIN ingested : ingested[e].type # "?") =>
         \A e \in 1 .. en_done - 1 : buffer[e].clnum = req /\ req >= StartClnum =>
           e \in en .. en + got - 1

\* No update is lost between did_update_'s setter and its read-then-clear
\* (Trace.h:113): once everything is quiet the clients have the final range.
NoLostUpdate ==
  (dpc = "idle" /\ ~did_update /\ ~polling /\ cpc # "clear") => pushed_max = max_clnum

\* Tracer, mapping, indexes, flag and poller together are the live trace of
\* LiveTrace: the clnum the clients see is one the database published, out of
\* what the tracer had reached, although entries are ingested torn, published
\* before they are counted as done, and announced by a flag that is read and
\* cleared in two accesses.
Live == INSTANCE LiveTrace WITH
  traced <- changelist_number, published <- max_clnum, shown <- pushed_max, open <- is_running

ImplementsLive == Live!Spec

\* "there really shouldn't be holes" (Trace.cpp:181): between the first clnum
\* and the last in the index, every clnum has an entry.
NoHoles ==
  \A n \in StartClnum .. index_size - 1 : clnum_to_entry_number[n] # 0

\* Every entry the tracer claims is ingested, or the trace is being destroyed.
EventuallyIngested ==
  \A k \in 1 .. MaxEntries : (change_count = k) ~> (entries_done >= k \/ ~is_running)

\* The clients learn of every clnum ingested.
EventuallyPushed ==
  \A m \in StartClnum .. StartClnum + MaxEntries :
    (max_clnum = m) ~> (pushed_max >= m \/ ~is_running)

\* The destructor's join returns.
JoinReturns == (~is_running) ~> (dpc = "dead")

==============================================================================
