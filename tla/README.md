# A TLA+ model of QIRA

QIRA is a timeless debugger: a tracer runs a program and logs every
instruction, memory access and register access; a database ingests the log while
it is being written; a Python middleware answers the browser's queries about any
point of the run; a web page keeps a position in the run and shows views of it.
A point is named by its *clnum* (changelist number): clnum *n* is the n-th
instruction (QEMU: translation block) that was traced.

This directory models both ends of that path: from the tracer's stores to the
answers of the database, and from the middleware's messages to what the page
shows.  TLC checks the models on small instances.  For every instance TLAPS proves
the safety properties of the first half and that it implements an abstract live
trace; of the second half it proves what the strace panel, the names and the
static view show, that IDA and the browser's history agree with the page, and
that a page nobody touches follows the trace.

## 1. Inventory

| Component | State | Operations | Interacts with |
|---|---|---|---|
| QEMU tracer (`tracers/qemu.patch`) | log file with a header (`logstate`), its mapping, pending register changes, guest registers | `init_QIRA`, `add_change`, `track_*`, `commit_pending_changes`, `tcg_qemu_tb_exec` | database, through the mapped file |
| Replay (`run_QIRA_log`, `run_QIRA_mods`) | parent id and first clnum in the header | replay the parents' logs, apply modifications | logs of the parent runs |
| PIN tracer (`tracers/pin/qirapin.cpp`) | per-thread window of the log, shared clnum | `add_change`, `Record*`, `Syscall` | same file format |
| qiradb (`qiradb/qiradb/Trace.cpp`) | indexes, mapping, `entries_done_`, published range, `did_update_` | `process` in a thread; `Fetch*`, `GetDidUpdate`, destructor from Python | log file; binding |
| Binding (`_qiradb.cpp`) | a pointer to the trace | one function per query, under the GIL | middleware |
| Program (`qira_program.py`) | traces by run id, base memory, strace, analysis results | `add_trace`, `read_asm_file`, `analysis_thread` | database, static engine |
| Web server (`qira_webserver.py`) | none of its own | `mwpoll`, `forkat`, `deletefork`, queries | clients, program |
| Analysis (`qira_analysis.py`) | none | depth map, slice, blocks, loops, picture | database |
| Run allocation (`qira_socat.py`, `get_next_id`) | the directory of logs | next id; bind server | tracer, web server |
| Web client session (`web/client`: `fakemeteor.js`, `base.js`, `controls.js`, `idump.js`, `regmem.js`, `vtimeline.js`, `ida.js`) | Session: clnum, forknum, iaddr, daddr, views, dirtyiaddr, pmaps; pending autoruns; history and its timeouts; flags of the vtimeline | `Session.set`, autoruns, one handler per stream message, key, click, wheel, timeout | web server, IDA |
| Other views (`strace.js`, `haddrline.js`, `bignum.js`) | the window of system calls; chunks of pages and their flags | redraw, wheel, selection; arithmetic on hex strings | session |
| Static views (`highlight.js`, `static/`) | cache of names, rows, the function's graph | rename, comment, make, levels | static engine through the web server |
| Static engine (`static2`) | tags, functions, base memory | names, tags, function discovery | program, client |
| IDA plugin (`ida`) | last address seen | forward addresses, names | client |

What is hard is concentrated in two places.  Where the tracer and the database
meet, two processes share a file without a lock: the tracer bumps the counter
*before* it grows the file and fills the entry; the database trusts the counter,
remaps the file while other threads scan it, and publishes progress in plain
members.  On the page everything runs in one event loop, but the messages, the
user's events, the timeouts and the queued autoruns come in any order, answers
carry little of the question they answer, and setting a variable causes requests
whose answers set others, in a circle.  The remaining hard parts are the filter,
which holds register writes of library code back, run ids taken by scanning a
directory, and threads that iterate over a dictionary others delete from.
`PROJECT.json` lists each hazard with its line.

What makes the modelled components correct:

* tracer: no store outside the mapping; log ordered by clnum; replaying a log
  gives the guest's registers in spite of the filter;
* database: every query answers what the log says; answers about the past are
  final;
* together: no access outside the file; torn entries never corrupt an index; no
  update is lost; every entry is ingested, announced, and the thread can be
  stopped; clients see a range of clnums that only grows and was really traced;
* page: when the exchange with the server has died down (and it does), every view
  shows the selected position, the position is the one the user chose last, no
  deletion leaves it on a fork that is gone, flags and windows fit, IDA and the history agree with it.

## 2. Modules

### From the tracer to the database

`QemuTracer` - the tracer with one guest thread of a 32-bit x86 guest, the
register width that `PENDING_CHANGES_MAX_ADDR/4` and the steps of four in
`track_syscall_begin` are written for.  `add_change` is split
where another process can look in between: claim (`AddChange`), `DoubleBuffer`,
`WriteAddressAndData`, `WriteClnum`, `WriteFlags`.  `tpc` is the program point;
`ret` and `after` are where `add_change` and `commit_pending_changes` return to.
Address and data are one step, because no reader uses either before the flags are
valid.  The guest chooses what happens next (`Guest`); `Finish` collects the
steps of a handler under way.  Flags are sets of flag names and the size in bytes
is a field of its own; a register is its index; `Libraries` is what
`is_filtered_address` drops.  `Killed` is the process ending at any of
`KillPoints`.  The first block, which creates the log, and later ones are the same
function: `TracerInit` is the state after `open`.  Header fields that only a
forked run reads (`parent_id`, `first_changelist_number`, `this_pid`) wait for
the replay module.

`TraceDB` - the indexes and the queries as operators on them.  `InsertEntry` is
everything `process()` does to the indexes under `db_lock_` for an entry.
`ingested` is a history variable; each `...AsLogged` property compares a query
with its definition over the history.  Bytes are digits in base `ByteBase`.

`TraceIngest` - extends both: the ingest thread step by step (`dpc`), the call
in progress of the Python side (`cpc`; one at most, since the binding keeps the
GIL), and the poller of the web server for this trace.  Only a scan holds
`backing_mutex_` over more than one step, so `BackingUnlocked` stands for the
mutex.  `FetchChangesByClnum` is lookup, lock, one step per entry, return;
`GetDidUpdate` is read and clear.  The other queries are one critical section
and change nothing; they are checked in `TraceDB`.

`LiveTrace` - the abstract specification of the pipeline: `traced`, `published`
and `shown` are three counters, each behind the one before it, and `open`.
`TraceIngest` implements it with `changelist_number`, `max_clnum`, the maximum
the poller last pushed and `is_running` (`ImplementsLive` in `TraceIngest`).

`MCQemuTracer`, `MCTraceDB`, `MCTraceIngest` give the constants small values;
`MCTraceDB` also feeds `TraceDB` with every short log of the order that
`LogOrdered` guarantees, on a target of either endianness.

The theorems are in `QemuTracerProofs` (mapping and order of the log, and what it
replays to) and `TraceIngestProofs` (the thread beside the tracer, the refinement
of `LiveTrace`, what is ingested, published, announced and fetched, the registers
and memory of a clnum and the clnums of an address).

### The page and its server

`Session` - `fakemeteor.js`.  A page is a record and every function of the page
an operator from pages to pages; the modules below add fields.  `Set` queues the
autoruns registered for a variable; an action `ProcessTimeout` of each module that
has a page runs the queue.  What an autorun depends on is what it read when it
first ran, so an early return leaves it with fewer dependencies; `Tracked` gives
those.  `EnqueueAll` is the loop of `Session.set`.  `SessionProofs` says what it
leaves in the queue, and gives lemmas about requests and answers kept in order.

`WebClient` - the page's functions: `base.js` (history, going to a position),
`controls.js` (keys, inputs, clicks), `idump.js`, `regmem.js`, `vtimeline.js`,
`ida.js`.  `Run` runs an autorun by name; `OnInstructions`, `OnChanges`,
`OnMemory` ... handle a message.  What a panel shows is the request whose answer
was rendered last.  Each loop of the page is a fold with a name (`RunAll` over the
queue, `StartAll` over the autoruns of a script, `LoadAll` over the scripts,
`RestoreAll` over the keys of a history entry), so that `FoldProofs` can be
instantiated for it.

`ClientServer` - one page, the middleware and the stream between them.  `out` are
the requests under way, `toClient` the messages under way, both in order, as
socket.io keeps them.  The actions are those of the server (`HandleCall`,
`DeleteFork`, `Grow`, `NewRun`, `Poll`, `Analysed`; a new run takes the first
free number, so that of a deleted run may come back), of the page's event loop
(`Load`, `ProcessTimeout`, `Deliver`, `HistoryTimeout`, `PopState`), of the
websocket to IDA and of the user.  `last` remembers what the user did last,
and `gone` which numbers were deleted.  `Plain` are the instructions in whose text
no address is named: until the page maps have come, a row of any other one throws
(`get_data_type`) and ends `on_instructions` there.
The scripts of the page load one after the other while messages already come.
Its theorems are in `ClientServerProofs`.

A constant `Scenarios` says which traces exist, which autoruns are followed and
which kinds of events happen; the initial state chooses one.  The page has too
many independent parts to follow all at once, and an autorun that is not followed
only reads and draws, or belongs to a panel whose variables no event of that
scenario sets.  `MCClientServer` defines the scenarios.

`Strace` - `strace.js` with the server's push of system calls; its theorems are in
`StraceProofs`.

`AddressLine` - `bignum.js` on digit strings in a small base, with the places
where the code cuts a string as parameters; `haddrline.js` with its chunks, fills
and flags.  `emptied` remembers of which flags the line was drawn anew after their
address was selected: those are gone until the next selection.

`StaticGraph` - `static/graph.js`: the graph of a function from its blocks and
`assignLevels` vertex by vertex.  `render` stops at the panel that this page does
not have (`ui.js:65-66`, `graph.js:107`), so neither it nor the drag of the graph
is modelled.  `render` would leave the layout to graphviz; the levels are what the
code computes and hands to nobody yet.

`ClientTags` - names, comments, the make keys and the static view: `highlight.js`,
the rows of `idump.js`, `static/static.js`, the key handlers of `controls.js`, the
middleware's `settags`, `getnames`, `getinstructions`, `make`, `getstaticview`, and
the names of `static2`.  `withStatic` is the server's `--static`, off by default:
without it `make` and `getstaticview` have no handler.  `rnames` is who was given a
name first; a second address gets it with an underscore (`SetName`).  What
`make_function_at` may find is `MakeFunction`: instructions that come to be in
functions, and names for what is called or jumped to and had none.  It runs for a
make, in `getinstructions` (`display_call_args`), and in the thread of
`static.process` (`Analyse`), and nobody is told: `behind` is the history of what
was found and not asked for since.  A view of an address in no function is flat
whatever was asked.  Its theorems are in `ClientTagsProofs`.

`FoldProofs` - no model: `FoldLeft` over a list of any length, unrolled into its
steps, with the folded operator as a parameter.

The static panels are commented out in `ui.js:65-66`.  `StaticPanels` of
`ClientTags` says whether the page has them; its handlers are modelled both ways.

The operators named `Mutant...` are seeded faults (a forgotten wait, an
off-by-one, a dropped guard).  Put in the place of the definition that follows
them, each violates the property `PROJECT.json` pairs it with: evidence that the
property can fail.

## 3. Runs

| Run | Bounds | Shows |
|---|---|---|
| `tracer` | 4 changes, 2 registers, 3 blocks of which 1 is library code and 1 opens the gate, 2 system calls of which 1 is a segment load; start clnum 2 | `WritesMapped`, `LogOrdered`, `NoGapsBehindWriter`, `RegistersReplay`, `SyscallArgumentsReplay` |
| `db` | logs of 4 changes (3 on a big-endian target), accesses of 1 and 2 bytes that overlap, register addresses inside, between and beyond the register file | every query answers what the log says; `PastStable` |
| `ingest` | 3 changes, clamp 2, scans with limits 0 and 1, tracer may die before `ftruncate` | `MappedReads`, `IndexPointsToStart`, `IngestedAsWritten`, `PublishedIsFetchable`, `NoLostUpdate`, `FetchIsExact`, and the refinement `ImplementsLive` |
| `live` | 2 changes, clamp 1, fair scheduling | `EventuallyIngested`, `EventuallyPushed`, `JoinReturns` |
| `holes` | 3 changes, clamp 1 | violation: see below |
| `client` | eight scenarios (below), 2 or 3 user events | the page ends where the user sent it and its views show that |
| `client_live` | 1 trace of 3 clnums, 3 user events, fair server, network and event loop | `Settles` |
| `step_taken_back` | as `client_live` | violation: see below |
| `strace` | 2 forks, 4 calls, window of 3 | `StraceShown`, `PositionShown` |
| `address_line` | every set of up to 3 pages around a cut of the digit string, base 2 | `HaddrlineShown`, `BignumsAreNumbers` |
| `graph` | functions of 4 blocks, 10 or more ways out of each | `LevelsCorrect` |
| `tags` | 1 text for several addresses, 2 clnums, 3 addresses of which analysis may put one in a function and name one, and the loader named one; 3 user events, with and without `--static` and static panels, fair | `TagsShown`, `TagsSettle` |

The scenarios of `client`, each over every interleaving of its events with
requests, answers, pushes and autoruns:

| Scenario | Events | Properties about it |
|---|---|---|
| navigation | choose a fork, step, wheel, select a clnum, address, flag, function or name, delete a fork; 2 traces | `ForkSelected`, `PositionSticks`, `IaddrFollowsPosition`, `ViewsSettled` |
| rerun | choose a fork, select a clnum, an address or a flag, delete a fork, whose number the next run takes | `ForkSelected`, `PositionSticks`, `ViewsSettled` |
| views | inputs, data addresses, hexdump wheel, clearing | `ViewsSettled` |
| timeline | mouse, wheel, zoom, `j`/`k`, resize, growth | `VtimelineShown` |
| history | steps, data views, escape, back; history of 3 entries, 2 timeouts | `HistoryRecorded` |
| ida | IDA connects, closes, sends addresses; go to an address | `IdaFollows`, `AddressReached` |
| startup | scripts load while the traces grow and a new run comes | `FollowsLive`, `VtimelineShown` |
| pictures | scripts load while a new run and the pictures of the runs come | `VtimelineShown` |

Why the bounds suffice: the file starts with one entry and doubles, so 3 changes
already cross two doublings (sizes 1, 2, 4) and 4 cross three; a filtered stretch
needs one block, two writes, their commit and a system call; a clamp below the
number of changes makes a batch a clamped one; a start clnum of 2 makes the index
begin with empty slots, as in a forked run.  On the page every hazard is a second
event between the first one and the answer to it: two events and the requests
they cause reach it, and the steps that take the first event back need a third
(`client_live`, `history`).  The two traces differ at one clnum, an
address is executed more than once, and there are addresses only one of
them executes.  A window of 3 over 4 calls scrolls at both ends.  In base 2 with
cuts at 3 digits carries, borrows and lost digits all happen within 3
pages.  A vertex of a four-block function moves up to three levels.

Deadlock is not checked: a guest that has exited, a log at its bound, a destroyed
trace and a user who does nothing more really stop.

Fairness of `live`: a handler of the tracer that has begun goes on unless the
process dies (weak fairness of `Finish`; nothing is assumed of the guest); the
ingest thread sleeps 10 ms between calls and then gets the mutex although scans
take it again and again (strong fairness of `Thread`: the operating system's
mutex is released between any two scans); a call in progress continues (weak);
the poller polls every 0.2 s (strong, because other calls hold the GIL
in between).  `live` excludes a tracer killed between its increment of the
counter and its `ftruncate`: `remap_backing` then waits for ever, as the warning
it prints says.

Fairness of `client_live` and `tags`: weak fairness of the system's steps taken
together (the server handles the next request, the network delivers the next
message, the timeout of 0 ms fires).  Each of these steps stays enabled until it
is taken, and nothing is assumed of the user.

### What the two violations show

`holes`: a comment in `process()` says of the clnum index "there really shouldn't
be holes".  The counter is incremented before the entry's
flags are stored, so the thread can read an instruction start as `'?'`; it is
counted as done and not read again, and its clnum stays 0 in the index.  The
passing runs show how far the damage goes: the slot is empty, never wrong
(`IndexPointsToStart`), and everything ingested under a type is complete
(`IngestedAsWritten`).  `PublishedIsFetchable` and the last part of
`FetchIsExact` therefore speak of runs in which no torn entry was met.

`step_taken_back`: QIRA's README.md documents "down -- +1 clnum".  Selecting an address
sets `dirtyiaddr`, which allows the answer about the address to move the clnum;
only a move clears it.  When the clnum already executes the address it stays set,
and a later step from a page at rest is taken back by the answer about the address
the step leaves.  `PositionSticks` states what does hold: a position is kept
unless an address is left to be followed.

### Disagreements met while modelling that no run is spent on

(README.md here is QIRA's own.)

* README.md:56 says "red is every passthrough of the current iaddr".  The page asks
  for the closed window it shows and the server answers a half-open one
  (`base.js:132`, `Trace.cpp:260`), so a passthrough at the last clnum of the view
  has no flag.  `VtimelineShown` says that every flag is a passthrough and
  every passthrough in the view but that one has a flag.
* The fork input takes any number (`controls.js:43-45`), and the autorun that
  selects a valid fork reads `forknum` without depending on it (`:21`): the page
  stays on a fork that does not exist until the traces change.  `ForkSelected`
  says that only the user's entering one leads there.
* New pages empty the address line and its flags with it (`haddrline.js:41`); the
  flags come back only with the next selection.  When `daddr` is cleared its
  flag stays where it was (`:79-82`).  `FlagsAtAddress` says so.
* A run takes the first free number, also that of a deleted run
  (`qemu.patch:545`).  A page that does not see the old one go keeps its views;
  `ViewsSettled` and `IaddrFollowsPosition` leave numbers that were used before out.
* A page without `pmaps` throws at the first row whose text has an address
  (`idump.js:13-33`), before it sets `iaddr` if that row comes first;
  `IaddrFollowsPosition` leaves such a page out.
* Names that analysis gives (`analyzer.py:34`, `:43`, `:49`) are not sent to the
  page.  With `--static` and no panels the key `p` renames addresses and nothing
  asks for the names again; the same goes for `getinstructions` and the thread
  of `static.process`, which may also put the address of a static view in a
  function after it was drawn flat.  `TagsShown` excepts what was found since
  the page last asked, and nothing else.
* After the longest fork is deleted the wheel of the vtimeline can leave its view
  below 0 (`vtimeline.js:43-48`); `VtimelineShown` speaks of the bounds of the
  view only when no fork was deleted and the view not cleared.
* A late answer fills the hexdump after `dview` was cleared (`regmem.js:41`, `:113`).
* Holes in the address line are filled up to 16 pages by the comment and up to 8 by
  the code (`haddrline.js:17`, `:27`); `ChunksCoverPages` asserts neither number,
  only that chunks are runs of adjacent pages that do not touch.
* `assignLevels` gives up at 100 levels and then takes off a level that still has
  vertices (`graph.js:37`, `:73`).
* The space key switches to a function view that has no panel (README.md:98,
  `graph.js:107`).
* A comment can be overwritten on the page by an answer computed before it was
  stored, until the next answer (README.md:94, `idump.js:31`).
* A fork whose system calls have not come keeps those of the fork before it on the
  panel (`strace.js:14`); `StraceShown` speaks of forks whose calls have come.
* An address set while the socket to IDA is connecting is lost (`ida.js:10`, `:27`);
  `IdaFollows` leaves it out.
* README.md:81 documents a key `l` that no handler handles.
* `historyTimeout` is never assigned: no timeout is ever cleared
  (`base.js:57-58`).  `HistoryRecorded` shows that this does not spoil the history:
  an entry equal to the current one is not pushed.
* The page maps sent before the script that listens to them has loaded are lost
  until the next update; `ViewsSettled` speaks of pages that have them.

## 4. Proofs

All proofs are for arbitrary constants that satisfy the named assumptions
(`TracerAssumption`, `TraceDBAssumption`, `IngestAssumption`; for the strace panel
`WindowAssumption`, that some but not all calls of the window lie in front of the
position, and `ForksAssumption`, that there is a fork and forks are numbers);
`MaxEntries` is an arbitrary number.  About the page they assume that

* a page that keeps a history runs the autorun that records it
  (`HistoryAssumption`), that no more scripts have run than there are
  (`LoadedAssumption`), that forks and clnums are numbers and `controls.js`
  registers its autorun that selects a fork (`TracesAssumption`);
* `None`, JavaScript's undefined, is none of the values a variable is compared
  with (`UndefinedAssumption`; `TagsAssumption` for texts and names);
* the addresses that loader and analysis name are addresses of the page, and no
  user enters a name that analysis makes up (`TagsAssumption`).

TLC evaluates all of them on the runs.

* `TracerTypeCorrect`, `TracerWritesMapped`, `TracerLogOrdered`.
  `LogOrdered` alone is not inductive: to store a valid flag one must know the
  clnum of the entry being written against all before it.  `TracerInv` adds
  `Cursor` (where the claimed entry lies against counter, mapping and file, by
  program point), `Unwritten` (the claimed entry and all after it are not valid)
  and `Behind` (valid entries have clnums up to the current one, and below it if
  the entry being written starts an instruction).
* `IngestRunsTracer`: the composition implements `TracerSpec`, so the tracer's
  theorems carry over.
* `IngestIndexCorrect`: `push_back` puts an entry at its clnum only if the vector
  is no longer than that.  `IngestInv` adds `LastIndexed` (the vector's last
  element is an instruction start the thread has already passed) and `Latched`
  (a type `I` read before the lock is still right in it, because the tracer never
  touches the flags of a complete entry: `TracerKeepsFile`).  With `LogOrdered`
  the last element's clnum is smaller than the new one (`IndexEndsBefore`).
* `IngestReadsMapped`: from `Window` (how far the thread has got, latched and
  mapped, by program point) and `Calling` (no call runs in a destroyed object).
* `IngestTypeCorrect`: types of all variables, from `TypedInv`.
* `IngestImplementsLive`: the composition implements `LiveTrace` for every
  instance.  Initial states map to initial states; a step of the tracer that
  writes the header or opens a block is `Advance`, the update of `max_clnum_` under the lock is
  `Publish`, the poller's push is `Show`, the destructor's start is `Close`, and
  all others are stutters.  `Publish` needs that what the thread publishes was
  traced: `LiveInv` is `TypedInv`, `Reached` (no entry of the file has a clnum above
  the tracer's, and that is 0 until the header is written) and
  `max_clnum <= changelist_number`.

* `TracerNoGaps`: from `Filled`, every claimed entry is valid, the one being
  written apart.
* `TracerRegistersReplay`, `TracerSyscallArguments`.  Inside a handler a register
  may be neither in the log nor pending, because the entry that holds it is being
  written.  `ReplayInv` therefore speaks of `Logged`, what the log replays to when
  the entry being written is in: a register is what is pending or else `Logged`;
  `commit_pending_changes` brings the two together register by register; and
  nothing is pending where the filter is off and at the points `Committed`
  (`RegisterFollows`).  `Stored` says what of the entry being written is already
  in the file.
* `IngestAsWritten`, `IngestIndexesAsLogged`, `IngestPublishedIsFetchable`.
  `EntriesFinal` is a fact about every step: a valid entry is never written again,
  except for the data of a segment load.  `ReadInv` adds to `LiveInv` which entries
  the thread has been through and what it has latched (`Reading`), that all it
  ingested is final (`AsWritten`), that the index and the pages hold it
  (`IndexAsLogged`, `PagesMarked`), and that the published maximum was read
  (`Published`).  That no clnum below the maximum is missing comes from the log,
  not from the thread: `LogInv` says that every clnum the tracer has been through
  has its instruction start (`Dense`), that a clnum is stored once (`ClnumUnset`),
  and which entries are completed late (`SegmentEntry`).
* `IngestNoLostUpdate`, `IngestFetchIsExact`: `QueryInv` adds `Announced` (when the
  thread is not in a batch, `did_update_` is clear and no poll is under way, the
  clients have the published maximum), `Copied` (what a scan has copied are
  ingested entries of its clnum from the start it looked up) and `Stopped` (it
  stopped at the end of what was ingested when it was called, at a torn entry or
  at one of another clnum).
* `IngestRegistersAsLogged`, `IngestMemoryAsLogged`, `IngestPastStable`.  A
  register or a byte is a map from clnums to values, asked with `upper_bound`;
  the definition over the log takes the *last entry* up to a clnum.  `CellOK`
  relates the two: the keys are the clnums of the entries of the cell, and the
  value at a key is that of the last entry with that clnum.  `CellLookup` shows
  that a lookup in such a cell is the definition, `CellPut` that inserting the
  next entry keeps it so, provided the entries come in the order of their clnums
  (`InOrder`, from `LogOrdered` and `AsWritten`).  `StateInv` is `ReadInv`, a cell
  for every register and every byte (`RegCells`, `MemCells`), and `MaxBehind`
  (an entry that is still to be ingested has a clnum at or above the published
  maximum), on which `IngestPastStable` rests.  Both definitions are maxima of
  finite sets of numbers; that these exist is proved from the well-ordering
  principle (`LeastNat`).  `BigEndian` is a constant, so the memory theorem
  covers either byte order, which the run `db` checks as `MemoryOfEither`.
* `IngestClnumsAsLogged`.  The answer walks an ordered set; the model takes *the*
  ascending enumeration of a set (`Ascending`), and the proof must show that there
  is one and that its first elements are the first of the set.  `ListExists` does
  so by taking a least bound for which no enumeration exists (the induction
  theorems of the library are out of reach, the well-ordering principle is not);
  `ClnumSets` says that the set kept for an address and a type holds the clnums of
  the entries ingested.  With it every invariant of the runs `db` and `ingest` is
  a theorem about the database *beside* a running tracer.
* `StraceWindowShown`, `StracePositionShown`.  The panel has two autoruns, one of
  which queues the other, a handler that draws without asking either, and a wheel
  that moves the window; `StraceShown` speaks of pages with an empty queue only.
  `StraceInv` says what holds in between: what is not drawn has its redraw waiting
  (`Drawn`), a window that follows the position is there or has its update waiting
  (`Following`), both autoruns depend on what they must, and the window has its size
  (`PageOK`).  `_process` and `Session.set` are folds; since a queue never has more
  than the two autoruns in it, they are unrolled (`RunsOfQueue`, `EnqueuesOfList`),
  and `ProcessKeeps` goes through the five queues there are.  `WindowIs` is the
  arithmetic of the window for every size and every number of calls.

* Loops over queues of any length.  What a recursive definition computes cannot be
  proved by the library's induction theorems, which take an operator as a
  parameter.  `FoldProofs` goes around them: `FoldSteps` shows, with the
  well-ordering principle, that there is a function *r* with *r*[0] the start,
  *r*[*i*] the operator applied to *r*[*i*-1] and the *i*-th element, and the last
  one the fold; `UpTo` is induction about membership in a set.  An
  invariant of a loop is then the set of the *i* for which it holds of *r*[*i*].
  `EnqueueAllContains` is the first use: `Session.set` leaves in the queue what was
  there and what depends on the variable.
* `TagsShownAlways` (`ClientTags`), for every trace length, every set of texts, with
  and without `--static`, whatever analysis finds and names, and for any number of
  events.  A row may show an old name while the answer with the new
  one is under way, but only if no answer behind that one is older.  `TagsInv` says
  for every row and for the static view: what is shown is what the server has, or
  the last message that tells it tells what the server has, or it
  is asked for behind every request that changes it (`Coming`); and a row without
  a name stays so only while the server has none or will tell (`Nameless`).
  The invariant does not speak of the server's tags but of what the page can know
  of them (`Told`, `Server`), which analysis leaves as it is: names it gives and
  views it changes are counted as `behind` in the same step (`MakeFunctionTold`),
  until they are asked for.  `InvHandleCall` goes through the requests, `InvAnalyse`
  through the steps of analysis, `OnNamesKeeps`, `OnStaticKeeps` and
  `OnInstructionsKeeps` through the answers.
* `PageInductive`, `IdaFollowsAlways`, `HistoryRecordedAlways` (`ClientServer`),
  for every scenario, so for any traces, events, autoruns and scripts loaded.
  `ClientInv` says that the page has run no script yet (`Blank`), or is `Good`: the
  autoruns of IDA and of the history are registered for what they must follow, and
  each is in the queue, or what it does is done (`IdaTold`; `HistoryTold`, where an
  outstanding timeout counts too).  Within the loop that runs the queue, `Good`
  has the set *A* of the autoruns that are still to be run as a parameter, and each
  step of the loop takes one from it (`RunGood`).  `onpopstate` is the other loop
  (`GoodRestore`): it sets only what differs from the entry, and what it sets
  queues the autorun again.  There is a lemma `Good...` for each function of the
  page, whichever event calls it.
* `FollowsLiveAlways` (`ClientServer`).  That the clnum is the end of the trace is
  not inductive: between an update of the traces and the autorun that selects a
  fork the selected one may not exist, and `update_maxclnum` moves the position
  only if it was at the *old* end, which an update that came out of order would
  spoil.  `LiveInv` says, as long as the user has done nothing: the position is
  the end of the selected fork, and there is none while that fork does not exist;
  the fork exists or the autorun that selects one waits (`Live`); nobody has asked
  for anything but the autoruns, so that no answer navigates; and in the messages
  under way no fork disappears, of those the page knows and of those an earlier
  message told (`Stream`).  Functions that leave the position alone are `Calm`,
  which is transitive; `LiveUpdate`, `LiveFirst` and `LiveLoad` are the three that
  do not, or that register the autorun.

Every strengthened invariant was first checked by TLC on the instance of `ingest`,
`tracer`, `strace`, `tags` or `client`.

Only model-checked:

* the liveness properties (`EventuallyIngested`, `EventuallyPushed`,
  `JoinReturns`, `Settles`, `TagsSettle`): fairness is out of the prover's reach;
* `MemoryOfEither` as it stands, which speaks of two byte orders at once; its
  content is `IngestMemoryAsLogged`;
* `LevelsCorrect`, `BignumsAreNumbers` and `HaddrlineShown`: what their recursions
  over vertices, digits and pages compute would need an induction over data;
* `ForkSelected`.  No state predicate behind it is inductive in general.  Going back can restore an
  undefined `cview` that was recorded before the first update; `redraw_flags` then
  returns early and leaves the flags of a fork that is deleted later, and a click
  on such a flag selects that fork.  The run's scenarios combine
  either going back or deleting with the rest, not both;
* `ViewsSettled`, `PositionSticks`, `IaddrFollowsPosition`, `AddressReached` and
  `VtimelineShown`.  They relate answers to the data behind them (which clnums
  execute an address, that a fork number is not used again after a deletion), and
  the last three speak of some scenarios only; their invariants would have to follow each
  request from the autorun to the view, as `TagsInv` does for two kinds of
  requests.

## 5. Plan

Left, in this order:

1. `ViewsSettled` as a theorem, along the lines of `TagsInv`: for each view the
   last of what is shown, told and asked for is the selected position.
2. Run ids: `get_next_id`, `get_next_run_id`, `forkat`, the bind server and the
   fork detection of the tracer; `mwpoll` beside a `deletefork` in another thread.
3. Replay through a chain of parents (`run_QIRA_log`, `run_QIRA_mods`).
4. Analysis algorithms (depth map, slice, blocks, loops, the thinning of
   `getchanges` above 50 clnums) against reference definitions, for TLC;
   `analysis_thread`.
5. Static engine: the descent of `make_function_at` through instructions and blocks.
6. PIN tracer: window arithmetic and clnums shared by threads; a second guest
   thread and 8-byte registers in `QemuTracer`.

## 6. Not modelled

* Of the page: pixels, colours, HTML and the docking of panels (`ui.js`), `render` and
  the drag of the function graph (`graph.js:93`, `controls.js:63-95`: their panel is
  not on the page), what graphviz computes and draws (`/dot`), the vendored scripts (`jquery.*`,
  `head.js`, `wcDocker`); `navigateiaddr`, which has no handler on the server, and
  `reverseEdge`, `inLineage`, `debugPrint` and `async_tags_request`, which nothing
  calls; the key `y` with `setfunctionargswrap` (`controls.js:152-158`), which changes
  only the text that lists a call's arguments; prompts that are cancelled or left
  empty, and inputs that are no numbers.
* Of the server: `slice`, `forkat`, `gotoaddr` and the resolution of names, the
  thinning of `getchanges`, base memory, the asm text file.
* Failures of the operating system: `ftruncate` that cannot grow the log
  (`qemu.patch:341-343`), maps and files that cannot be opened.
* Parsing of binaries, disassembly, the concrete executor, Windows variants of
  the locks, and everything under `extra/`.
* Integer widths: counters and clnums are natural numbers (32 bits in the code; a
  log of 2^32 entries of 24 bytes is out of reach of the mapping the code uses).
  The page's clnums are small; its addresses are strings, and `AddressLine`
  models them as such.
