----------------------------- MODULE QemuTracer -----------------------------
(***************************************************************************)
(* The QEMU tracer (tracers/qemu.patch): one guest thread whose memory and *)
(* register accesses, instruction starts and system calls are appended to  *)
(* a log file shared with the database through mmap.                       *)
(*                                                                         *)
(* Every append is a call of add_change, which claims an entry by bumping  *)
(* the counter in the file's header and only then, store by store, grows   *)
(* the file and fills the entry in: each store another process can observe *)
(* is a step of its own.  Code between two such stores is folded into the  *)
(* step that follows it.                                                   *)
(***************************************************************************)
EXTENDS Naturals, FiniteSets

CONSTANTS
  MaxEntries,   \* bound: entries a run may claim, the header included
  StartClnum,   \* GLOBAL_start_clnum: 1, or the clnum a run forks at
  Pcs,          \* addresses of translation blocks
  Libraries,    \* the blocks is_filtered_address drops ({}: -tracelibraries)
  GateTrace,    \* initial GLOBAL_gatetrace, a block or NoGate
  NoGate,       \* "no gate": the 0 of GLOBAL_gatetrace
  RegCount,     \* registers in env, addresses 0 .. RegCount-1
  PendingMax,   \* PENDING_CHANGES_MAX_ADDR: registers below it can be pending
  SysRegs,      \* registers track_syscall_begin dumps: those below SysRegs
  MemAddrs,     \* guest memory addresses
  Data,         \* values of registers and memory
  Sizes,        \* access sizes in bytes
  SysNrs,       \* system calls of the guest, LoadSeg among them
  LoadSeg,      \* FAKE_SYSCALL_LOADSEG
  None,         \* an entry of GLOBAL_pending_changes without IS_VALID
  KillPoints    \* program points at which the tracer may be killed

ASSUME TracerAssumption ==
  /\ MaxEntries \in Nat
  /\ StartClnum \in Nat \ {0}
  /\ Pcs \subseteq Nat
  /\ Libraries \subseteq Pcs
  /\ GateTrace \in Pcs \cup {NoGate}
  /\ NoGate \notin Nat
  /\ None \notin Nat
  /\ RegCount \in Nat \ {0}
  /\ PendingMax \in 0 .. RegCount
  /\ SysRegs \in 0 .. RegCount
  /\ MemAddrs \subseteq Nat
  /\ Data \subseteq Nat
  /\ 0 \in Data
  /\ Sizes \subseteq Nat
  /\ SysNrs \subseteq Nat
  /\ LoadSeg \in Nat

VARIABLES
  \* the log file, seen by every process that maps it
  file_size,          \* length of the file in entries
  buffer,             \* its entries; entry 0 is the header and unused here
  change_count,       \* logstate.change_count, in the header
  \* the tracer's own state
  change_size,        \* GLOBAL_change_size: entries the tracer has mapped
  changelist_number,  \* logstate.changelist_number
  is_filtered,        \* logstate.is_filtered
  gatetrace,          \* GLOBAL_gatetrace
  pending,            \* GLOBAL_pending_changes: a value per register, or None
  env,                \* the guest's registers
  \* where the tracer is
  tpc,                \* program point
  cc, cur,            \* add_change: the claimed entry and its arguments
  ret,                \* add_change: where its caller continues
  loop_i,             \* index of the loop over pending changes or registers
  after,              \* where commit_pending_changes' caller continues
  job                 \* block or system call being logged

fileVars == <<file_size, buffer, change_count>>
localVars == <<change_size, changelist_number, is_filtered, gatetrace,
               pending, env, tpc, cc, cur, ret, loop_i, after, job>>
tracerVars == <<fileVars, localVars>>

Regs == 0 .. RegCount - 1
Flags == {"VALID", "WRITE", "MEM", "START", "SYSCALL"}

\* struct change; size stands for (flags & SIZE_MASK) / 8
Change == [address : Nat, data : Nat, clnum : Nat, flags : SUBSET Flags, size : Nat]

\* what ftruncate makes a file's new entries read as
ZeroChange == [address |-> 0, data |-> 0, clnum |-> 0, flags |-> {}, size |-> 0]

\* program points between two guest events
Idle == {"boot", "body", "syscall"}
\* program points inside add_change, in the order it goes through them
InAdd == {"resize", "address", "clnum", "flags"}
Points == {"create", "header", "tb", "commit", "start", "sysregs", "segdata", "killed"}
            \cup Idle \cup InAdd

-----------------------------------------------------------------------------
(* Creation of the log: init_QIRA.                                         *)

\* The file has been unlinked and opened with O_CREAT: it exists, empty.
TracerInit ==
  /\ file_size = 0
  /\ buffer = [e \in {} |-> ZeroChange]
  /\ change_count = 0
  /\ change_size = 1
  /\ changelist_number = 0
  /\ is_filtered = FALSE
  /\ gatetrace = GateTrace
  /\ pending = [r \in Regs |-> None]
  /\ env = [r \in Regs |-> 0]
  /\ tpc = "create"
  /\ cc = 0
  /\ cur = ZeroChange
  /\ ret = "boot"
  /\ loop_i = 0
  /\ after = "start"
  /\ job = 0

\* Fault: ftruncate is forgotten.
MutantTruncated(n) == buffer

\* The file's first n entries, those beyond its old end reading as zero.
Truncated(n) == [e \in 0 .. n - 1 |-> IF e < file_size THEN buffer[e] ELSE ZeroChange]

\* resize_change_buffer(size) for a file of n entries.  A failed ftruncate is only
\* reported: the file stays as it is and the tracer ends with its next store,
\* beyond the file's end.  The other processes see the same when the tracer is
\* Killed at "resize".
ResizeChangeBuffer(n) ==
  /\ file_size' = n
  /\ buffer' = Truncated(n)

\* init_QIRA gives the file its first entry, the header.
CreateLog ==
  /\ tpc = "create"
  /\ ResizeChangeBuffer(change_size)
  /\ tpc' = "header"
  /\ UNCHANGED <<change_count, change_size, changelist_number, is_filtered,
                 gatetrace, pending, env, cc, cur, ret, loop_i, after, job>>

\* init_QIRA fills in the header; the first entry is skipped.
WriteHeader ==
  /\ tpc = "header"
  /\ change_count' = 1
  /\ changelist_number' = StartClnum - 1
  /\ is_filtered' = FALSE
  /\ tpc' = "boot"
  /\ UNCHANGED <<file_size, buffer, change_size, gatetrace, pending, env, cc, cur,
                 ret, loop_i, after, job>>

-----------------------------------------------------------------------------
(* add_change, store by store.                                             *)

\* Fault: the resize test is off by one.
MutantAddChange(a, d, sz, fl, k) ==
  /\ change_count < MaxEntries
  /\ cc' = change_count
  /\ change_count' = change_count + 1
  /\ cur' = [address |-> a, data |-> d, clnum |-> 0, flags |-> fl \cup {"VALID"}, size |-> sz]
  /\ ret' = k
  /\ tpc' = IF change_count = change_size + 1 THEN "resize" ELSE "address"

\* The call add_change(a, d, fl | size) up to its first store, the atomic
\* increment of change_count; the caller continues at point k.
AddChange(a, d, sz, fl, k) ==
  /\ change_count < MaxEntries
  /\ cc' = change_count
  /\ change_count' = change_count + 1
  /\ cur' = [address |-> a, data |-> d, clnum |-> 0, flags |-> fl \cup {"VALID"}, size |-> sz]
  /\ ret' = k
  /\ tpc' = IF change_count = change_size THEN "resize" ELSE "address"

\* The buffer is full: double the file and map it again.
DoubleBuffer ==
  /\ tpc = "resize"
  /\ ResizeChangeBuffer(change_size * 2)
  /\ change_size' = change_size * 2
  /\ tpc' = "address"
  /\ UNCHANGED <<change_count, changelist_number, is_filtered, gatetrace, pending,
                 env, cc, cur, ret, loop_i, after, job>>

WriteAddressAndData ==
  /\ tpc = "address"
  /\ buffer' = [buffer EXCEPT ![cc].address = cur.address, ![cc].data = cur.data]
  /\ tpc' = "clnum"
  /\ UNCHANGED <<file_size, change_count, change_size, changelist_number, is_filtered,
                 gatetrace, pending, env, cc, cur, ret, loop_i, after, job>>

WriteClnum ==
  /\ tpc = "clnum"
  /\ buffer' = [buffer EXCEPT ![cc].clnum = changelist_number]
  /\ tpc' = "flags"
  /\ UNCHANGED <<file_size, change_count, change_size, changelist_number, is_filtered,
                 gatetrace, pending, env, cc, cur, ret, loop_i, after, job>>

\* Fault: IS_VALID is not or-ed into the flags of a system call.
MutantWriteFlags ==
  /\ tpc = "flags"
  /\ buffer' = [buffer EXCEPT ![cc].size = cur.size,
                              ![cc].flags = IF "SYSCALL" \in cur.flags THEN {"SYSCALL"} ELSE cur.flags]
  /\ tpc' = ret
  /\ UNCHANGED <<file_size, change_count, change_size, changelist_number, is_filtered,
                 gatetrace, pending, env, cc, cur, ret, loop_i, after, job>>

\* The last store makes the entry valid; add_change returns.
WriteFlags ==
  /\ tpc = "flags"
  /\ buffer' = [buffer EXCEPT ![cc].flags = cur.flags, ![cc].size = cur.size]
  /\ tpc' = ret
  /\ UNCHANGED <<file_size, change_count, change_size, changelist_number, is_filtered,
                 gatetrace, pending, env, cc, cur, ret, loop_i, after, job>>

-----------------------------------------------------------------------------
(* The start of a translation block: tcg_qemu_tb_exec.                     *)

\* is_filtered_address(pc, false); gatetrace opens at the block it names
FilteredAddress(pc) ==
  \/ gatetrace \notin {NoGate, pc}
  \/ pc \in Libraries

\* The first block after a system call logs what the kernel returned.
SyscallReturn(v) ==
  /\ tpc = "syscall"
  /\ env' = [env EXCEPT ![0] = v]
  /\ AddChange(0, v, 1, {"WRITE"}, "tb")
  /\ UNCHANGED <<file_size, buffer, change_size, changelist_number, is_filtered,
                 gatetrace, pending, loop_i, after, job>>

\* Fault: changelist_number is not incremented.
MutantStartInstruction(pc) ==
  /\ UNCHANGED changelist_number
  /\ AddChange(pc, 1, 0, {"START"}, "body")

\* changelist_number++; add_change(tb->pc, tb->size, IS_START)
StartInstruction(pc) ==
  /\ changelist_number' = changelist_number + 1
  /\ AddChange(pc, 1, 0, {"START"}, "body")

\* A block starts: a filtered one is only noted, an unfiltered one gets a
\* clnum of its own, after the pending changes if filtered ones preceded it.
TbExec(pc) ==
  /\ tpc \in {"boot", "body", "tb"}
  /\ gatetrace' = IF gatetrace = pc THEN NoGate ELSE gatetrace
  /\ \/ /\ FilteredAddress(pc)
        /\ is_filtered' = TRUE
        /\ tpc' = "body"
        /\ UNCHANGED <<change_count, changelist_number, cc, cur, ret, loop_i, after, job>>
     \/ /\ ~FilteredAddress(pc)
        /\ is_filtered
        /\ tpc' = "commit"
        /\ loop_i' = 0
        /\ after' = "start"
        /\ job' = pc
        /\ UNCHANGED <<change_count, changelist_number, is_filtered, cc, cur, ret>>
     \/ /\ ~FilteredAddress(pc)
        /\ ~is_filtered
        /\ StartInstruction(pc)
        /\ UNCHANGED <<is_filtered, loop_i, after, job>>
  /\ UNCHANGED <<file_size, buffer, change_size, pending, env>>

\* The rest of an unfiltered block's start, once the pending changes are in.
TbStart ==
  /\ tpc = "start"
  /\ is_filtered' = FALSE
  /\ StartInstruction(job)
  /\ job' = 0
  /\ UNCHANGED <<file_size, buffer, change_size, gatetrace, pending, env, loop_i,
                 after>>

-----------------------------------------------------------------------------
(* commit_pending_changes: its loop, then its memset.                      *)

CommitOne(r) ==
  /\ tpc = "commit"
  /\ r >= loop_i
  /\ pending[r] # None
  /\ \A q \in loop_i .. r - 1 : pending[q] = None
  /\ loop_i' = r + 1
  /\ AddChange(r, pending[r], 1, {"WRITE"}, "commit")
  /\ UNCHANGED <<file_size, buffer, change_size, changelist_number, is_filtered,
                 gatetrace, pending, env, after, job>>

\* Fault: the loop stops one register early.
MutantCommitDone ==
  /\ tpc = "commit"
  /\ \A q \in loop_i .. RegCount - 2 : pending[q] = None
  /\ pending' = [r \in Regs |-> None]
  /\ loop_i' = 0
  /\ tpc' = after
  /\ UNCHANGED <<file_size, buffer, change_count, change_size, changelist_number,
                 is_filtered, gatetrace, env, cc, cur, ret, after, job>>

CommitDone ==
  /\ tpc = "commit"
  /\ \A q \in loop_i .. RegCount - 1 : pending[q] = None
  /\ pending' = [r \in Regs |-> None]
  /\ loop_i' = 0
  /\ tpc' = after
  /\ UNCHANGED <<file_size, buffer, change_count, change_size, changelist_number,
                 is_filtered, gatetrace, env, cc, cur, ret, after, job>>

-----------------------------------------------------------------------------
(* What the guest does inside a block.                                     *)

TrackLoad(a, d, sz) ==
  /\ tpc = "body"
  /\ AddChange(a, d, sz, {"MEM"}, "body")
  /\ UNCHANGED <<file_size, buffer, change_size, changelist_number, is_filtered,
                 gatetrace, pending, env, loop_i, after, job>>

TrackStore(a, d, sz) ==
  /\ tpc = "body"
  /\ AddChange(a, d, sz, {"MEM", "WRITE"}, "body")
  /\ UNCHANGED <<file_size, buffer, change_size, changelist_number, is_filtered,
                 gatetrace, pending, env, loop_i, after, job>>

\* Register reads are logged unless the block is filtered.
TrackRead(r) ==
  /\ tpc = "body"
  /\ ~is_filtered
  /\ AddChange(r, env[r], 1, {}, "body")
  /\ UNCHANGED <<file_size, buffer, change_size, changelist_number, is_filtered,
                 gatetrace, pending, env, loop_i, after, job>>

\* add_pending_change drops a register at PENDING_CHANGES_MAX_ADDR or above.
AddPendingChange(r, d) ==
  pending' = IF r < PendingMax THEN [pending EXCEPT ![r] = d] ELSE pending

\* A register write is logged, or remembered as pending in a filtered block.
TrackWrite(r, d) ==
  /\ tpc = "body"
  /\ env' = [env EXCEPT ![r] = d]
  /\ \/ /\ ~is_filtered
        /\ AddChange(r, d, 1, {"WRITE"}, "body")
        /\ UNCHANGED pending
     \/ /\ is_filtered
        /\ AddPendingChange(r, d)
        /\ UNCHANGED <<change_count, tpc, cc, cur, ret>>
  /\ UNCHANGED <<file_size, buffer, change_size, changelist_number, is_filtered,
                 gatetrace, loop_i, after, job>>

\* Fault: the pending changes are not committed before a system call.
MutantOpCall(nr) ==
  /\ tpc = "body"
  /\ tpc' = "sysregs"
  /\ loop_i' = IF is_filtered THEN 0 ELSE SysRegs
  /\ after' = "sysregs"
  /\ job' = nr
  /\ UNCHANGED <<fileVars, change_size, changelist_number, is_filtered, gatetrace,
                 pending, env, cc, cur, ret>>

\* The hook in INDEX_op_call for a system call or a segment load: out of a
\* filtered block the pending changes are committed first.
OpCall(nr) ==
  /\ tpc = "body"
  /\ tpc' = IF is_filtered THEN "commit" ELSE "sysregs"
  /\ loop_i' = IF is_filtered THEN 0 ELSE SysRegs
  /\ after' = "sysregs"
  /\ job' = nr
  /\ UNCHANGED <<fileVars, change_size, changelist_number, is_filtered, gatetrace,
                 pending, env, cc, cur, ret>>

\* track_syscall_begin: the registers, out of a filtered block ...
SyscallRegister ==
  /\ tpc = "sysregs"
  /\ loop_i < SysRegs
  /\ loop_i' = loop_i + 1
  /\ AddChange(loop_i, env[loop_i], 1, {"WRITE"}, "sysregs")
  /\ UNCHANGED <<file_size, buffer, change_size, changelist_number, is_filtered,
                 gatetrace, pending, env, after, job>>

\* ... then the call itself.
SyscallBegin ==
  /\ tpc = "sysregs"
  /\ loop_i = SysRegs
  /\ AddChange(job, 0, 0, {"SYSCALL"}, IF job = LoadSeg THEN "segdata" ELSE "syscall")
  /\ job' = 0
  /\ loop_i' = 0
  /\ UNCHANGED <<file_size, buffer, change_size, changelist_number, is_filtered,
                 gatetrace, pending, env, after>>

\* a->data = ...: a segment load's operands are stored after add_change returned.
SegmentData(d) ==
  /\ tpc = "segdata"
  /\ buffer' = [buffer EXCEPT ![cc].data = d]
  /\ tpc' = "body"
  /\ UNCHANGED <<file_size, change_count, change_size, changelist_number, is_filtered,
                 gatetrace, pending, env, cc, cur, ret, loop_i, after, job>>

\* track_kernel_write, one byte of a buffer the kernel filled.
TrackKernelWrite(a, d) ==
  /\ tpc = "syscall"
  /\ AddChange(a, d, 1, {"MEM", "WRITE"}, "syscall")
  /\ UNCHANGED <<file_size, buffer, change_size, changelist_number, is_filtered,
                 gatetrace, pending, env, loop_i, after, job>>

\* The guest exits, or the process is killed between two stores.
Killed ==
  /\ tpc \in KillPoints \ {"killed"}
  /\ tpc' = "killed"
  /\ UNCHANGED <<fileVars, change_size, changelist_number, is_filtered, gatetrace,
                 pending, env, cc, cur, ret, loop_i, after, job>>

-----------------------------------------------------------------------------
\* The steps of a handler that is under way: none of them waits for the guest.
Finish ==
  \/ CreateLog \/ WriteHeader
  \/ DoubleBuffer \/ WriteAddressAndData \/ WriteClnum \/ WriteFlags
  \/ TbStart \/ CommitDone \/ SyscallRegister \/ SyscallBegin
  \/ \E r \in Regs : CommitOne(r)
  \/ \E d \in Data : SegmentData(d)

\* What the guest may do next.
Guest ==
  \/ \E pc \in Pcs : TbExec(pc)
  \/ \E d \in Data : SyscallReturn(d)
  \/ \E a \in MemAddrs, d \in Data, sz \in Sizes : TrackLoad(a, d, sz)
  \/ \E a \in MemAddrs, d \in Data, sz \in Sizes : TrackStore(a, d, sz)
  \/ \E r \in Regs : TrackRead(r)
  \/ \E r \in Regs, d \in Data : TrackWrite(r, d)
  \/ \E nr \in SysNrs : OpCall(nr)
  \/ \E a \in MemAddrs, d \in Data : TrackKernelWrite(a, d)

TracerNext == Finish \/ Guest \/ Killed

TracerSpec == TracerInit /\ [][TracerNext]_tracerVars

-----------------------------------------------------------------------------
(* Properties.                                                             *)

\* Every variable has its type; the file holds exactly file_size entries.
TracerTypeOK ==
  /\ file_size \in Nat
  /\ buffer \in [0 .. file_size - 1 -> Change]
  /\ change_count \in Nat
  /\ change_size \in Nat
  /\ changelist_number \in Nat
  /\ is_filtered \in BOOLEAN
  /\ gatetrace \in Pcs \cup {NoGate}
  /\ pending \in [Regs -> Data \cup {None}]
  /\ env \in [Regs -> Data]
  /\ tpc \in Points
  /\ cc \in Nat
  /\ cur \in Change
  /\ ret \in {"boot", "body", "syscall", "tb", "commit", "sysregs", "segdata"}
  /\ loop_i \in 0 .. RegCount
  /\ after \in {"start", "sysregs"}
  /\ job \in Nat

\* The entry has been written to its last store.
Complete(e) == "VALID" \in buffer[e].flags
IsStart(e) == {"VALID", "START"} \subseteq buffer[e].flags

\* A store of add_change never leaves the tracer's mapping, and the mapping
\* never extends beyond the file (qemu.patch:400, the doubling before the
\* stores): the tracer that is writing entry cc has mapped it.
WritesMapped ==
  tpc \in {"address", "clnum", "flags", "segdata"}
    => cc < change_size /\ change_size = file_size

\* The log is in the order the database relies on: valid entries never go
\* back in clnum, and an instruction start opens a clnum no earlier entry has.
LogOrdered ==
  \A e, f \in 1 .. file_size - 1 :
    (e < f /\ Complete(e) /\ Complete(f)) =>
      /\ buffer[e].clnum <= buffer[f].clnum
      /\ IsStart(f) => buffer[e].clnum < buffer[f].clnum

\* Entries become valid in order: only the last claimed one may be torn.
NoGapsBehindWriter ==
  \A e \in 1 .. change_count - 1 :
    e < change_count - 1 => e < file_size /\ Complete(e)

\* The value the log's last write of register r holds; 0, its initial value,
\* when there is none.  Replaying a log, run_QIRA_log_from_fd leaves this in env.
Replayed(r) ==
  LET W == {e \in 1 .. file_size - 1 :
              Complete(e) /\ "WRITE" \in buffer[e].flags
                /\ "MEM" \notin buffer[e].flags /\ buffer[e].address = r}
  IN  IF W = {} THEN 0
      ELSE buffer[CHOOSE e \in W : \A f \in W : f <= e].data

\* Registers survive the filter: in any block, what the log replays to,
\* overlaid with what is pending, is the guest's register file ...
RegistersReplay ==
  tpc = "body" =>
    \A r \in 0 .. PendingMax - 1 :
      env[r] = IF pending[r] # None THEN pending[r] ELSE Replayed(r)

\* ... and when a system call is logged nothing is pending: the replay in a
\* forked run, which executes the call again, has the guest's own arguments.
SyscallArgumentsReplay ==
  (tpc = "syscall" \/ (tpc = "sysregs" /\ loop_i = SysRegs)) =>
    \A r \in 0 .. PendingMax - 1 : pending[r] = None /\ env[r] = Replayed(r)

=============================================================================
