-------------------------- MODULE QemuTracerProofs --------------------------
(***************************************************************************)
(* For every size of log, register file and guest: the tracer's stores     *)
(* stay inside its mapping, the log it leaves is ordered and replays to    *)
(* the guest's registers.                                                  *)
(***************************************************************************)
EXTENDS QemuTracer, TLAPS

\* The points at which the header is in place and the tracer is alive.
Alive == Points \ {"create", "header", "killed"}

\* How far the log is claimed, mapped and filled in.
Cursor ==
  /\ change_size >= 1
  /\ tpc = "create" => change_size = 1
  /\ tpc \in {"create", "header"} => change_count = 0
  /\ file_size <= change_size
  /\ tpc \notin {"create", "killed"} => file_size = change_size
  /\ tpc \in Alive => change_count >= 1
  /\ tpc \in Alive \ {"resize"} => change_count <= change_size
  /\ tpc = "resize" => cc = change_size
  /\ tpc \in InAdd \cup {"segdata"} => cc + 1 = change_count

\* Entries not claimed, and the one being written, are not valid yet.
Unwritten ==
  \A e \in 0 .. file_size - 1 :
    (e >= change_count \/ (tpc \in InAdd /\ e = cc)) => buffer[e].flags = {}

\* No valid entry is ahead of the tracer's clnum; while an instruction start
\* is being written the valid ones are all behind it.
Behind ==
  /\ \A e \in 0 .. file_size - 1 : Complete(e) => buffer[e].clnum <= changelist_number
  /\ (tpc \in InAdd /\ "START" \in cur.flags) =>
       \A e \in 0 .. file_size - 1 : Complete(e) => buffer[e].clnum < changelist_number
  /\ tpc = "flags" => buffer[cc].clnum = changelist_number
  /\ tpc \in InAdd => ret \notin InAdd /\ ret \in Alive

\* The inductive invariant.
TracerInv == TracerTypeOK /\ Cursor /\ Unwritten /\ Behind /\ LogOrdered

USE DEF Points, Idle, InAdd, Alive

\* The invariant holds when the log has just been created.
LEMMA TracerInitInv == TracerInit => TracerInv
<1> SUFFICES ASSUME TracerInit PROVE TracerInv
  OBVIOUS
<1> USE TracerAssumption DEF TracerAssumption, TracerInit
<1>1. TracerTypeOK
  <2>1. buffer \in [0 .. file_size - 1 -> Change]
    OBVIOUS
  <2>2. pending \in [Regs -> Data \cup {None}] /\ env \in [Regs -> Data]
    OBVIOUS
  <2>3. cur \in Change
    BY DEF ZeroChange, Change
  <2>4. is_filtered \in BOOLEAN
    OBVIOUS
  <2>5. /\ tpc \in Points
        /\ ret \in {"boot", "body", "syscall", "tb", "commit", "sysregs", "segdata"}
        /\ after \in {"start", "sysregs"}
    OBVIOUS
  <2>6. loop_i \in 0 .. RegCount
    OBVIOUS
  <2> QED
    BY <2>1, <2>2, <2>3, <2>4, <2>5, <2>6 DEF TracerTypeOK
<1>2. Cursor
  BY DEF Cursor
<1>3. Unwritten /\ Behind /\ LogOrdered
  BY DEF Unwritten, Behind, LogOrdered
<1> QED
  BY <1>1, <1>2, <1>3 DEF TracerInv

-----------------------------------------------------------------------------
\* What a call of add_change does before its first store to the entry.
LEMMA AddChangeType ==
  ASSUME TracerTypeOK, NEW a \in Nat, NEW d \in Nat, NEW sz \in Nat,
         NEW fl \in SUBSET Flags,
         NEW k \in {"boot", "body", "syscall", "tb", "commit", "sysregs", "segdata"},
         AddChange(a, d, sz, fl, k)
  PROVE  /\ change_count' \in Nat
         /\ cc' \in Nat
         /\ cur' \in Change
         /\ ret' \in {"boot", "body", "syscall", "tb", "commit", "sysregs", "segdata"}
         /\ tpc' \in {"resize", "address"}
<1>1. fl \cup {"VALID"} \in SUBSET Flags
  BY DEF Flags
<1>2. cur' \in Change
  BY <1>1 DEF AddChange, Change
<1> QED
  BY <1>2 DEF AddChange, TracerTypeOK

\* Growing the file keeps its entries and adds invalid ones.
LEMMA TruncatedType ==
  ASSUME TracerTypeOK, NEW n \in Nat, n >= file_size, ResizeChangeBuffer(n)
  PROVE  /\ file_size' \in Nat
         /\ buffer' \in [0 .. file_size' - 1 -> Change]
         /\ \A e \in 0 .. file_size - 1 : buffer'[e] = buffer[e]
         /\ \A e \in 0 .. n - 1 : e >= file_size => buffer'[e].flags = {}
<1>1. ZeroChange \in Change
  BY DEF ZeroChange, Change
<1>2. \A e \in 0 .. n - 1 : (IF e < file_size THEN buffer[e] ELSE ZeroChange) \in Change
  BY <1>1 DEF TracerTypeOK
<1>3. buffer' \in [0 .. n - 1 -> Change]
  BY <1>2 DEF ResizeChangeBuffer, Truncated
<1> QED
  BY <1>3 DEF ResizeChangeBuffer, Truncated, TracerTypeOK, ZeroChange

\* Every step keeps the types.
LEMMA TracerTypeStep == TracerInv /\ [TracerNext]_tracerVars => TracerTypeOK'
<1> SUFFICES ASSUME TracerInv, [TracerNext]_tracerVars PROVE TracerTypeOK'
  OBVIOUS
<1> USE TracerAssumption DEF TracerAssumption
<1>0. TracerTypeOK /\ Cursor
  BY DEF TracerInv
<1>1. CASE CreateLog
  <2>1. ResizeChangeBuffer(change_size) /\ change_size \in Nat /\ change_size >= file_size
    BY <1>0, <1>1 DEF CreateLog, Cursor, TracerTypeOK
  <2>2. file_size' \in Nat /\ buffer' \in [0 .. file_size' - 1 -> Change]
    BY <1>0, <2>1, TruncatedType
  <2> QED
    BY <1>0, <1>1, <2>2 DEF CreateLog, TracerTypeOK
<1>2. CASE WriteHeader
  <2>1. is_filtered' \in BOOLEAN
    BY <1>2 DEF WriteHeader
  <2>2. changelist_number' \in Nat
    BY <1>2 DEF WriteHeader
  <2> QED
    BY <1>0, <1>2, <2>1, <2>2 DEF WriteHeader, TracerTypeOK
<1>3. CASE DoubleBuffer
  <2>1. ResizeChangeBuffer(change_size * 2) /\ change_size * 2 \in Nat /\ change_size * 2 >= file_size
    BY <1>0, <1>3 DEF DoubleBuffer, Cursor, TracerTypeOK
  <2>2. file_size' \in Nat /\ buffer' \in [0 .. file_size' - 1 -> Change]
    BY <1>0, <2>1, TruncatedType
  <2> QED
    BY <1>0, <1>3, <2>1, <2>2 DEF DoubleBuffer, TracerTypeOK
<1>4. CASE WriteAddressAndData
  <2>1. buffer' \in [0 .. file_size' - 1 -> Change]
    BY <1>0, <1>4 DEF WriteAddressAndData, TracerTypeOK, Change
  <2> QED
    BY <1>0, <1>4, <2>1 DEF WriteAddressAndData, TracerTypeOK
<1>5. CASE WriteClnum
  <2>1. buffer' \in [0 .. file_size' - 1 -> Change]
    BY <1>0, <1>5 DEF WriteClnum, TracerTypeOK, Change
  <2> QED
    BY <1>0, <1>5, <2>1 DEF WriteClnum, TracerTypeOK
<1>6. CASE WriteFlags
  <2>1. buffer' \in [0 .. file_size' - 1 -> Change]
    BY <1>0, <1>6 DEF WriteFlags, TracerTypeOK, Change
  <2> QED
    BY <1>0, <1>6, <2>1 DEF WriteFlags, TracerTypeOK
<1>7. CASE TbStart
  <2>1. AddChange(job, 1, 0, {"START"}, "body") /\ job \in Nat
    BY <1>0, <1>7 DEF TbStart, StartInstruction, TracerTypeOK
  <2>2. is_filtered' \in BOOLEAN
    BY <1>7 DEF TbStart
  <2> QED
    BY <1>0, <1>7, <2>1, <2>2, AddChangeType DEF TbStart, StartInstruction, TracerTypeOK, Flags
<1>8. CASE CommitDone
  BY <1>0, <1>8 DEF CommitDone, TracerTypeOK
<1>9. CASE SyscallRegister
  <2>0. loop_i \in Nat /\ loop_i \in Regs /\ loop_i' \in 0 .. RegCount
    BY <1>0, <1>9 DEF SyscallRegister, TracerTypeOK, Regs
  <2>1. env[loop_i] \in Nat
    BY <1>0, <2>0 DEF TracerTypeOK
  <2>2. AddChange(loop_i, env[loop_i], 1, {"WRITE"}, "sysregs")
    BY <1>9 DEF SyscallRegister
  <2> QED
    BY <1>0, <1>9, <2>0, <2>1, <2>2, AddChangeType DEF SyscallRegister, TracerTypeOK, Flags
<1>10. CASE SyscallBegin
  <2>1. PICK k \in {"segdata", "syscall"} : AddChange(job, 0, 0, {"SYSCALL"}, k)
    BY <1>10 DEF SyscallBegin
  <2> QED
    BY <1>0, <1>10, <2>1, AddChangeType DEF SyscallBegin, TracerTypeOK, Flags
<1>11. ASSUME NEW r \in Regs, CommitOne(r) PROVE TracerTypeOK'
  <2>0. r \in Nat /\ loop_i' \in 0 .. RegCount
    BY <1>0, <1>11 DEF CommitOne, TracerTypeOK, Regs
  <2>1. pending[r] \in Nat
    BY <1>0, <1>11 DEF CommitOne, TracerTypeOK
  <2>2. AddChange(r, pending[r], 1, {"WRITE"}, "commit")
    BY <1>11 DEF CommitOne
  <2> QED
    BY <1>0, <1>11, <2>0, <2>1, <2>2, AddChangeType DEF CommitOne, TracerTypeOK, Flags
<1>12. ASSUME NEW d \in Data, SegmentData(d) PROVE TracerTypeOK'
  <2>1. buffer' \in [0 .. file_size' - 1 -> Change]
    BY <1>0, <1>12 DEF SegmentData, TracerTypeOK, Change
  <2> QED
    BY <1>0, <1>12, <2>1 DEF SegmentData, TracerTypeOK
<1>13. ASSUME NEW pc \in Pcs, TbExec(pc) PROVE TracerTypeOK'
  <2>1. CASE FilteredAddress(pc)
    BY <1>0, <1>13, <2>1 DEF TbExec, TracerTypeOK
  <2>2. CASE ~FilteredAddress(pc) /\ is_filtered
    <3>0. job' = pc /\ loop_i' = 0
      BY <1>13, <2>2, Zenon DEF TbExec
    <3>1. /\ gatetrace' \in Pcs \cup {NoGate}
          /\ job' \in Nat
          /\ loop_i' \in 0 .. RegCount
      BY <1>0, <1>13, <3>0 DEF TbExec, TracerTypeOK
    <3>2. is_filtered' \in BOOLEAN
      BY <1>0, <1>13, <2>2 DEF TbExec, TracerTypeOK
    <3> QED
      BY <1>0, <1>13, <2>2, <3>1, <3>2 DEF TbExec, TracerTypeOK
  <2>3. CASE ~FilteredAddress(pc) /\ ~is_filtered
    <3>1. AddChange(pc, 1, 0, {"START"}, "body") /\ pc \in Nat
      BY <1>13, <2>3 DEF TbExec, StartInstruction
    <3> QED
      BY <1>0, <1>13, <2>3, <3>1, AddChangeType DEF TbExec, StartInstruction, TracerTypeOK, Flags
  <2> QED
    BY <2>1, <2>2, <2>3
<1>14. ASSUME NEW v \in Data, SyscallReturn(v) PROVE TracerTypeOK'
  <2>1. AddChange(0, v, 1, {"WRITE"}, "tb") /\ v \in Nat /\ 0 \in Regs
    BY <1>14 DEF SyscallReturn, Regs
  <2> QED
    BY <1>0, <1>14, <2>1, AddChangeType DEF SyscallReturn, TracerTypeOK, Flags
<1>15. ASSUME NEW a \in MemAddrs, NEW d \in Data, NEW sz \in Sizes,
              TrackLoad(a, d, sz) \/ TrackStore(a, d, sz)
       PROVE TracerTypeOK'
  <2>1. PICK fl \in SUBSET Flags : AddChange(a, d, sz, fl, "body")
    BY <1>15 DEF TrackLoad, TrackStore, Flags
  <2> QED
    BY <1>0, <1>15, <2>1, AddChangeType DEF TrackLoad, TrackStore, TracerTypeOK
<1>16. ASSUME NEW r \in Regs, TrackRead(r) PROVE TracerTypeOK'
  <2>0. env[r] \in Nat
    BY <1>0 DEF TracerTypeOK
  <2>1. AddChange(r, env[r], 1, {}, "body") /\ r \in Nat
    BY <1>16 DEF TrackRead, Regs
  <2> QED
    BY <1>0, <1>16, <2>0, <2>1, AddChangeType DEF TrackRead, TracerTypeOK
<1>17. ASSUME NEW r \in Regs, NEW d \in Data, TrackWrite(r, d) PROVE TracerTypeOK'
  <2>1. CASE ~is_filtered
    <3>1. AddChange(r, d, 1, {"WRITE"}, "body") /\ r \in Nat
      BY <1>17, <2>1 DEF TrackWrite, Regs
    <3> QED
      BY <1>0, <1>17, <2>1, <3>1, AddChangeType DEF TrackWrite, TracerTypeOK, Flags
  <2>2. CASE is_filtered
    BY <1>0, <1>17, <2>2 DEF TrackWrite, AddPendingChange, TracerTypeOK
  <2> QED
    BY <2>1, <2>2
<1>18. ASSUME NEW nr \in SysNrs, OpCall(nr) PROVE TracerTypeOK'
  BY <1>0, <1>18 DEF OpCall, TracerTypeOK, fileVars
<1>19. ASSUME NEW a \in MemAddrs, NEW d \in Data, TrackKernelWrite(a, d) PROVE TracerTypeOK'
  BY <1>0, <1>19, AddChangeType DEF TrackKernelWrite, TracerTypeOK, Flags
<1>20. CASE Killed
  BY <1>0, <1>20 DEF Killed, TracerTypeOK, fileVars
<1>21. CASE UNCHANGED tracerVars
  BY <1>0, <1>21 DEF tracerVars, fileVars, localVars, TracerTypeOK
<1> QED
  BY <1>1, <1>2, <1>3, <1>4, <1>5, <1>6, <1>7, <1>8, <1>9, <1>10, <1>11, <1>12, <1>13,
     <1>14, <1>15, <1>16, <1>17, <1>18, <1>19, <1>20, <1>21
  DEF TracerNext, Finish, Guest

-----------------------------------------------------------------------------
Ordered == Cursor /\ Unwritten /\ Behind /\ LogOrdered

\* The fields of an entry of the file have their types.
LEMMA EntryTypes ==
  ASSUME TracerTypeOK, NEW e \in 0 .. file_size - 1
  PROVE  buffer[e] \in Change /\ buffer[e].clnum \in Nat /\ buffer[e].flags \in SUBSET Flags
<1>1. buffer[e] \in Change
  BY DEF TracerTypeOK
<1> QED
  BY <1>1 DEF Change

\* A handler that calls add_change, in a new clnum if it starts an instruction.
LEMMA ClaimKeepsOrder ==
  ASSUME TracerInv, TracerTypeOK',
         NEW a, NEW d, NEW sz, NEW fl,
         NEW k \in Alive \ InAdd,
         tpc \in Alive \ InAdd,
         AddChange(a, d, sz, fl, k),
         UNCHANGED <<file_size, buffer, change_size>>,
         \/ changelist_number' = changelist_number /\ "START" \notin fl
         \/ changelist_number' = changelist_number + 1
  PROVE  Ordered'
<1> USE DEF TracerInv
<1>1. Cursor'
  BY DEF Cursor, AddChange, TracerTypeOK
<1>2. Unwritten'
  BY DEF Cursor, Unwritten, AddChange, TracerTypeOK
<1>3. Behind'
  <2>1. tpc' \in {"resize", "address"} /\ ret' = k /\ cur'.flags = fl \cup {"VALID"}
    BY DEF AddChange
  <2>2. \A e \in 0 .. file_size' - 1 : Complete(e)' => buffer'[e].clnum <= changelist_number'
    <3> SUFFICES ASSUME NEW e \in 0 .. file_size - 1, Complete(e)
                 PROVE  buffer[e].clnum <= changelist_number'
      BY DEF Complete
    <3>1. buffer[e].clnum \in Nat /\ buffer[e].clnum <= changelist_number
      BY EntryTypes DEF Behind
    <3> QED
      BY <3>1 DEF TracerTypeOK
  <2>3. "START" \in cur'.flags =>
          \A e \in 0 .. file_size' - 1 : Complete(e)' => buffer'[e].clnum < changelist_number'
    <3> SUFFICES ASSUME "START" \in fl, NEW e \in 0 .. file_size - 1, Complete(e)
                 PROVE  buffer[e].clnum < changelist_number'
      BY <2>1 DEF Complete
    <3>1. buffer[e].clnum \in Nat /\ buffer[e].clnum <= changelist_number
      BY EntryTypes DEF Behind
    <3> QED
      BY <3>1 DEF TracerTypeOK
  <2> QED
    BY <2>1, <2>2, <2>3 DEF Behind
<1>4. LogOrdered'
  BY DEF LogOrdered, Complete, IsStart
<1> QED
  BY <1>1, <1>2, <1>3, <1>4 DEF Ordered

\* A step between two events that touches neither the log nor the clnum.
LEMMA SilentKeepsOrder ==
  ASSUME TracerInv,
         tpc \in Alive \ InAdd,
         tpc' \in Alive \ (InAdd \cup {"segdata"}),
         UNCHANGED <<file_size, buffer, change_count, change_size, changelist_number>>
  PROVE  Ordered'
<1> USE DEF TracerInv
<1>1. Cursor'
  BY DEF Cursor
<1>2. Unwritten' /\ Behind' /\ LogOrdered'
  BY DEF Unwritten, Behind, LogOrdered, Complete, IsStart
<1> QED
  BY <1>1, <1>2 DEF Ordered

\* Growing the file, at its creation or when it is full.
LEMMA GrowKeepsOrder ==
  ASSUME TracerInv, TracerTypeOK', CreateLog \/ DoubleBuffer
  PROVE  Ordered' /\ file_size' >= file_size
<1> USE DEF TracerInv
<1>1. PICK n \in Nat : n >= file_size /\ n >= change_size /\ ResizeChangeBuffer(n)
  <2>1. CASE CreateLog
    BY <2>1 DEF CreateLog, Cursor, TracerTypeOK
  <2>2. CASE DoubleBuffer
    <3>1. change_size * 2 \in Nat /\ change_size * 2 >= file_size /\ change_size * 2 >= change_size
      BY <2>2 DEF DoubleBuffer, Cursor, TracerTypeOK
    <3> QED
      BY <2>2, <3>1 DEF DoubleBuffer
  <2> QED
    BY <2>1, <2>2
<1>2. /\ \A e \in 0 .. file_size - 1 : buffer'[e] = buffer[e]
      /\ \A e \in 0 .. n - 1 : e >= file_size => buffer'[e].flags = {}
      /\ file_size' = n
  BY <1>1, TruncatedType DEF ResizeChangeBuffer
<1>3. Cursor'
  <2>1. CASE CreateLog
    BY <2>1 DEF CreateLog, Cursor, TracerTypeOK, ResizeChangeBuffer
  <2>2. CASE DoubleBuffer
    BY <2>2 DEF DoubleBuffer, Cursor, TracerTypeOK, ResizeChangeBuffer
  <2> QED
    BY <2>1, <2>2
<1>4. /\ tpc \in {"create", "resize"}
      /\ tpc' \in {"header", "address"}
      /\ tpc' = "address" => tpc = "resize"
      /\ UNCHANGED <<change_count, changelist_number, cc, cur, ret>>
  BY DEF CreateLog, DoubleBuffer
<1>5. Unwritten'
  <2> SUFFICES ASSUME NEW e \in 0 .. n - 1,
                      e >= change_count \/ (tpc' \in InAdd /\ e = cc)
               PROVE  buffer'[e].flags = {}
    BY <1>2, <1>4 DEF Unwritten
  <2>1. CASE e >= file_size
    BY <1>2, <2>1
  <2>2. CASE e < file_size
    <3>1. e \in 0 .. file_size - 1
      BY <2>2 DEF TracerTypeOK
    <3>2. buffer[e].flags = {}
      BY <1>4, <3>1 DEF Unwritten
    <3> QED
      BY <1>2, <3>1, <3>2
  <2>3. e >= file_size \/ e < file_size
    BY DEF TracerTypeOK
  <2> QED
    BY <2>1, <2>2, <2>3
<1>6. Behind'
  BY <1>1, <1>2, <1>4 DEF Behind, Complete, TracerTypeOK
<1>7. LogOrdered'
  BY <1>1, <1>2, <1>4 DEF LogOrdered, Complete, IsStart, TracerTypeOK
<1> QED
  BY <1>1, <1>2, <1>3, <1>5, <1>6, <1>7 DEF Ordered, TracerTypeOK

\* A store to the claimed entry before its flags are written.
LEMMA FillKeepsOrder ==
  ASSUME TracerInv, TracerTypeOK', WriteAddressAndData \/ WriteClnum
  PROVE  Ordered'
<1> USE DEF TracerInv
<1>1. /\ tpc \in {"address", "clnum"}
      /\ tpc' \in {"clnum", "flags"}
      /\ UNCHANGED <<file_size, change_count, change_size, changelist_number, cc, cur, ret>>
  BY DEF WriteAddressAndData, WriteClnum
<1>2. cc \in 0 .. file_size - 1
  BY <1>1 DEF Cursor, TracerTypeOK
<1>3. /\ \A e \in 0 .. file_size - 1 : e # cc => buffer'[e] = buffer[e]
      /\ \A e \in 0 .. file_size - 1 : buffer'[e].flags = buffer[e].flags
      /\ buffer[cc].flags = {}
      /\ tpc' = "flags" => buffer'[cc].clnum = changelist_number
  <2>1. buffer[cc].flags = {}
    BY <1>1, <1>2 DEF Unwritten
  <2>2. CASE WriteAddressAndData
    BY <1>2, <2>1, <2>2 DEF WriteAddressAndData, TracerTypeOK, Change
  <2>3. CASE WriteClnum
    BY <1>2, <2>1, <2>3 DEF WriteClnum, TracerTypeOK, Change
  <2> QED
    BY <2>2, <2>3
<1>4. Cursor'
  BY <1>1 DEF Cursor
<1>5. Unwritten'
  BY <1>1, <1>3 DEF Unwritten
<1>6. Behind'
  BY <1>1, <1>2, <1>3 DEF Behind, Complete
<1>7. LogOrdered'
  BY <1>1, <1>2, <1>3 DEF LogOrdered, Complete, IsStart
<1> QED
  BY <1>4, <1>5, <1>6, <1>7 DEF Ordered

\* The last store: the entry becomes valid and is the last valid one.
LEMMA FlagsKeepOrder ==
  ASSUME TracerInv, TracerTypeOK', WriteFlags
  PROVE  Ordered'
<1> USE DEF TracerInv
<1>1. /\ tpc = "flags"
      /\ tpc' = ret
      /\ ret \in Alive /\ ret \notin InAdd
      /\ UNCHANGED <<file_size, change_count, change_size, changelist_number, cc, cur, ret>>
  BY DEF WriteFlags, Behind
<1>2. cc \in 0 .. file_size - 1 /\ cc + 1 = change_count
  BY <1>1 DEF Cursor, TracerTypeOK
<1>3. /\ \A e \in 0 .. file_size - 1 : e # cc => buffer'[e] = buffer[e]
      /\ buffer'[cc].flags = cur.flags
      /\ buffer'[cc].clnum = changelist_number
  BY <1>1, <1>2 DEF WriteFlags, TracerTypeOK, Change, Behind
<1>4. \A e \in 0 .. file_size - 1 : e > cc => ~Complete(e)
  <2> SUFFICES ASSUME NEW e \in 0 .. file_size - 1, e > cc PROVE ~Complete(e)
    OBVIOUS
  <2>1. e >= change_count
    BY <1>2 DEF TracerTypeOK
  <2>2. buffer[e].flags = {}
    BY <2>1 DEF Unwritten
  <2> QED
    BY <2>2 DEF Complete
<1>5. Cursor'
  BY <1>1 DEF Cursor
<1>6. Unwritten'
  BY <1>1, <1>2, <1>3 DEF Unwritten, TracerTypeOK
<1>7. Behind'
  BY <1>1, <1>2, <1>3 DEF Behind, Complete, TracerTypeOK
<1>8. LogOrdered'
  <2> SUFFICES ASSUME NEW e \in 1 .. file_size - 1, NEW f \in 1 .. file_size - 1,
                      e < f, Complete(e)', Complete(f)'
               PROVE  /\ buffer'[e].clnum <= buffer'[f].clnum
                      /\ IsStart(f)' => buffer'[e].clnum < buffer'[f].clnum
    BY <1>1 DEF LogOrdered
  <2>0. /\ e \in 0 .. file_size - 1 /\ f \in 0 .. file_size - 1
        /\ "VALID" \in buffer'[e].flags /\ "VALID" \in buffer'[f].flags
    <3>1. e \in 0 .. file_size - 1 /\ f \in 0 .. file_size - 1
      OBVIOUS
    <3>2. "VALID" \in buffer'[e].flags /\ "VALID" \in buffer'[f].flags
      BY DEF Complete
    <3> QED
      BY <3>1, <3>2
  <2>1. f <= cc
    <3> SUFFICES ASSUME f > cc PROVE FALSE
      BY <2>0, <1>2
    <3>1. buffer'[f] = buffer[f] /\ ~Complete(f)
      BY <1>2, <1>3, <1>4, <2>0
    <3> QED
      BY <2>0, <3>1 DEF Complete
  <2>2. buffer'[e] = buffer[e] /\ Complete(e)
    <3>1. e # cc
      BY <1>2, <2>0, <2>1
    <3> QED
      BY <1>3, <2>0, <3>1 DEF Complete
  <2>3. CASE f = cc
    BY <1>1, <1>3, <2>2, <2>3 DEF Behind, IsStart, Complete
  <2>4. CASE f # cc
    BY <1>3, <2>2, <2>4 DEF LogOrdered, Complete, IsStart
  <2> QED
    BY <2>3, <2>4
<1> QED
  BY <1>5, <1>6, <1>7, <1>8 DEF Ordered

\* Every step keeps the invariant, one case per kind of step.
LEMMA TracerInvStep == TracerInv /\ [TracerNext]_tracerVars => TracerInv'
<1> SUFFICES ASSUME TracerInv, [TracerNext]_tracerVars PROVE TracerInv'
  OBVIOUS
<1>0. TracerTypeOK'
  BY TracerTypeStep
<1>1. SUFFICES Ordered'
  BY <1>0 DEF TracerInv, Ordered
<1>2. CASE CreateLog \/ DoubleBuffer
  BY <1>0, <1>2, GrowKeepsOrder
<1>3. CASE WriteHeader
  <2>1. /\ tpc = "header" /\ tpc' = "boot" /\ change_count = 0 /\ change_count' = 1
        /\ UNCHANGED <<file_size, buffer, change_size>>
    BY <1>3 DEF WriteHeader, TracerInv, Cursor
  <2>2. \A e \in 0 .. file_size - 1 : buffer[e].flags = {}
    BY <2>1 DEF TracerInv, Unwritten
  <2>3. Cursor'
    BY <2>1 DEF TracerInv, Cursor
  <2>4. Unwritten' /\ Behind'
    BY <2>1, <2>2 DEF Unwritten, Behind, Complete
  <2>5. LogOrdered'
    BY <2>1 DEF TracerInv, LogOrdered, Complete, IsStart
  <2> QED
    BY <2>3, <2>4, <2>5 DEF Ordered
<1>4. CASE WriteAddressAndData \/ WriteClnum
  BY <1>0, <1>4, FillKeepsOrder
<1>5. CASE WriteFlags
  BY <1>0, <1>5, FlagsKeepOrder
<1>6. CASE TbStart
  <2>1. /\ tpc = "start" /\ AddChange(job, 1, 0, {"START"}, "body")
        /\ changelist_number' = changelist_number + 1
        /\ UNCHANGED <<file_size, buffer, change_size>>
    BY <1>6 DEF TbStart, StartInstruction
  <2> QED
    BY <1>0, <2>1, ClaimKeepsOrder
<1>7. CASE CommitDone
  BY <1>7, SilentKeepsOrder DEF CommitDone, TracerInv, TracerTypeOK
<1>8. CASE SyscallRegister
  BY <1>0, <1>8, ClaimKeepsOrder DEF SyscallRegister
<1>9. CASE SyscallBegin
  <2>1. PICK k \in {"segdata", "syscall"} : AddChange(job, 0, 0, {"SYSCALL"}, k)
    BY <1>9 DEF SyscallBegin
  <2> QED
    BY <1>0, <1>9, <2>1, ClaimKeepsOrder DEF SyscallBegin
<1>10. ASSUME NEW r \in Regs, CommitOne(r) PROVE Ordered'
  BY <1>0, <1>10, ClaimKeepsOrder DEF CommitOne
<1>11. ASSUME NEW d \in Data, SegmentData(d) PROVE Ordered'
  <2>1. /\ tpc = "segdata" /\ tpc' = "body"
        /\ UNCHANGED <<file_size, change_count, change_size, changelist_number>>
    BY <1>11 DEF SegmentData
  <2>2. \A e \in 0 .. file_size - 1 : /\ buffer'[e].flags = buffer[e].flags
                                     /\ buffer'[e].clnum = buffer[e].clnum
    BY <1>11 DEF SegmentData, TracerInv, TracerTypeOK, Change
  <2>3. Cursor'
    BY <2>1 DEF TracerInv, Cursor
  <2>4. Unwritten' /\ Behind'
    BY <2>1, <2>2 DEF TracerInv, Unwritten, Behind, Complete
  <2>5. LogOrdered'
    BY <2>1, <2>2 DEF TracerInv, LogOrdered, Complete, IsStart
  <2> QED
    BY <2>3, <2>4, <2>5 DEF Ordered
<1>12. ASSUME NEW pc \in Pcs, TbExec(pc) PROVE Ordered'
  <2>1. CASE tpc' \in {"body", "commit"} /\ UNCHANGED <<change_count, changelist_number>>
    BY <1>12, <2>1, SilentKeepsOrder DEF TbExec
  <2>2. CASE StartInstruction(pc)
    BY <1>0, <1>12, <2>2, ClaimKeepsOrder DEF TbExec, StartInstruction
  <2> QED
    BY <1>12, <2>1, <2>2 DEF TbExec
<1>13. ASSUME NEW v \in Data, SyscallReturn(v) PROVE Ordered'
  BY <1>0, <1>13, ClaimKeepsOrder DEF SyscallReturn
<1>14. ASSUME NEW a \in MemAddrs, NEW d \in Data, NEW sz \in Sizes,
              TrackLoad(a, d, sz) \/ TrackStore(a, d, sz)
       PROVE Ordered'
  <2>1. CASE TrackLoad(a, d, sz)
    BY <1>0, <2>1, ClaimKeepsOrder DEF TrackLoad
  <2>2. CASE TrackStore(a, d, sz)
    BY <1>0, <2>2, ClaimKeepsOrder DEF TrackStore
  <2> QED
    BY <1>14, <2>1, <2>2
<1>15. ASSUME NEW r \in Regs, TrackRead(r) PROVE Ordered'
  BY <1>0, <1>15, ClaimKeepsOrder DEF TrackRead
<1>16. ASSUME NEW r \in Regs, NEW d \in Data, TrackWrite(r, d) PROVE Ordered'
  <2>1. CASE AddChange(r, d, 1, {"WRITE"}, "body")
    BY <1>0, <1>16, <2>1, ClaimKeepsOrder DEF TrackWrite
  <2>2. CASE UNCHANGED <<change_count, tpc>>
    BY <1>16, <2>2, SilentKeepsOrder DEF TrackWrite
  <2> QED
    BY <1>16, <2>1, <2>2 DEF TrackWrite
<1>17. ASSUME NEW nr \in SysNrs, OpCall(nr) PROVE Ordered'
  BY <1>17, SilentKeepsOrder DEF OpCall, fileVars
<1>18. ASSUME NEW a \in MemAddrs, NEW d \in Data, TrackKernelWrite(a, d) PROVE Ordered'
  BY <1>0, <1>18, ClaimKeepsOrder DEF TrackKernelWrite
<1>19. CASE Killed
  BY <1>19 DEF Killed, fileVars, TracerInv, Ordered, Cursor, Unwritten, Behind, LogOrdered,
               Complete, IsStart
<1>20. CASE UNCHANGED tracerVars
  BY <1>20 DEF tracerVars, fileVars, localVars, TracerInv, Ordered, Cursor, Unwritten, Behind,
               LogOrdered, Complete, IsStart
<1> QED
  BY <1>2, <1>3, <1>4, <1>5, <1>6, <1>7, <1>8, <1>9, <1>10, <1>11, <1>12, <1>13, <1>14,
     <1>15, <1>16, <1>17, <1>18, <1>19, <1>20
  DEF TracerNext, Finish, Guest

-----------------------------------------------------------------------------
\* The inductive invariant holds in every reachable state.
THEOREM TracerInvariant == TracerSpec => []TracerInv
  BY TracerInitInv, TracerInvStep, PTL DEF TracerSpec

\* The tracer's variables always have their types.
THEOREM TracerTypeCorrect == TracerSpec => []TracerTypeOK
<1>1. TracerInv => TracerTypeOK
  BY DEF TracerInv
<1> QED
  BY <1>1, TracerInvariant, PTL

\* add_change stores only into entries it has mapped, whatever the size of
\* the log and wherever the doubling falls in a handler.
THEOREM TracerWritesMapped == TracerSpec => []WritesMapped
<1>1. TracerInv => WritesMapped
  BY DEF TracerInv, TracerTypeOK, Cursor, WritesMapped
<1> QED
  BY <1>1, TracerInvariant, PTL

\* The log is ordered by clnum and an instruction start opens its clnum.
THEOREM TracerLogOrdered == TracerSpec => []LogOrdered
<1>1. TracerInv => LogOrdered
  BY DEF TracerInv
<1> QED
  BY <1>1, TracerInvariant, PTL

-----------------------------------------------------------------------------
(* What the log replays to: for every filter and gate, entries become valid *)
(* in the order they are claimed, and the log with what is pending always   *)
(* replays to the guest's registers.                                        *)

USE DEF Points, Idle, InAdd, Alive

-----------------------------------------------------------------------------
(* Entries become valid in order.                                          *)

\* All entries claimed are valid, the one being written apart.
Filled ==
  /\ \A e \in 1 .. change_count - 1 :
       (e < change_count - 1 \/ tpc \in Alive \ InAdd) => e < file_size /\ Complete(e)
  /\ tpc \in InAdd => "VALID" \in cur.flags

\* A handler that calls add_change claims one entry more.
LEMMA ClaimKeepsFilled ==
  ASSUME TracerInv, Filled, NEW a, NEW d, NEW sz, NEW fl, NEW k,
         tpc \in Alive \ InAdd,
         AddChange(a, d, sz, fl, k),
         UNCHANGED <<file_size, buffer>>
  PROVE  Filled'
<1>1. /\ change_count' = change_count + 1 /\ change_count \in Nat
      /\ tpc' \in InAdd
      /\ "VALID" \in cur'.flags
  BY DEF AddChange, TracerInv, TracerTypeOK
<1>2. ASSUME NEW e \in 1 .. change_count' - 1, e < change_count' - 1
      PROVE  e < file_size /\ Complete(e)
  <2>1. e \in 1 .. change_count - 1
    BY <1>1, <1>2
  <2> QED
    BY <2>1 DEF Filled
<1>3. \A e \in 1 .. change_count' - 1 : e < change_count' - 1 => e < file_size' /\ Complete(e)'
  BY <1>2 DEF Complete
<1> QED
  BY <1>1, <1>3 DEF Filled

\* Growing the file, filling the claimed entry in and making it valid.
LEMMA StoreKeepsFilled ==
  ASSUME TracerInv, TracerTypeOK', Filled,
         \/ CreateLog \/ DoubleBuffer
         \/ WriteAddressAndData \/ WriteClnum \/ WriteFlags
         \/ \E d \in Data : SegmentData(d)
  PROVE  Filled'
<1> USE DEF TracerInv
<1>1. CASE CreateLog \/ DoubleBuffer
  <2>1. PICK n \in Nat : n >= file_size /\ ResizeChangeBuffer(n)
    <3>1. CASE CreateLog
      BY <3>1 DEF CreateLog, Cursor, TracerTypeOK
    <3>2. CASE DoubleBuffer
      <4>1. change_size * 2 \in Nat /\ change_size * 2 >= file_size
        BY <3>2 DEF DoubleBuffer, Cursor, TracerTypeOK
      <4> QED
        BY <3>2, <4>1 DEF DoubleBuffer
    <3> QED
      BY <1>1, <3>1, <3>2
  <2>2. file_size' >= file_size /\ \A e \in 0 .. file_size - 1 : buffer'[e] = buffer[e]
    BY <2>1, TruncatedType DEF ResizeChangeBuffer
  <2>3. /\ UNCHANGED <<change_count, cur>>
        /\ tpc' \notin Alive \ InAdd
        /\ tpc' \in InAdd => tpc \in InAdd
    BY <1>1 DEF CreateLog, DoubleBuffer
  <2>4. ASSUME NEW e \in 1 .. change_count - 1, e < change_count - 1
        PROVE  e < file_size' /\ Complete(e)'
    <3>1. e < file_size /\ Complete(e)
      BY <2>4 DEF Filled
    <3>2. file_size \in Nat /\ file_size' \in Nat /\ change_count \in Nat
      BY DEF TracerTypeOK
    <3>3. e \in 0 .. file_size - 1
      BY <3>1, <3>2
    <3> QED
      BY <2>2, <3>1, <3>2, <3>3 DEF Complete
  <2> QED
    BY <2>3, <2>4 DEF Filled
<1>2. CASE WriteAddressAndData \/ WriteClnum \/ WriteFlags
  <2>1. /\ tpc \in {"address", "clnum", "flags"}
        /\ UNCHANGED <<file_size, change_count, cc, cur>>
    BY <1>2 DEF WriteAddressAndData, WriteClnum, WriteFlags
  <2>2. cc \in 0 .. file_size - 1 /\ cc + 1 = change_count /\ change_count \in Nat
    BY <2>1 DEF Cursor, TracerTypeOK
  <2>3. \A e \in 0 .. file_size - 1 : e # cc => buffer'[e] = buffer[e]
    BY <1>2 DEF WriteAddressAndData, WriteClnum, WriteFlags, TracerTypeOK
  <2>4. \A e \in 1 .. change_count - 1 : e < change_count - 1 => e < file_size' /\ Complete(e)'
    BY <2>1, <2>2, <2>3 DEF Filled, Complete, TracerTypeOK
  <2>5. CASE WriteFlags
    <3>1. Complete(cc)'
      BY <2>1, <2>2, <2>5 DEF WriteFlags, Filled, Complete, TracerTypeOK, Change
    <3>2. \A e \in 1 .. change_count - 1 : e < file_size' /\ Complete(e)'
      BY <2>1, <2>2, <2>4, <3>1 DEF TracerTypeOK
    <3>3. tpc' \notin InAdd
      BY <2>1, <2>5 DEF WriteFlags, Behind
    <3> QED
      BY <2>1, <3>2, <3>3 DEF Filled
  <2>6. CASE WriteAddressAndData \/ WriteClnum
    <3>1. tpc' \in InAdd /\ tpc \in InAdd
      BY <2>6 DEF WriteAddressAndData, WriteClnum
    <3> QED
      BY <2>1, <2>4, <3>1 DEF Filled
  <2> QED
    BY <1>2, <2>5, <2>6
<1>3. ASSUME NEW d \in Data, SegmentData(d) PROVE Filled'
  <2>1. /\ tpc = "segdata" /\ tpc' = "body"
        /\ UNCHANGED <<file_size, change_count>>
    BY <1>3 DEF SegmentData
  <2>2. \A e \in 0 .. file_size - 1 : buffer'[e].flags = buffer[e].flags
    BY <1>3 DEF SegmentData, TracerTypeOK, Change
  <2> QED
    BY <2>1, <2>2 DEF Filled, Complete, TracerTypeOK
<1> QED
  BY <1>1, <1>2, <1>3

\* A step that claims and stores nothing.
LEMMA SilentKeepsFilled ==
  ASSUME Filled, UNCHANGED <<file_size, buffer, change_count>>,
         tpc' \in Alive \ InAdd => tpc \in Alive \ InAdd,
         tpc' \notin InAdd
  PROVE  Filled'
  BY DEF Filled, Complete

\* A step claims an entry: the call of add_change, of which only the start of
\* an instruction moves the clnum and only a system call is completed later.
Claims(a, d, sz, fl, k) ==
  /\ tpc \in Alive \ InAdd
  /\ AddChange(a, d, sz, fl, k)
  /\ UNCHANGED <<file_size, buffer>>
  /\ k = "segdata" => fl = {"SYSCALL"}
  /\ changelist_number' = IF "START" \in fl THEN changelist_number + 1 ELSE changelist_number

\* What a step of the tracer does to the log: it claims an entry, fills it in,
\* writes the header, or leaves the log as it is.
LEMMA StepsOfLog ==
  ASSUME TracerInv, TracerNext
  PROVE  \/ \E a, d, sz, fl, k : Claims(a, d, sz, fl, k)
         \/ \/ CreateLog \/ DoubleBuffer
            \/ WriteAddressAndData \/ WriteClnum \/ WriteFlags
            \/ \E d \in Data : SegmentData(d)
         \/ WriteHeader
         \/ /\ UNCHANGED <<file_size, buffer, change_count, changelist_number>>
            /\ tpc' \in Alive \ InAdd => tpc \in Alive \ InAdd
            /\ tpc' \notin InAdd \cup {"create", "header", "segdata"}
<1>1. CASE TbStart
  BY <1>1 DEF TbStart, StartInstruction, Claims
<1>2. CASE CommitDone
  BY <1>2 DEF CommitDone, TracerInv, TracerTypeOK
<1>3. CASE SyscallRegister
  BY <1>3 DEF SyscallRegister, Claims
<1>4. CASE SyscallBegin
  <2>1. PICK k : AddChange(job, 0, 0, {"SYSCALL"}, k)
    BY <1>4 DEF SyscallBegin
  <2> QED
    BY <1>4, <2>1 DEF SyscallBegin, Claims
<1>5. ASSUME NEW r \in Regs, CommitOne(r) PROVE \E a, d, sz, fl, k : Claims(a, d, sz, fl, k)
  BY <1>5 DEF CommitOne, Claims
<1>6. ASSUME NEW pc \in Pcs, TbExec(pc)
      PROVE  \/ \E a, d, sz, fl, k : Claims(a, d, sz, fl, k)
             \/ /\ UNCHANGED <<file_size, buffer, change_count, changelist_number>>
                /\ tpc \in Alive \ InAdd
                /\ tpc' \in {"body", "commit"}
  <2>1. CASE StartInstruction(pc)
    BY <1>6, <2>1 DEF TbExec, StartInstruction, Claims
  <2>2. CASE ~StartInstruction(pc)
    BY <1>6, <2>2 DEF TbExec
  <2> QED
    BY <2>1, <2>2
<1>7. ASSUME NEW v \in Data, SyscallReturn(v) PROVE \E a, d, sz, fl, k : Claims(a, d, sz, fl, k)
  BY <1>7 DEF SyscallReturn, Claims
<1>8. ASSUME NEW a \in MemAddrs, NEW d \in Data, NEW sz \in Sizes,
             TrackLoad(a, d, sz) \/ TrackStore(a, d, sz)
      PROVE  \E fl, k : Claims(a, d, sz, fl, k)
  BY <1>8 DEF TrackLoad, TrackStore, Claims
<1>9. ASSUME NEW r \in Regs, TrackRead(r) PROVE \E a, d, sz, fl, k : Claims(a, d, sz, fl, k)
  BY <1>9 DEF TrackRead, Claims
<1>10. ASSUME NEW r \in Regs, NEW d \in Data, TrackWrite(r, d)
       PROVE \/ \E a, sz, fl, k : Claims(a, d, sz, fl, k)
             \/ /\ UNCHANGED <<file_size, buffer, change_count, changelist_number, tpc>>
                /\ tpc = "body"
  BY <1>10 DEF TrackWrite, Claims
<1>11. ASSUME NEW nr \in SysNrs, OpCall(nr)
       PROVE  /\ UNCHANGED <<file_size, buffer, change_count, changelist_number>>
              /\ tpc \in Alive \ InAdd
              /\ tpc' \in {"commit", "sysregs"}
  BY <1>11 DEF OpCall, fileVars
<1>12. ASSUME NEW a \in MemAddrs, NEW d \in Data, TrackKernelWrite(a, d)
       PROVE  \E sz, fl, k : Claims(a, d, sz, fl, k)
  BY <1>12 DEF TrackKernelWrite, Claims
<1>13. CASE Killed
  BY <1>13 DEF Killed, fileVars
<1>14. CASE Guest
  BY <1>14, <1>6, <1>7, <1>8, <1>9, <1>10, <1>11, <1>12 DEF Guest
<1>15. CASE Finish
  BY <1>15, <1>1, <1>2, <1>3, <1>4, <1>5 DEF Finish
<1> QED
  BY <1>13, <1>14, <1>15 DEF TracerNext

\* Every step keeps the claimed entries valid.
LEMMA FilledStep == TracerInv /\ Filled /\ [TracerNext]_tracerVars => Filled'
<1> SUFFICES ASSUME TracerInv, Filled, [TracerNext]_tracerVars PROVE Filled'
  OBVIOUS
<1>0. TracerTypeOK'
  BY TracerTypeStep
<1>1. CASE WriteHeader
  BY <1>1 DEF WriteHeader, Filled
<1>2. CASE UNCHANGED tracerVars
  BY <1>2 DEF tracerVars, fileVars, localVars, Filled, Complete
<1>3. CASE TracerNext
  BY <1>0, <1>1, <1>3, StepsOfLog, ClaimKeepsFilled, StoreKeepsFilled, SilentKeepsFilled DEF Claims
<1> QED
  BY <1>2, <1>3

\* The claimed entries are valid in every reachable state.
LEMMA FilledInvariant == TracerSpec => [](TracerInv /\ Filled)
<1>1. TracerInit => Filled
  BY DEF TracerInit, Filled
<1> QED
  BY <1>1, FilledStep, TracerInitInv, TracerInvStep, PTL DEF TracerSpec

\* Entries become valid in the order in which they are claimed: a process
\* that maps the file finds at most the last claimed entry torn, wherever the
\* tracer is between its stores and wherever it was killed.
THEOREM TracerNoGaps == TracerSpec => []NoGapsBehindWriter
<1>1. Filled => NoGapsBehindWriter
  BY DEF Filled, NoGapsBehindWriter
<1> QED
  BY <1>1, FilledInvariant, PTL

-----------------------------------------------------------------------------
(* The log and what is pending replay to the guest's registers.            *)

\* The registers that can be pending.
Saved == 0 .. PendingMax - 1

\* The last entry of a set, if it has one.
LastEntry(S) == CHOOSE e \in S : \A f \in S : f <= e

\* A set that has a last entry has it in it.
LEMMA LastIn ==
  ASSUME NEW S, \E e \in S : \A f \in S : f <= e
  PROVE  LastEntry(S) \in S
  BY DEF LastEntry

\* An entry behind all others is the last one.
LEMMA LastAdded ==
  ASSUME NEW S \in SUBSET Nat, NEW m \in Nat, \A f \in S : f < m
  PROVE  LastEntry(S \cup {m}) = m
<1>1. \A f \in S \cup {m} : f <= m
  OBVIOUS
<1>2. \A e \in S \cup {m} : (\A f \in S \cup {m} : f <= e) => e = m
  OBVIOUS
<1> QED
  BY <1>1, <1>2 DEF LastEntry

\* The writes of a register that the log holds.
RegWrites(r) ==
  {e \in 1 .. file_size - 1 : Complete(e) /\ "WRITE" \in buffer[e].flags
                                /\ "MEM" \notin buffer[e].flags /\ buffer[e].address = r}

HasLast(r) == RegWrites(r) # {} => \E e \in RegWrites(r) : \A f \in RegWrites(r) : f <= e

\* The entry being written is a write of the register.
Landing(r) ==
  /\ tpc \in InAdd
  /\ "WRITE" \in cur.flags
  /\ "MEM" \notin cur.flags
  /\ cur.address = r

\* What the log replays to when the entry being written is in.
Logged(r) == IF Landing(r) THEN cur.data ELSE Replayed(r)

\* Where the handler is, add_change aside.
At == IF tpc \in InAdd THEN ret ELSE tpc

\* Points at which nothing is pending.
Committed == {"create", "header", "start", "sysregs", "syscall", "segdata", "tb"}

\* The guest's register is what is pending, or else what the log replays to;
\* commit_pending_changes brings the two together register by register.
RegisterFollows(r) ==
  /\ env[r] = IF pending[r] # None THEN pending[r] ELSE Logged(r)
  /\ (At = "commit" /\ r < loop_i) => env[r] = Logged(r)
  /\ (~is_filtered \/ At \in Committed) => pending[r] = None

\* The entry being written holds what add_change was called with; a segment
\* load, whose data is stored late, writes no register.
Stored ==
  /\ tpc \in InAdd => cc >= 1
  /\ tpc \in {"clnum", "flags"} => buffer[cc].address = cur.address /\ buffer[cc].data = cur.data
  /\ (tpc \in InAdd /\ ret = "segdata") => "WRITE" \notin cur.flags
  /\ tpc = "segdata" => "WRITE" \notin buffer[cc].flags

\* The inductive invariant.
ReplayInv ==
  /\ TracerInv /\ Filled /\ Stored
  /\ \A r \in Saved : HasLast(r)
  /\ tpc # "killed" => \A r \in Saved : RegisterFollows(r)

\* Replayed is what the last write holds.
LEMMA ReplayedLast ==
  ASSUME NEW r
  PROVE  Replayed(r) = IF RegWrites(r) = {} THEN 0 ELSE buffer[LastEntry(RegWrites(r))].data
  BY DEF Replayed, RegWrites, LastEntry

LEMMA ReplayedLastNext ==
  ASSUME NEW CONSTANT r
  PROVE  Replayed(r)' = IF RegWrites(r)' = {} THEN 0 ELSE buffer'[LastEntry(RegWrites(r)')].data
  BY DEF Replayed, RegWrites, LastEntry

\* The same writes with the same data replay to the same value.
LEMMA SameWrites ==
  ASSUME NEW CONSTANT r, HasLast(r), RegWrites(r)' = RegWrites(r),
         \A e \in RegWrites(r) : buffer'[e].data = buffer[e].data
  PROVE  Replayed(r)' = Replayed(r) /\ HasLast(r)'
<1>1. HasLast(r)'
  BY DEF HasLast
<1>2. RegWrites(r) # {} => LastEntry(RegWrites(r)) \in RegWrites(r)
  BY LastIn DEF HasLast
<1>3. Replayed(r)' = Replayed(r)
  BY <1>2, ReplayedLast, ReplayedLastNext
<1> QED
  BY <1>1, <1>3

\* Growing the file adds no valid entry.
LEMMA GrowKeepsLogged ==
  ASSUME ReplayInv, TracerTypeOK', CreateLog \/ DoubleBuffer, NEW CONSTANT r \in Saved
  PROVE  Logged(r)' = Logged(r) /\ HasLast(r)'
<1> USE DEF ReplayInv, TracerInv
<1>1. PICK n \in Nat : n >= file_size /\ ResizeChangeBuffer(n)
  <2>1. CASE CreateLog
    BY <2>1 DEF CreateLog, Cursor, TracerTypeOK
  <2>2. CASE DoubleBuffer
    <3>1. change_size * 2 \in Nat /\ change_size * 2 >= file_size
      BY <2>2 DEF DoubleBuffer, Cursor, TracerTypeOK
    <3> QED
      BY <2>2, <3>1 DEF DoubleBuffer
  <2> QED
    BY <2>1, <2>2
<1>2. /\ \A e \in 0 .. file_size - 1 : buffer'[e] = buffer[e]
      /\ \A e \in 0 .. n - 1 : e >= file_size => buffer'[e].flags = {}
      /\ file_size' = n /\ file_size \in Nat
  BY <1>1, TruncatedType DEF ResizeChangeBuffer, TracerTypeOK
<1>3. RegWrites(r)' = RegWrites(r)
  <2>1. ASSUME NEW e \in RegWrites(r)' PROVE e \in RegWrites(r)
    <3>1. e \in 1 .. n - 1 /\ "VALID" \in buffer'[e].flags
      BY <1>2, <2>1 DEF RegWrites, Complete
    <3>2. e \in 1 .. file_size - 1 /\ e \in 0 .. file_size - 1
      BY <1>1, <1>2, <3>1
    <3> QED
      BY <1>2, <2>1, <3>2 DEF RegWrites, Complete
  <2>2. ASSUME NEW e \in RegWrites(r) PROVE e \in RegWrites(r)'
    <3>1. e \in 1 .. n - 1 /\ e \in 0 .. file_size - 1
      BY <1>1, <1>2 DEF RegWrites
    <3> QED
      BY <1>2, <2>2, <3>1 DEF RegWrites, Complete
  <2> QED
    BY <2>1, <2>2
<1>4. \A e \in RegWrites(r) : buffer'[e].data = buffer[e].data
  BY <1>2 DEF RegWrites
<1>5. Replayed(r)' = Replayed(r) /\ HasLast(r)'
  BY <1>3, <1>4, SameWrites
<1>6. Landing(r)' = Landing(r) /\ UNCHANGED cur
  BY DEF CreateLog, DoubleBuffer, Landing
<1> QED
  BY <1>5, <1>6 DEF Logged

\* Stores to an entry that is not valid, or to a segment load's data.
LEMMA FillKeepsLogged ==
  ASSUME ReplayInv, TracerTypeOK', NEW CONSTANT r \in Saved,
         WriteAddressAndData \/ WriteClnum \/ \E d \in Data : SegmentData(d)
  PROVE  Logged(r)' = Logged(r) /\ HasLast(r)'
<1> USE DEF ReplayInv, TracerInv
<1>1. /\ tpc \in {"address", "clnum", "segdata"}
      /\ UNCHANGED <<file_size, cur>>
      /\ tpc \in InAdd <=> tpc' \in InAdd
  BY DEF WriteAddressAndData, WriteClnum, SegmentData
<1>2. cc \in 0 .. file_size - 1
  BY <1>1 DEF Cursor, TracerTypeOK
<1>3. /\ \A e \in 0 .. file_size - 1 : e # cc => buffer'[e] = buffer[e]
      /\ buffer'[cc].flags = buffer[cc].flags
  <2>1. CASE WriteAddressAndData
    BY <1>2, <2>1 DEF WriteAddressAndData, TracerTypeOK, Change
  <2>2. CASE WriteClnum
    BY <1>2, <2>2 DEF WriteClnum, TracerTypeOK, Change
  <2>3. ASSUME NEW d \in Data, SegmentData(d)
        PROVE  /\ \A e \in 0 .. file_size - 1 : e # cc => buffer'[e] = buffer[e]
               /\ buffer'[cc].flags = buffer[cc].flags
    BY <1>2, <2>3 DEF SegmentData, TracerTypeOK, Change
  <2> QED
    BY <2>1, <2>2, <2>3
<1>4. "WRITE" \notin buffer[cc].flags
  <2>1. CASE tpc \in InAdd
    BY <1>2, <2>1 DEF Unwritten
  <2>2. CASE tpc = "segdata"
    BY <2>2 DEF Stored
  <2> QED
    BY <1>1, <2>1, <2>2
<1>5. RegWrites(r)' = RegWrites(r) /\ \A e \in RegWrites(r) : buffer'[e].data = buffer[e].data
  BY <1>1, <1>3, <1>4 DEF RegWrites, Complete
<1>6. Replayed(r)' = Replayed(r) /\ HasLast(r)'
  BY <1>5, SameWrites
<1>7. Landing(r)' = Landing(r) /\ UNCHANGED cur
  BY <1>1 DEF Landing
<1> QED
  BY <1>6, <1>7 DEF Logged

\* The last store: a write of the register becomes the last one of the log.
LEMMA FlagsKeepLogged ==
  ASSUME ReplayInv, TracerTypeOK', NEW CONSTANT r \in Saved, WriteFlags
  PROVE  Logged(r)' = Logged(r) /\ HasLast(r)'
<1> USE DEF ReplayInv, TracerInv
<1>1. /\ tpc = "flags" /\ tpc' = ret /\ ret \notin InAdd
      /\ UNCHANGED <<file_size, cur>>
  BY DEF WriteFlags, Behind
<1>2. cc \in 1 .. file_size - 1 /\ cc + 1 = change_count /\ file_size \in Nat /\ cc \in Nat
  <2>1. cc \in 0 .. file_size - 1 /\ cc + 1 = change_count /\ file_size \in Nat /\ cc \in Nat
    BY <1>1 DEF Cursor, TracerTypeOK
  <2> QED
    BY <1>1, <2>1 DEF Stored
<1>3. /\ \A e \in 0 .. file_size - 1 : e # cc => buffer'[e] = buffer[e]
      /\ buffer'[cc].flags = cur.flags
      /\ buffer'[cc].address = cur.address
      /\ buffer'[cc].data = cur.data
      /\ buffer[cc].flags = {}
      /\ "VALID" \in cur.flags
  <2>1. cc \in 0 .. file_size - 1 /\ buffer[cc] \in Change
    BY <1>2 DEF TracerTypeOK
  <2>2. buffer' = [buffer EXCEPT ![cc].flags = cur.flags, ![cc].size = cur.size]
    BY DEF WriteFlags
  <2>3. /\ \A e \in 0 .. file_size - 1 : e # cc => buffer'[e] = buffer[e]
        /\ buffer'[cc].flags = cur.flags
        /\ buffer'[cc].address = buffer[cc].address
        /\ buffer'[cc].data = buffer[cc].data
    BY <2>1, <2>2 DEF TracerTypeOK, Change
  <2>4. buffer[cc].address = cur.address /\ buffer[cc].data = cur.data /\ "VALID" \in cur.flags
    BY <1>1 DEF Stored, Filled
  <2>5. buffer[cc].flags = {}
    BY <1>1, <2>1 DEF Unwritten
  <2> QED
    BY <2>3, <2>4, <2>5
<1>4. \A e \in RegWrites(r) : e \in Nat /\ e < cc
  <2> SUFFICES ASSUME NEW e \in RegWrites(r) PROVE e \in Nat /\ e < cc
    OBVIOUS
  <2>1. e \in 1 .. file_size - 1 /\ e \in 0 .. file_size - 1 /\ buffer[e].flags # {}
    BY <1>2 DEF RegWrites, Complete
  <2>2. e < change_count /\ e # cc
    BY <1>1, <1>2, <2>1 DEF Unwritten, TracerTypeOK
  <2> QED
    BY <1>2, <2>1, <2>2
<1>5. CASE Landing(r)
  <2>1. RegWrites(r)' = RegWrites(r) \cup {cc}
    BY <1>1, <1>2, <1>3, <1>4, <1>5 DEF RegWrites, Complete, Landing
  <2>2. LastEntry(RegWrites(r)') = cc
    BY <1>2, <1>4, <2>1, LastAdded
  <2>3. Replayed(r)' = cur.data
    BY <1>3, <2>1, <2>2, ReplayedLastNext
  <2>4. HasLast(r)'
    BY <1>2, <1>4, <2>1 DEF HasLast
  <2> QED
    BY <1>1, <1>5, <2>3, <2>4 DEF Logged, Landing
<1>6. CASE ~Landing(r)
  <2>1. RegWrites(r)' = RegWrites(r)
    BY <1>1, <1>2, <1>3, <1>4, <1>6 DEF RegWrites, Complete, Landing
  <2>2. \A e \in RegWrites(r) : buffer'[e].data = buffer[e].data
    BY <1>3, <1>4 DEF RegWrites
  <2> QED
    BY <1>1, <1>6, <2>1, <2>2, SameWrites DEF Logged, Landing
<1> QED
  BY <1>5, <1>6

\* A call of add_change: the log will replay to the value logged.
LEMMA ClaimLogs ==
  ASSUME ReplayInv, NEW CONSTANT r \in Saved,
         NEW a, NEW d, NEW sz, NEW fl, NEW k,
         tpc \in Alive \ InAdd,
         AddChange(a, d, sz, fl, k),
         UNCHANGED <<file_size, buffer>>
  PROVE  /\ Logged(r)' = IF "WRITE" \in fl /\ "MEM" \notin fl /\ a = r THEN d ELSE Logged(r)
         /\ HasLast(r)'
         /\ At' = k
         /\ At = tpc
<1>1. /\ tpc' \in InAdd
      /\ cur'.flags = fl \cup {"VALID"}
      /\ cur'.address = a
      /\ cur'.data = d
      /\ ret' = k
  BY DEF AddChange
<1>2. RegWrites(r)' = RegWrites(r)
  BY DEF RegWrites, Complete
<1>3. Replayed(r)' = Replayed(r) /\ HasLast(r)'
  BY <1>2, SameWrites DEF ReplayInv
<1>4. Logged(r) = Replayed(r)
  BY DEF Logged, Landing
<1>5. Landing(r)' <=> "WRITE" \in fl /\ "MEM" \notin fl /\ a = r
  BY <1>1 DEF Landing
<1> QED
  BY <1>1, <1>3, <1>4, <1>5 DEF Logged, At

\* A call of add_change keeps what is known of the entry being written.
LEMMA ClaimStored ==
  ASSUME ReplayInv, NEW a, NEW d, NEW sz, NEW fl, NEW k,
         tpc \in Alive \ InAdd,
         AddChange(a, d, sz, fl, k),
         k = "segdata" => "WRITE" \notin fl
  PROVE  Stored'
<1>1. change_count >= 1
  BY DEF ReplayInv, TracerInv, Cursor
<1> QED
  BY <1>1 DEF AddChange, Stored

\* A call of add_change that writes no register, out of a handler that changes
\* none either.
LEMMA ClaimFollows ==
  ASSUME ReplayInv, NEW CONSTANT r \in Saved,
         NEW a, NEW d, NEW sz, NEW fl, NEW k,
         tpc \in Alive \ InAdd,
         AddChange(a, d, sz, fl, k),
         UNCHANGED <<file_size, buffer, env, pending>>,
         "WRITE" \notin fl \/ "MEM" \in fl,
         k # "commit",
         (~is_filtered' \/ k \in Committed) => (~is_filtered \/ tpc \in Committed)
  PROVE  RegisterFollows(r)' /\ HasLast(r)'
<1>1. Logged(r)' = Logged(r) /\ HasLast(r)' /\ At' = k /\ At = tpc
  BY ClaimLogs
<1>2. RegisterFollows(r)
  BY DEF ReplayInv
<1> QED
  BY <1>1, <1>2 DEF RegisterFollows

\* A step between two calls of add_change that leaves the log alone.
LEMMA SilentLogs ==
  ASSUME ReplayInv, NEW CONSTANT r \in Saved,
         tpc \notin InAdd, tpc' \notin InAdd,
         UNCHANGED <<file_size, buffer>>
  PROVE  Logged(r)' = Logged(r) /\ HasLast(r)' /\ At' = tpc' /\ At = tpc
<1>1. RegWrites(r)' = RegWrites(r)
  BY DEF RegWrites, Complete
<1>2. Replayed(r)' = Replayed(r) /\ HasLast(r)'
  BY <1>1, SameWrites DEF ReplayInv
<1> QED
  BY <1>2 DEF Logged, Landing, At

\* The registers and what is pending, after any step of the tracer.
Followed ==
  /\ Stored
  /\ \A r \in Saved : HasLast(r)
  /\ tpc # "killed" => \A r \in Saved : RegisterFollows(r)

\* The stores of add_change and of init_QIRA.
LEMMA StoreKeepsReplay ==
  ASSUME ReplayInv, TracerTypeOK',
         \/ CreateLog \/ DoubleBuffer
         \/ WriteAddressAndData \/ WriteClnum \/ WriteFlags
         \/ \E d \in Data : SegmentData(d)
  PROVE  Followed'
<1> USE DEF ReplayInv, TracerInv
<1>1. /\ UNCHANGED <<env, pending, is_filtered, loop_i, cur, ret, cc, PendingMax>>
      /\ tpc # "killed"
  BY DEF CreateLog, DoubleBuffer, WriteAddressAndData, WriteClnum, WriteFlags, SegmentData
<1>2. ASSUME NEW r \in Saved PROVE Logged(r)' = Logged(r) /\ HasLast(r)'
  BY GrowKeepsLogged, FillKeepsLogged, FlagsKeepLogged
<1>3. /\ At' = "commit" => At = "commit"
      /\ At' \in Committed => At \in Committed
  BY DEF CreateLog, DoubleBuffer, WriteAddressAndData, WriteClnum, WriteFlags, SegmentData,
         At, Committed, Behind
<1>4. ASSUME NEW r \in Saved PROVE RegisterFollows(r)'
  <2>1. RegisterFollows(r)
    BY <1>1
  <2>2. Logged(r)' = Logged(r)
    BY <1>2
  <2> QED
    BY <1>1, <1>3, <2>1, <2>2 DEF RegisterFollows
<1>5. Stored'
  <2>1. CASE CreateLog
    BY <2>1 DEF CreateLog, Stored
  <2>2. CASE DoubleBuffer
    BY <2>2 DEF DoubleBuffer, Stored
  <2>3. CASE WriteAddressAndData \/ WriteClnum
    <3>1. tpc \in InAdd /\ tpc' \in {"clnum", "flags"} /\ (tpc' = "flags" => tpc = "clnum")
      BY <2>3 DEF WriteAddressAndData, WriteClnum
    <3>2. cc \in 0 .. file_size - 1
      BY <2>3 DEF WriteAddressAndData, WriteClnum, Cursor, TracerTypeOK
    <3>3. buffer'[cc].address = cur.address /\ buffer'[cc].data = cur.data
      <4>1. CASE WriteAddressAndData
        BY <3>2, <4>1 DEF WriteAddressAndData, TracerTypeOK, Change
      <4>2. CASE WriteClnum
        BY <3>2, <4>2 DEF WriteClnum, TracerTypeOK, Change, Stored
      <4> QED
        BY <2>3, <4>1, <4>2
    <3> QED
      BY <1>1, <3>1, <3>3 DEF Stored
  <2>4. CASE WriteFlags
    <3>1. tpc = "flags" /\ tpc' = ret /\ ret \notin InAdd
      BY <2>4 DEF WriteFlags, Behind
    <3>2. cc \in 0 .. file_size - 1
      BY <3>1 DEF Cursor, TracerTypeOK
    <3>3. buffer'[cc].flags = cur.flags
      BY <2>4, <3>2 DEF WriteFlags, TracerTypeOK, Change
    <3> QED
      BY <1>1, <3>1, <3>3 DEF Stored
  <2>5. ASSUME NEW d \in Data, SegmentData(d) PROVE Stored'
    BY <2>5 DEF SegmentData, Stored
  <2> QED
    BY <2>1, <2>2, <2>3, <2>4, <2>5
<1>6. \A r \in Saved : HasLast(r)'
  BY <1>2
<1> QED
  BY <1>4, <1>5, <1>6 DEF Followed, Saved

\* The types of the registers and of what is pending of them.
LEMMA SavedTypes ==
  ASSUME ReplayInv
  PROVE  /\ Saved \subseteq Regs /\ Saved \subseteq Nat
         /\ env \in [Regs -> Data] /\ pending \in [Regs -> Data \cup {None}]
         /\ loop_i \in Nat
<1>1. TracerTypeOK
  BY DEF ReplayInv, TracerInv
<1>2. env \in [Regs -> Data] /\ pending \in [Regs -> Data \cup {None}] /\ loop_i \in Nat
  BY <1>1 DEF TracerTypeOK
<1>3. Saved \subseteq Regs /\ Saved \subseteq Nat
  BY TracerAssumption DEF Saved, Regs
<1> QED
  BY <1>2, <1>3

\* A handler whose call of add_change logs a write of a register.
LEMMA ClaimKeepsReplay ==
  ASSUME ReplayInv, TracerTypeOK',
         \/ SyscallRegister
         \/ \E v \in Data : SyscallReturn(v)
         \/ \E r \in Regs : CommitOne(r)
         \/ \E r \in Regs, d \in Data : TrackWrite(r, d) /\ ~is_filtered
  PROVE  Followed'
<1> USE DEF ReplayInv, TracerInv
<1>0. /\ Saved \subseteq Regs /\ Saved \subseteq Nat
      /\ env \in [Regs -> Data] /\ pending \in [Regs -> Data \cup {None}]
      /\ loop_i \in Nat
  BY SavedTypes
<1>1. CASE SyscallRegister
  <2>1. /\ tpc = "sysregs" /\ UNCHANGED <<file_size, buffer, env, pending, is_filtered>>
        /\ AddChange(loop_i, env[loop_i], 1, {"WRITE"}, "sysregs")
    BY <1>1 DEF SyscallRegister
  <2>2. ASSUME NEW r \in Saved PROVE RegisterFollows(r)' /\ HasLast(r)'
    <3>1. /\ Logged(r)' = IF loop_i = r THEN env[loop_i] ELSE Logged(r)
          /\ HasLast(r)' /\ At' = "sysregs" /\ At = "sysregs"
      BY <2>1, ClaimLogs
    <3>2. RegisterFollows(r)
      BY <2>1
    <3> QED
      BY <2>1, <3>1, <3>2 DEF RegisterFollows, Committed
  <2>3. Stored'
    BY <2>1, ClaimStored
  <2> QED
    BY <2>2, <2>3 DEF Followed, Saved
<1>2. ASSUME NEW v \in Data, SyscallReturn(v) PROVE Followed'
  <2>1. /\ tpc = "syscall" /\ UNCHANGED <<file_size, buffer, pending, is_filtered>>
        /\ env' = [env EXCEPT ![0] = v]
        /\ AddChange(0, v, 1, {"WRITE"}, "tb")
    BY <1>2 DEF SyscallReturn
  <2>2. ASSUME NEW r \in Saved PROVE RegisterFollows(r)' /\ HasLast(r)'
    <3>1. /\ Logged(r)' = IF 0 = r THEN v ELSE Logged(r)
          /\ HasLast(r)' /\ At' = "tb" /\ At = "syscall"
      BY <2>1, ClaimLogs
    <3>2. RegisterFollows(r)
      BY <2>1
    <3>3. env'[r] = IF r = 0 THEN v ELSE env[r]
      BY <1>0, <2>1
    <3> QED
      BY <2>1, <3>1, <3>2, <3>3 DEF RegisterFollows, Committed
  <2>3. Stored'
    BY <2>1, ClaimStored
  <2> QED
    BY <2>2, <2>3 DEF Followed, Saved
<1>3. ASSUME NEW q \in Regs, CommitOne(q) PROVE Followed'
  <2>1. /\ tpc = "commit" /\ UNCHANGED <<file_size, buffer, env, pending, is_filtered>>
        /\ pending[q] # None /\ q >= loop_i /\ loop_i' = q + 1
        /\ \A p \in loop_i .. q - 1 : pending[p] = None
        /\ AddChange(q, pending[q], 1, {"WRITE"}, "commit")
        /\ q \in Nat
    BY <1>3 DEF CommitOne, Regs
  <2>2. ASSUME NEW r \in Saved PROVE RegisterFollows(r)' /\ HasLast(r)'
    <3>1. /\ Logged(r)' = IF q = r THEN pending[q] ELSE Logged(r)
          /\ HasLast(r)' /\ At' = "commit" /\ At = "commit"
      BY <2>1, ClaimLogs
    <3>2. RegisterFollows(r)
      BY <2>1
    <3>3. r < loop_i' => env[r] = Logged(r)'
      <4>1. CASE r = q
        BY <2>1, <3>1, <3>2, <4>1 DEF RegisterFollows
      <4>2. CASE r < loop_i /\ r # q
        BY <2>1, <3>1, <3>2, <4>2 DEF RegisterFollows
      <4>3. CASE r \in loop_i .. q - 1
        BY <2>1, <3>1, <3>2, <4>3 DEF RegisterFollows
      <4> QED
        BY <1>0, <2>1, <4>1, <4>2, <4>3
    <3>4. env[r] = IF pending[r] # None THEN pending[r] ELSE Logged(r)'
      BY <2>1, <3>1, <3>2 DEF RegisterFollows
    <3> QED
      BY <2>1, <3>1, <3>2, <3>3, <3>4 DEF RegisterFollows, Committed
  <2>3. Stored'
    BY <2>1, ClaimStored
  <2> QED
    BY <2>2, <2>3 DEF Followed, Saved
<1>4. ASSUME NEW q \in Regs, NEW d \in Data, TrackWrite(q, d), ~is_filtered PROVE Followed'
  <2>1. /\ tpc = "body" /\ UNCHANGED <<file_size, buffer, pending, is_filtered>>
        /\ env' = [env EXCEPT ![q] = d]
        /\ AddChange(q, d, 1, {"WRITE"}, "body")
    BY <1>4 DEF TrackWrite
  <2>2. ASSUME NEW r \in Saved PROVE RegisterFollows(r)' /\ HasLast(r)'
    <3>1. /\ Logged(r)' = IF q = r THEN d ELSE Logged(r)
          /\ HasLast(r)' /\ At' = "body" /\ At = "body"
      BY <2>1, ClaimLogs
    <3>2. RegisterFollows(r)
      BY <2>1
    <3>3. env'[r] = IF r = q THEN d ELSE env[r]
      BY <1>0, <2>1
    <3> QED
      BY <1>4, <2>1, <3>1, <3>2, <3>3 DEF RegisterFollows, Committed
  <2>3. Stored'
    BY <2>1, ClaimStored
  <2> QED
    BY <2>2, <2>3 DEF Followed, Saved
<1> QED
  BY <1>1, <1>2, <1>3, <1>4

\* A handler whose call of add_change logs something else.
LEMMA OtherKeepsReplay ==
  ASSUME ReplayInv, TracerTypeOK',
         NEW a, NEW d, NEW sz, NEW fl, NEW k,
         tpc \in Alive \ InAdd,
         AddChange(a, d, sz, fl, k),
         UNCHANGED <<file_size, buffer, env, pending>>,
         "WRITE" \notin fl \/ ("MEM" \in fl /\ k # "segdata"),
         k # "commit",
         (~is_filtered' \/ k \in Committed) => (~is_filtered \/ tpc \in Committed)
  PROVE  Followed'
<1>1. \A r \in Saved : RegisterFollows(r)' /\ HasLast(r)'
  BY ClaimFollows
<1>2. Stored'
  BY ClaimStored
<1> QED
  BY <1>1, <1>2 DEF Followed, Saved

\* A step that stores and claims nothing.
LEMMA SilentKeepsReplay ==
  ASSUME ReplayInv, TracerTypeOK',
         \/ WriteHeader
         \/ CommitDone
         \/ \E nr \in SysNrs : OpCall(nr)
         \/ \E r \in Regs, d \in Data : TrackWrite(r, d) /\ is_filtered
         \/ \E pc \in Pcs : TbExec(pc) /\ tpc' \in {"body", "commit"}
  PROVE  Followed'
<1> USE DEF ReplayInv, TracerInv
<1>0. /\ Saved \subseteq Regs /\ Saved \subseteq Nat
      /\ env \in [Regs -> Data] /\ pending \in [Regs -> Data \cup {None}]
      /\ loop_i \in Nat
  BY SavedTypes
<1>1. /\ tpc \notin InAdd \cup {"segdata", "killed"} /\ tpc' \notin InAdd \cup {"segdata"}
      /\ UNCHANGED <<file_size, buffer>>
  BY DEF WriteHeader, CommitDone, OpCall, TrackWrite, TbExec, fileVars, TracerTypeOK
<1>2. Stored'
  BY <1>1 DEF Stored
<1>3. ASSUME NEW r \in Saved PROVE RegisterFollows(r)' /\ HasLast(r)'
  <2>1. Logged(r)' = Logged(r) /\ HasLast(r)' /\ At' = tpc' /\ At = tpc
    BY <1>1, SilentLogs
  <2>2. RegisterFollows(r)
    BY <1>1
  <2>3. CASE WriteHeader
    BY <2>1, <2>2, <2>3 DEF WriteHeader, RegisterFollows, Committed
  <2>4. CASE CommitDone
    <3>1. env[r] = Logged(r)
      <4>1. CASE r < loop_i
        BY <2>1, <2>2, <2>4, <4>1 DEF CommitDone, RegisterFollows
      <4>2. CASE r \in loop_i .. RegCount - 1
        BY <2>1, <2>2, <2>4, <4>2 DEF CommitDone, RegisterFollows
      <4> QED
        BY <1>0, <4>1, <4>2, TracerAssumption DEF Regs
    <3>2. pending'[r] = None /\ UNCHANGED env /\ tpc' # "commit"
      BY <1>0, <2>4 DEF CommitDone, TracerTypeOK
    <3> QED
      BY <2>1, <3>1, <3>2 DEF RegisterFollows
  <2>5. ASSUME NEW nr \in SysNrs, OpCall(nr) PROVE RegisterFollows(r)'
    BY <1>0, <2>1, <2>2, <2>5 DEF OpCall, RegisterFollows, Committed
  <2>6. ASSUME NEW q \in Regs, NEW d \in Data, TrackWrite(q, d), is_filtered
        PROVE  RegisterFollows(r)'
    <3>1. /\ tpc = "body" /\ tpc' = "body" /\ is_filtered'
          /\ env' = [env EXCEPT ![q] = d]
          /\ pending' = IF q < PendingMax THEN [pending EXCEPT ![q] = d] ELSE pending
      BY <2>6 DEF TrackWrite, AddPendingChange
    <3>2. r = q => q < PendingMax
      BY TracerAssumption DEF Saved, Regs
    <3>3. d # None
      BY TracerAssumption
    <3>4. CASE r = q
      <4>1. env'[r] = d /\ pending'[r] = d
        BY <1>0, <3>1, <3>2, <3>4
      <4> QED
        BY <2>1, <3>1, <3>3, <4>1 DEF RegisterFollows, Committed
    <3>5. CASE r # q
      <4>1. env'[r] = env[r] /\ pending'[r] = pending[r]
        BY <1>0, <3>1, <3>5
      <4> QED
        BY <2>1, <2>2, <3>1, <4>1 DEF RegisterFollows, Committed
    <3> QED
      BY <3>4, <3>5
  <2>7. ASSUME NEW pc \in Pcs, TbExec(pc), tpc' \in {"body", "commit"}
        PROVE  RegisterFollows(r)'
    <3>1. /\ UNCHANGED <<env, pending>>
          /\ is_filtered'
          /\ tpc' = "commit" => loop_i' = 0
      BY <2>7 DEF TbExec, StartInstruction, AddChange
    <3> QED
      BY <1>0, <2>1, <2>2, <2>7, <3>1 DEF RegisterFollows, Committed
  <2> QED
    BY <2>1, <2>3, <2>4, <2>5, <2>6, <2>7
<1> QED
  BY <1>2, <1>3 DEF Followed, Saved

\* Every step keeps the log and what is pending together with the registers.
LEMMA ReplayInvStep == ReplayInv /\ [TracerNext]_tracerVars => ReplayInv'
<1> SUFFICES ASSUME ReplayInv, [TracerNext]_tracerVars PROVE Followed'
  BY TracerInvStep, FilledStep DEF ReplayInv, Followed
<1>0. TracerTypeOK' /\ TracerTypeOK
  BY TracerTypeStep DEF ReplayInv, TracerInv
<1>1. CASE TbStart
  <2>1. AddChange(job, 1, 0, {"START"}, "body")
    BY <1>1 DEF TbStart, StartInstruction
  <2>2. tpc = "start" /\ UNCHANGED <<file_size, buffer, env, pending>>
    BY <1>1 DEF TbStart
  <2> QED
    BY <1>0, <2>1, <2>2, OtherKeepsReplay DEF Committed
<1>2. CASE SyscallBegin
  <2>1. PICK k \in {"segdata", "syscall"} : AddChange(job, 0, 0, {"SYSCALL"}, k)
    BY <1>2 DEF SyscallBegin
  <2>2. tpc = "sysregs" /\ UNCHANGED <<file_size, buffer, env, pending>>
    BY <1>2 DEF SyscallBegin
  <2> QED
    BY <1>0, <2>1, <2>2, OtherKeepsReplay DEF Committed
<1>3. ASSUME NEW pc \in Pcs, TbExec(pc) PROVE Followed'
  <2>1. CASE StartInstruction(pc) /\ ~is_filtered
    <3>1. AddChange(pc, 1, 0, {"START"}, "body")
      BY <2>1 DEF StartInstruction
    <3>2. tpc \in {"boot", "body", "tb"} /\ UNCHANGED <<file_size, buffer, env, pending>>
      BY <1>3 DEF TbExec
    <3> QED
      BY <1>0, <2>1, <3>1, <3>2, OtherKeepsReplay DEF Committed
  <2>2. CASE tpc' \in {"body", "commit"}
    BY <1>0, <1>3, <2>2, SilentKeepsReplay
  <2> QED
    BY <1>3, <2>1, <2>2 DEF TbExec
<1>4. ASSUME NEW a \in MemAddrs, NEW d \in Data, NEW sz \in Sizes,
             TrackLoad(a, d, sz) \/ TrackStore(a, d, sz)
      PROVE  Followed'
  <2>1. PICK fl \in {{"MEM"}, {"MEM", "WRITE"}} : AddChange(a, d, sz, fl, "body")
    BY <1>4 DEF TrackLoad, TrackStore
  <2>2. /\ tpc = "body"
        /\ UNCHANGED <<file_size, buffer, env, pending, is_filtered>>
    BY <1>4 DEF TrackLoad, TrackStore
  <2> QED
    BY <1>0, <2>1, <2>2, OtherKeepsReplay DEF Committed
<1>5. ASSUME NEW r \in Regs, TrackRead(r) PROVE Followed'
  <2>1. /\ AddChange(r, env[r], 1, {}, "body") /\ tpc = "body"
        /\ UNCHANGED <<file_size, buffer, env, pending, is_filtered>>
    BY <1>5 DEF TrackRead
  <2> QED
    BY <1>0, <2>1, OtherKeepsReplay DEF Committed
<1>6. ASSUME NEW a \in MemAddrs, NEW d \in Data, TrackKernelWrite(a, d) PROVE Followed'
  <2>1. /\ AddChange(a, d, 1, {"MEM", "WRITE"}, "syscall") /\ tpc = "syscall"
        /\ UNCHANGED <<file_size, buffer, env, pending, is_filtered>>
    BY <1>6 DEF TrackKernelWrite
  <2> QED
    BY <1>0, <2>1, OtherKeepsReplay DEF Committed
<1>7. ASSUME NEW r \in Regs, NEW d \in Data, TrackWrite(r, d) PROVE Followed'
  BY <1>0, <1>7, ClaimKeepsReplay, SilentKeepsReplay
<1>8. CASE Killed
  <2>1. /\ tpc' = "killed" /\ UNCHANGED <<file_size, buffer>>
    BY <1>8 DEF Killed, fileVars
  <2>2. ASSUME NEW r \in Saved PROVE HasLast(r)'
    <3>1. RegWrites(r)' = RegWrites(r)
      BY <2>1 DEF RegWrites, Complete
    <3> QED
      BY <2>1, <3>1, SameWrites DEF ReplayInv
  <2> QED
    BY <2>1, <2>2 DEF Followed, Stored, Saved
<1>9. CASE UNCHANGED tracerVars
  <2>1. ASSUME NEW r \in Saved PROVE Replayed(r)' = Replayed(r) /\ HasLast(r)'
    <3>1. RegWrites(r)' = RegWrites(r)
      BY <1>9 DEF RegWrites, Complete, tracerVars, fileVars
    <3> QED
      BY <1>9, <3>1, SameWrites DEF ReplayInv, tracerVars, fileVars
  <2>2. ASSUME NEW r \in Saved, RegisterFollows(r) PROVE RegisterFollows(r)'
    BY <1>9, <2>1, <2>2 DEF RegisterFollows, Logged, Landing, At, tracerVars, localVars
  <2>3. Stored'
    BY <1>9 DEF ReplayInv, Stored, tracerVars, fileVars, localVars
  <2>4. UNCHANGED tpc
    BY <1>9 DEF tracerVars, localVars
  <2> QED
    BY <2>1, <2>2, <2>3, <2>4 DEF Followed, ReplayInv, Saved
<1>10. CASE Guest
  BY <1>0, <1>10, <1>3, <1>4, <1>5, <1>6, <1>7, ClaimKeepsReplay, SilentKeepsReplay DEF Guest
<1>11. CASE Finish
  BY <1>0, <1>1, <1>2, <1>11, StoreKeepsReplay, ClaimKeepsReplay, SilentKeepsReplay DEF Finish
<1> QED
  BY <1>8, <1>9, <1>10, <1>11 DEF TracerNext

\* An empty log, registers at zero and nothing pending.
LEMMA ReplayInit == TracerInit => ReplayInv
<1> SUFFICES ASSUME TracerInit PROVE ReplayInv
  OBVIOUS
<1>1. TracerInv /\ Filled /\ Stored
  BY TracerInitInv DEF TracerInit, Filled, Stored
<1>2. ASSUME NEW r \in Saved PROVE HasLast(r) /\ RegisterFollows(r)
  <2>1. RegWrites(r) = {}
    BY DEF TracerInit, RegWrites
  <2>2. Replayed(r) = 0
    BY <2>1, ReplayedLast
  <2>3. r \in Regs
    BY TracerAssumption DEF Saved, Regs
  <2>4. env[r] = 0 /\ pending[r] = None /\ tpc = "create"
    BY <2>3 DEF TracerInit
  <2> QED
    BY <2>1, <2>2, <2>4 DEF HasLast, RegisterFollows, Logged, Landing, At
<1> QED
  BY <1>1, <1>2 DEF ReplayInv

\* The log and what is pending replay to the registers in every reachable state.
LEMMA ReplayInvariant == TracerSpec => []ReplayInv
  BY ReplayInit, ReplayInvStep, PTL DEF TracerSpec

\* In any block, filtered or not, what the log replays to, overlaid with what
\* add_pending_change remembers, is the guest's register file: for every set
\* of filtered blocks, every gate and every number of registers.
THEOREM TracerRegistersReplay == TracerSpec => []RegistersReplay
<1>1. ReplayInv => RegistersReplay
  BY DEF ReplayInv, RegistersReplay, RegisterFollows, Logged, Landing, Saved
<1> QED
  BY <1>1, ReplayInvariant, PTL

\* When a system call is logged nothing is pending and the log replays to the
\* guest's arguments: commit_pending_changes and the registers dumped by
\* track_syscall_begin leave no register behind.
THEOREM TracerSyscallArguments == TracerSpec => []SyscallArgumentsReplay
<1>1. ReplayInv => SyscallArgumentsReplay
  BY DEF ReplayInv, SyscallArgumentsReplay, RegisterFollows, Logged, Landing, Saved, At, Committed
<1> QED
  BY <1>1, ReplayInvariant, PTL
=============================================================================
