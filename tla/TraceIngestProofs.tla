------------------------- MODULE TraceIngestProofs -------------------------
(***************************************************************************)
(* For every log, guest, register file and clamp, and every interleaving   *)
(* of the tracer's stores, the ingest thread and a query: the ingest       *)
(* thread and the scans it runs beside read only what is mapped; the index *)
(* of instruction starts is right whatever they see of the tracer's        *)
(* stores; what the database holds is what the tracer finally wrote, what  *)
(* it publishes can be fetched, what a fetch returns is exact, and no      *)
(* update is lost on its way to the clients; the registers and the memory  *)
(* answered for a clnum are the ones the log leaves there, the clnums      *)
(* answered for an address are those of its entries, and an answer about   *)
(* the past does not change while the trace grows.                         *)
(***************************************************************************)
EXTENDS TraceIngest, QemuTracerProofs, FiniteSetTheorems, WellFoundedInduction

USE DEF Points, Idle, InAdd, Alive, DBPoints, Types

\* A step of the composition is a step of the tracer, or leaves it alone.
LEMMA IngestStepsTracer == [IngestNext]_vars => [TracerNext]_tracerVars
  BY DEF IngestNext, vars

\* The composition runs the tracer of QemuTracer: its theorems hold here too.
THEOREM IngestRunsTracer == IngestSpec => TracerSpec
<1>1. IngestInit => TracerInit
  BY DEF IngestInit
<1> QED
  BY <1>1, IngestStepsTracer, PTL DEF IngestSpec, TracerSpec

-----------------------------------------------------------------------------
\* What the tracer never takes back: the file does not shrink, and a valid
\* entry keeps its flags and its clnum.
FileGrows ==
  /\ file_size' >= file_size
  /\ \A e \in 0 .. file_size - 1 :
       Complete(e) => buffer'[e].flags = buffer[e].flags /\ buffer'[e].clnum = buffer[e].clnum

\* No step of the tracer shortens the file or alters an entry that is complete.
LEMMA TracerKeepsFile == TracerInv /\ [TracerNext]_tracerVars => FileGrows
<1> SUFFICES ASSUME TracerInv, [TracerNext]_tracerVars PROVE FileGrows
  OBVIOUS
<1>0. TracerTypeOK /\ TracerTypeOK' /\ Cursor /\ Unwritten /\ Behind
  BY TracerTypeStep DEF TracerInv
<1>1. CASE UNCHANGED <<file_size, buffer>>
  BY <1>0, <1>1 DEF FileGrows, TracerTypeOK
<1>2. CASE CreateLog \/ DoubleBuffer
  <2>1. PICK n \in Nat : n >= file_size /\ ResizeChangeBuffer(n)
    <3>1. CASE CreateLog
      BY <1>0, <3>1 DEF CreateLog, Cursor, TracerTypeOK
    <3>2. CASE DoubleBuffer
      <4>1. change_size * 2 \in Nat /\ change_size * 2 >= file_size
        BY <1>0, <3>2 DEF DoubleBuffer, Cursor, TracerTypeOK
      <4> QED
        BY <3>2, <4>1 DEF DoubleBuffer
    <3> QED
      BY <1>2, <3>1, <3>2
  <2>2. \A e \in 0 .. file_size - 1 : buffer'[e] = buffer[e]
    BY <1>0, <2>1, TruncatedType
  <2> QED
    BY <2>1, <2>2 DEF FileGrows, ResizeChangeBuffer
<1>3. CASE WriteAddressAndData \/ WriteClnum \/ WriteFlags
  <2>1. cc \in 0 .. file_size - 1 /\ ~Complete(cc) /\ file_size' = file_size
    <3>1. tpc \in {"address", "clnum", "flags"} /\ file_size' = file_size
      BY <1>3 DEF WriteAddressAndData, WriteClnum, WriteFlags
    <3>2. cc \in 0 .. file_size - 1
      BY <1>0, <3>1 DEF Cursor, TracerTypeOK
    <3> QED
      BY <1>0, <3>1, <3>2 DEF Unwritten, Complete
  <2>2. \A e \in 0 .. file_size - 1 : e # cc => buffer'[e] = buffer[e]
    <3>1. CASE WriteAddressAndData
      BY <1>0, <3>1 DEF WriteAddressAndData, TracerTypeOK
    <3>2. CASE WriteClnum
      BY <1>0, <3>2 DEF WriteClnum, TracerTypeOK
    <3>3. CASE WriteFlags
      BY <1>0, <3>3 DEF WriteFlags, TracerTypeOK
    <3> QED
      BY <1>3, <3>1, <3>2, <3>3
  <2> QED
    BY <1>0, <2>1, <2>2 DEF FileGrows, TracerTypeOK
<1>4. ASSUME NEW d \in Data, SegmentData(d) PROVE FileGrows
  <2>1. \A e \in 0 .. file_size - 1 : /\ buffer'[e].flags = buffer[e].flags
                                     /\ buffer'[e].clnum = buffer[e].clnum
    BY <1>0, <1>4 DEF SegmentData, TracerTypeOK, Change
  <2>2. file_size' >= file_size
    BY <1>0, <1>4 DEF SegmentData, TracerTypeOK
  <2> QED
    BY <2>1, <2>2 DEF FileGrows
<1> QED
  <2>1. CASE Guest
    BY <1>1, <2>1 DEF Guest, TbExec, SyscallReturn, TrackLoad, TrackStore, TrackRead, TrackWrite,
                      OpCall, TrackKernelWrite, fileVars
  <2>2. CASE Finish
    BY <1>1, <1>2, <1>3, <1>4, <2>2 DEF Finish, WriteHeader, TbStart, CommitDone,
                                        SyscallRegister, SyscallBegin, CommitOne
  <2>3. CASE Killed \/ UNCHANGED tracerVars
    BY <1>1, <2>3 DEF Killed, tracerVars, fileVars
  <2> QED
    BY <2>1, <2>2, <2>3 DEF TracerNext

-----------------------------------------------------------------------------
\* Types of what the ingest thread and the Python side keep outside the maps.
ThreadTypes ==
  /\ entries_done \in Nat
  /\ entry_count \in Nat
  /\ backing_size \in Nat
  /\ index_size \in Nat
  /\ clnum_to_entry_number \in [0 .. index_size - 1 -> Nat]
  /\ dpc \in DBPoints
  /\ type \in Types

\* How far the thread has got, has latched and has mapped.
Window ==
  /\ entries_done >= 1
  /\ backing_size <= file_size
  /\ dpc = "connect" => entries_done = 1
  /\ dpc \notin {"connect", "dead"} => entries_done <= backing_size
  /\ dpc = "remap" => entries_done < entry_count
  /\ dpc = "loop" => entries_done <= entry_count /\ entry_count <= backing_size
  /\ dpc \in {"insert", "max", "min"} =>
       entries_done < entry_count /\ entry_count <= backing_size

\* An instruction start the thread is about to insert is a valid one.
Latched ==
  (dpc = "insert" /\ type = "I") => IsStart(entries_done)

\* The vector's last element is the last instruction start inserted.
LastIndexed ==
  index_size > 0 =>
    LET e == clnum_to_entry_number[index_size - 1]
    IN  /\ e # 0
        /\ e <= entries_done
        /\ dpc \notin {"max", "min"} => e < entries_done

\* The inductive invariant.
IngestInv ==
  TracerInv /\ ThreadTypes /\ Window /\ Latched /\ IndexPointsToStart /\ LastIndexed

\* The invariant holds before the file is connected.
LEMMA IngestInitInv == IngestInit => IngestInv
<1> SUFFICES ASSUME IngestInit PROVE IngestInv
  OBVIOUS
<1>1. TracerInv
  BY TracerInitInv DEF IngestInit
<1>2. ThreadTypes
  BY DEF IngestInit, DBInit, ThreadTypes
<1>3. Window /\ Latched /\ IndexPointsToStart /\ LastIndexed
  BY DEF IngestInit, DBInit, TracerInit, Window, Latched, IndexPointsToStart, LastIndexed
<1> QED
  BY <1>1, <1>2, <1>3 DEF IngestInv

\* A step of the tracer alone.
LEMMA TracerKeepsIngest ==
  ASSUME IngestInv, TracerNext, UNCHANGED <<dbVars, threadVars, callVars>>
  PROVE  IngestInv'
<1> USE DEF IngestInv
<1>1. TracerInv' /\ FileGrows /\ TracerTypeOK /\ TracerTypeOK'
  BY TracerInvStep, TracerKeepsFile, TracerTypeStep DEF TracerInv
<1>2. UNCHANGED <<entries_done, entry_count, backing_size, index_size, clnum_to_entry_number,
                  dpc, type>>
  BY DEF dbVars, indexVars, threadVars
<1>3. ThreadTypes' /\ LastIndexed'
  BY <1>2 DEF ThreadTypes, LastIndexed
<1>4. Window'
  BY <1>1, <1>2 DEF Window, FileGrows, ThreadTypes, TracerTypeOK
<1>5. \A e \in 0 .. file_size - 1 : IsStart(e) =>
        IsStart(e)' /\ buffer'[e].clnum = buffer[e].clnum /\ e < file_size'
  BY <1>1 DEF FileGrows, IsStart, Complete, TracerTypeOK
<1>6. Latched'
  BY <1>2, <1>5 DEF Latched, Window, ThreadTypes, TracerInv, TracerTypeOK
<1>7. IndexPointsToStart'
  BY <1>2, <1>5 DEF IndexPointsToStart, ThreadTypes, TracerInv, TracerTypeOK
<1> QED
  BY <1>1, <1>3, <1>4, <1>6, <1>7

\* push_back lands on the clnum: the index ends before the clnum of the start
\* that is inserted, because the start inserted last has a smaller one.
LEMMA IndexEndsBefore ==
  ASSUME IngestInv, dpc = "insert", type = "I"
  PROVE  /\ entries_done \in 1 .. file_size - 1
         /\ buffer[entries_done].clnum \in Nat
         /\ index_size <= buffer[entries_done].clnum
<1> USE DEF IngestInv
<1>1. entries_done \in 1 .. file_size - 1 /\ entries_done \in 0 .. file_size - 1
  BY DEF Window, ThreadTypes, TracerInv, TracerTypeOK
<1>2. buffer[entries_done].clnum \in Nat
  BY <1>1, EntryTypes DEF TracerInv
<1>3. IsStart(entries_done)
  BY DEF Latched
<1>4. CASE index_size = 0
  BY <1>1, <1>2, <1>4
<1>5. CASE index_size > 0
  <2> DEFINE l == clnum_to_entry_number[index_size - 1]
  <2>1. index_size - 1 \in 0 .. index_size - 1 /\ l \in Nat /\ l # 0 /\ l < entries_done
    BY <1>5 DEF LastIndexed, ThreadTypes
  <2>2. l < file_size /\ IsStart(l) /\ buffer[l].clnum = index_size - 1
    BY <2>1 DEF IndexPointsToStart
  <2>3. l \in 1 .. file_size - 1
    BY <2>1, <2>2 DEF TracerInv, TracerTypeOK
  <2>4. Complete(l) /\ Complete(entries_done)
    BY <1>3, <2>2 DEF IsStart, Complete
  <2>5. buffer[l].clnum < buffer[entries_done].clnum
    BY <1>1, <1>3, <2>1, <2>3, <2>4 DEF TracerInv, LogOrdered
  <2> QED
    BY <1>1, <1>2, <2>2, <2>5 DEF ThreadTypes
<1> QED
  BY <1>4, <1>5 DEF ThreadTypes

\* Inserting an instruction start.
LEMMA InsertKeepsIndex ==
  ASSUME IngestInv, Insert, UNCHANGED tracerVars, type = "I"
  PROVE  /\ index_size' \in Nat
         /\ clnum_to_entry_number' \in [0 .. index_size' - 1 -> Nat]
         /\ IndexPointsToStart'
         /\ LastIndexed'
<1> USE DEF IngestInv
<1> DEFINE e == entries_done
           n == buffer[entries_done].clnum
<1>1. dpc = "insert" /\ dpc' = "max" /\ UNCHANGED <<entries_done, file_size, buffer>>
  BY DEF Insert, tracerVars, fileVars
<1>2. /\ e \in 1 .. file_size - 1
      /\ n \in Nat
      /\ index_size \in Nat
      /\ index_size <= n
  BY <1>1, IndexEndsBefore DEF ThreadTypes
<1>3. ResizedTo(n) = n
  BY <1>2 DEF ResizedTo
<1>4. index_size' = n + 1
  BY <1>1, <1>3 DEF Insert, InsertEntry
<1>5. clnum_to_entry_number' =
        [i \in 0 .. n |-> IF i < index_size THEN clnum_to_entry_number[i]
                          ELSE IF i < n THEN 0 ELSE e]
  BY <1>1, <1>3 DEF Insert, InsertEntry, PushEntry
<1>6. 0 .. index_size' - 1 = 0 .. n
  BY <1>2, <1>4
<1>7. clnum_to_entry_number' \in [0 .. index_size' - 1 -> Nat]
  <2>1. \A i \in 0 .. n : (IF i < index_size THEN clnum_to_entry_number[i]
                          ELSE IF i < n THEN 0 ELSE e) \in Nat
    BY <1>2 DEF ThreadTypes
  <2> QED
    BY <1>5, <1>6, <2>1
<1>8. IsStart(e)
  BY <1>1 DEF Latched
<1>9. IndexPointsToStart'
  <2> SUFFICES ASSUME NEW i \in 0 .. n, clnum_to_entry_number'[i] # 0
               PROVE  LET f == clnum_to_entry_number'[i]
                      IN  f < file_size /\ IsStart(f) /\ buffer[f].clnum = i
    BY <1>1, <1>6 DEF IndexPointsToStart, IsStart
  <2>1. CASE i < index_size
    <3>1. i \in 0 .. index_size - 1 /\ clnum_to_entry_number'[i] = clnum_to_entry_number[i]
      BY <1>2, <1>5, <2>1
    <3> QED
      BY <3>1 DEF IndexPointsToStart
  <2>2. CASE ~(i < index_size)
    <3>1. i = n /\ clnum_to_entry_number'[i] = e
      BY <1>2, <1>5, <2>2
    <3> QED
      BY <1>2, <1>8, <3>1 DEF TracerInv, TracerTypeOK
  <2> QED
    BY <2>1, <2>2
<1>10. LastIndexed'
  <2>1. index_size' - 1 = n /\ clnum_to_entry_number'[n] = e
    BY <1>2, <1>4, <1>5
  <2> QED
    BY <1>1, <1>2, <2>1 DEF LastIndexed
<1> QED
  BY <1>2, <1>4, <1>7, <1>9, <1>10

\* The entry the thread is on lies in the file.
LEMMA CurrentEntry ==
  ASSUME IngestInv, dpc \in {"insert", "max", "min"} \/ (dpc = "loop" /\ entries_done # entry_count)
  PROVE  entries_done \in 0 .. file_size - 1
  BY DEF IngestInv, Window, ThreadTypes, TracerInv, TracerTypeOK

\* A step of the ingest thread.
LEMMA ThreadKeepsIngest ==
  ASSUME IngestInv, Thread, UNCHANGED tracerVars
  PROVE  IngestInv'
<1> USE IngestAssumption DEF IngestAssumption, IngestInv
<1>0. /\ TracerInv'
      /\ UNCHANGED <<file_size, buffer, change_count>>
      /\ file_size \in Nat /\ change_count \in Nat
  BY TracerInvStep DEF tracerVars, fileVars, TracerInv, TracerTypeOK
<1>1. CASE UNCHANGED indexVars /\ (dpc \in {"max", "min"} <=> dpc' \in {"max", "min"})
           /\ UNCHANGED entries_done
  <2>1. IndexPointsToStart' /\ LastIndexed'
    BY <1>0, <1>1 DEF IndexPointsToStart, LastIndexed, indexVars, IsStart
  <2>2. index_size' \in Nat /\ clnum_to_entry_number' \in [0 .. index_size' - 1 -> Nat]
    BY <1>1 DEF indexVars, ThreadTypes
  <2>3. CASE ConnectToFileAndStart
    BY <1>0, <2>1, <2>2, <2>3 DEF ConnectToFileAndStart, RemapBacking, ThreadTypes, Window, Latched,
                                  dbVars, TracerInv, TracerTypeOK
  <2>4. CASE LatchCount
    BY <1>0, <2>1, <2>2, <2>4 DEF LatchCount, ThreadTypes, Window, Latched, dbVars
  <2>5. CASE RemapAndClamp
    <3>1. entry_count' \in Nat /\ entries_done <= entry_count' /\ entry_count' <= entry_count
      BY <2>5 DEF RemapAndClamp, Clamped, ThreadTypes, Window
    <3>2. backing_size' = entry_count /\ backing_size' <= file_size
      BY <1>0, <2>5 DEF RemapAndClamp, RemapBacking, ThreadTypes, Window
    <3>3. dpc' = "loop" /\ UNCHANGED <<entries_done, type>>
      BY <2>5 DEF RemapAndClamp, dbVars
    <3>4. ThreadTypes' /\ Latched'
      BY <2>2, <3>1, <3>2, <3>3 DEF ThreadTypes, Latched
    <3>5. Window'
      BY <1>0, <3>1, <3>2, <3>3 DEF ThreadTypes, Window
    <3> QED
      BY <1>0, <2>1, <3>4, <3>5
  <2>6. CASE ReadType
    <3>1. type' = TypeOf(buffer[entries_done].flags) /\ type' \in Types
      BY <2>6 DEF ReadType, TypeOf
    <3>2. type' = "I" => IsStart(entries_done)
      BY <3>1 DEF TypeOf, IsStart
    <3>3. Latched'
      BY <1>0, <1>1, <3>2 DEF Latched, IsStart
    <3>4. ThreadTypes'
      BY <2>2, <2>6, <3>1 DEF ReadType, ThreadTypes, dbVars
    <3>5. Window'
      BY <1>0, <2>6 DEF ReadType, ThreadTypes, Window, dbVars
    <3> QED
      BY <1>0, <2>1, <3>3, <3>4, <3>5
  <2>7. CASE PublishMax
    BY <1>0, <2>1, <2>2, <2>7 DEF PublishMax, ThreadTypes, Window, Latched
  <2>8. CASE SetDidUpdate
    BY <1>0, <2>1, <2>2, <2>8 DEF SetDidUpdate, ThreadTypes, Window, Latched, dbVars
  <2>9. CASE ThreadExit
    BY <1>0, <2>1, <2>2, <2>9 DEF ThreadExit, ThreadTypes, Window, Latched, dbVars
  <2>10. CASE Join
    <3>1. dpc' = "dead" /\ backing_size' = 0 /\ UNCHANGED <<entries_done, entry_count, type>>
      BY <2>10 DEF Join, dbVars
    <3>2. ThreadTypes' /\ Latched'
      BY <2>2, <3>1 DEF ThreadTypes, Latched
    <3>3. Window'
      BY <1>0, <3>1 DEF ThreadTypes, Window
    <3> QED
      BY <1>0, <2>1, <3>2, <3>3
  <2> QED
    BY <1>1, <2>3, <2>4, <2>5, <2>6, <2>7, <2>8, <2>9, <2>10
    DEF Thread, Insert, PublishMinAndDone
<1>2. CASE Insert
  <2>1. dpc = "insert" /\ dpc' = "max"
        /\ UNCHANGED <<entries_done, entry_count, type, backing_size>>
    BY <1>2 DEF Insert
  <2>2. /\ index_size' \in Nat
        /\ clnum_to_entry_number' \in [0 .. index_size' - 1 -> Nat]
        /\ IndexPointsToStart'
        /\ LastIndexed'
    <3>1. CASE type = "I"
      BY <1>2, <3>1, InsertKeepsIndex
    <3>2. CASE type # "I"
      <4>1. UNCHANGED <<index_size, clnum_to_entry_number>>
        BY <1>2, <3>2 DEF Insert, InsertEntry
      <4> QED
        BY <1>0, <2>1, <4>1 DEF ThreadTypes, IndexPointsToStart, LastIndexed, IsStart
    <3> QED
      BY <3>1, <3>2
  <2> QED
    BY <1>0, <2>1, <2>2 DEF ThreadTypes, Window, Latched
<1>3. CASE PublishMinAndDone
  <2>1. dpc = "min" /\ dpc' = "loop" /\ entries_done' = entries_done + 1 /\ type' = "?"
        /\ UNCHANGED <<entry_count, backing_size, index_size, clnum_to_entry_number>>
    BY <1>3 DEF PublishMinAndDone, indexVars
  <2>2. IndexPointsToStart'
    BY <1>0, <2>1 DEF IndexPointsToStart, IsStart
  <2>3. LastIndexed'
    BY <2>1 DEF LastIndexed, ThreadTypes
  <2> QED
    BY <1>0, <2>1, <2>2, <2>3 DEF ThreadTypes, Window, Latched
<1> QED
  <2>1. Insert \/ PublishMinAndDone \/ (UNCHANGED indexVars /\ UNCHANGED entries_done
          /\ (dpc \in {"max", "min"} <=> dpc' \in {"max", "min"}))
    BY DEF Thread, ConnectToFileAndStart, LatchCount, RemapAndClamp, ReadType, PublishMax,
           SetDidUpdate, ThreadExit, Join, dbVars
  <2> QED
    BY <1>1, <1>2, <1>3, <2>1

\* A step of the Python side: only did_update_ and is_running_ are its to set.
LEMMA CallKeepsIngest ==
  ASSUME IngestInv, Call \/ Poll \/ Fetch \/ Stop, UNCHANGED tracerVars
  PROVE  IngestInv'
<1>1. UNCHANGED <<dbVars, dpc, entry_count, type, backing_size>>
  BY DEF Call, Poll, Fetch, Stop, FetchLock, FetchScan, FetchReturn, ClearDidUpdate, GetDidUpdate,
         PushUpdates, FetchChangesByClnum, threadVars
<1>2. TracerInv' /\ UNCHANGED <<file_size, buffer>>
  BY TracerInvStep DEF IngestInv, tracerVars, fileVars
<1> QED
  BY <1>1, <1>2 DEF IngestInv, ThreadTypes, Window, Latched, IndexPointsToStart, LastIndexed, IsStart,
                    dbVars, indexVars

\* Every step of the composition keeps the invariant.
LEMMA IngestInvStep == IngestInv /\ [IngestNext]_vars => IngestInv'
<1> SUFFICES ASSUME IngestInv, [IngestNext]_vars PROVE IngestInv'
  OBVIOUS
<1>1. CASE UNCHANGED vars
  <2>1. TracerInv'
    BY <1>1, TracerInvStep DEF IngestInv, vars
  <2> QED
    BY <1>1, <2>1 DEF IngestInv, ThreadTypes, Window, Latched, IndexPointsToStart, LastIndexed,
                      IsStart, vars, tracerVars, fileVars, dbVars, indexVars, threadVars
<1> QED
  BY <1>1, TracerKeepsIngest, ThreadKeepsIngest, CallKeepsIngest DEF IngestNext

-----------------------------------------------------------------------------
\* The inductive invariant holds in every reachable state.
THEOREM IngestInvariant == IngestSpec => []IngestInv
  BY IngestInitInv, IngestInvStep, PTL DEF IngestSpec

\* The index points to the instruction start of each clnum or to nothing,
\* whatever the ingest thread saw of a half-written entry.
THEOREM IngestIndexCorrect == IngestSpec => []IndexPointsToStart
<1>1. IngestInv => IndexPointsToStart
  BY DEF IngestInv
<1> QED
  BY <1>1, IngestInvariant, PTL

-----------------------------------------------------------------------------
\* The types that the invariant above leaves out.
MapTypes ==
  /\ \A k \in DOMAIN addresstype_to_clnums : addresstype_to_clnums[k] \subseteq Nat
  /\ DOMAIN registers = 0 .. RegisterCount - 1
  /\ \A r \in DOMAIN registers : DOMAIN registers[r] \subseteq Nat
  /\ \A a \in DOMAIN memory : DOMAIN memory[a] \subseteq Nat

RestTypes ==
  /\ max_clnum \in Nat
  /\ min_clnum \in Nat
  /\ did_update \in BOOLEAN
  /\ is_running \in BOOLEAN
  /\ cpc \in CallPoints
  /\ req \in Nat /\ limit \in Nat /\ en \in Nat /\ got \in Nat /\ en_done \in Nat
  /\ polling \in BOOLEAN
  /\ pushed_max \in Nat

\* A call runs in an object that is not being destroyed.
Calling ==
  /\ cpc # "none" => is_running /\ dpc # "connect"
  /\ dpc \in {"exited", "dead"} => ~is_running

TypedInv == IngestInv /\ MapTypes /\ RestTypes /\ Calling

\* The remaining types hold initially.
LEMMA TypedInitInv == IngestInit => TypedInv
<1> SUFFICES ASSUME IngestInit PROVE TypedInv
  OBVIOUS
<1>1. MapTypes
  BY DEF IngestInit, DBInit, MapTypes
<1>2. did_update \in BOOLEAN /\ is_running \in BOOLEAN /\ polling \in BOOLEAN
  BY DEF IngestInit
<1>3. RestTypes
  BY <1>2, TraceDBAssumption DEF TraceDBAssumption, IngestInit, DBInit, RestTypes, CallPoints
<1>4. Calling
  BY DEF IngestInit, Calling
<1> QED
  BY <1>1, <1>3, <1>4, IngestInitInv DEF TypedInv

\* Inserting an entry of the file keeps the maps' types.
LEMMA InsertKeepsMaps ==
  ASSUME MapTypes, NEW c, c.clnum \in Nat, NEW e, NEW t, InsertEntry(e, c, t)
  PROVE  MapTypes'
<1> USE DEF MapTypes
<1>1. \A k \in DOMAIN addresstype_to_clnums' : addresstype_to_clnums'[k] \subseteq Nat
  <2> DEFINE k0 == <<c.address, t>>
             S0 == Get(addresstype_to_clnums, k0, {}) \cup {c.clnum}
  <2>1. S0 \subseteq Nat
    BY DEF Get
  <2>2. addresstype_to_clnums' = Put(addresstype_to_clnums, k0, S0)
    BY DEF InsertEntry
  <2> HIDE DEF k0, S0
  <2> QED
    BY <2>1, <2>2 DEF Put
<1>2. /\ DOMAIN registers' = 0 .. RegisterCount - 1
      /\ \A r \in DOMAIN registers' : DOMAIN registers'[r] \subseteq Nat
  <2>1. CASE UNCHANGED registers
    BY <2>1
  <2>2. CASE registers' = [registers EXCEPT ![c.address \div RegisterSize] = Put(@, c.clnum, c.data)]
    <3> DEFINE r0 == c.address \div RegisterSize
    <3>1. DOMAIN registers' = DOMAIN registers
      BY <2>2
    <3>2. \A r \in DOMAIN registers : r # r0 => registers'[r] = registers[r]
      BY <2>2
    <3>3. r0 \in DOMAIN registers => registers'[r0] = Put(registers[r0], c.clnum, c.data)
      BY <2>2
    <3> HIDE DEF r0
    <3>4. r0 \in DOMAIN registers => DOMAIN registers'[r0] \subseteq Nat
      BY <3>3 DEF Put
    <3> QED
      BY <3>1, <3>2, <3>4
  <2> QED
    BY <2>1, <2>2 DEF InsertEntry
<1>3. \A a \in DOMAIN memory' : DOMAIN memory'[a] \subseteq Nat
  <2>1. CASE UNCHANGED memory
    BY <2>1
  <2>2. CASE memory' = CommitMemory(c)
    <3> DEFINE empty == [n \in {} |-> 0]
    <3> SUFFICES ASSUME NEW a \in DOMAIN memory \cup Span(c)
                 PROVE  DOMAIN memory'[a] \subseteq Nat
      BY <2>2 DEF CommitMemory
    <3>1. CASE a \in Span(c)
      <4>1. memory'[a] = Put(Get(memory, a, empty), c.clnum, ByteOf(c, a - c.address))
        BY <2>2, <3>1 DEF CommitMemory
      <4>2. DOMAIN Get(memory, a, empty) \subseteq Nat
        BY DEF Get
      <4> QED
        BY <4>1, <4>2 DEF Put
    <3>2. CASE a \notin Span(c)
      <4>1. memory'[a] = memory[a] /\ a \in DOMAIN memory
        BY <2>2, <3>2 DEF CommitMemory
      <4> QED
        BY <4>1
    <3> QED
      BY <3>1, <3>2
  <2> QED
    BY <2>1, <2>2 DEF InsertEntry
<1> QED
  BY <1>1, <1>2, <1>3

\* A step that leaves the maps alone keeps their types.
LEMMA MapsUnchanged ==
  ASSUME MapTypes, UNCHANGED indexVars
  PROVE  MapTypes'
<1>1. UNCHANGED <<addresstype_to_clnums, registers, memory>>
  BY DEF indexVars
<1> QED
  BY <1>1 DEF MapTypes

\* A step of the ingest thread keeps the remaining types.
LEMMA ThreadKeepsTypes ==
  ASSUME TypedInv, Thread, UNCHANGED tracerVars
  PROVE  MapTypes' /\ RestTypes'
<1> USE DEF TypedInv
<1>1. dpc \in {"insert", "max", "min"} => buffer[entries_done].clnum \in Nat
  <2>1. dpc \in {"insert", "max", "min"} => entries_done \in 0 .. file_size - 1
    BY CurrentEntry
  <2> QED
    BY <2>1, EntryTypes DEF IngestInv, TracerInv
<1>2. MapTypes'
  <2>1. CASE Insert
    <3>1. dpc = "insert" /\ InsertEntry(entries_done, buffer[entries_done], type)
      BY <2>1 DEF Insert
    <3> QED
      BY <1>1, <3>1, InsertKeepsMaps
  <2>2. CASE ~Insert
    <3>1. UNCHANGED indexVars
      BY <2>2 DEF Thread, ConnectToFileAndStart, LatchCount, RemapAndClamp, ReadType, PublishMax,
                  PublishMinAndDone, SetDidUpdate, ThreadExit, Join, dbVars
    <3> QED
      BY <3>1, MapsUnchanged
  <2> QED
    BY <2>1, <2>2
<1>3. max_clnum' \in Nat /\ min_clnum' \in Nat
  <2>1. CASE PublishMax
    BY <1>1, <2>1 DEF PublishMax, UpdateMax, RestTypes
  <2>2. CASE PublishMinAndDone
    BY <1>1, <2>2 DEF PublishMinAndDone, UpdateMin, RestTypes
  <2>3. CASE ~PublishMax /\ ~PublishMinAndDone
    BY <2>3 DEF Thread, ConnectToFileAndStart, LatchCount, RemapAndClamp, ReadType, Insert,
                SetDidUpdate, ThreadExit, Join, dbVars, RestTypes
  <2> QED
    BY <2>1, <2>2, <2>3
<1>4. UNCHANGED callVars /\ UNCHANGED is_running /\ (did_update' = TRUE \/ UNCHANGED did_update)
  BY DEF Thread, ConnectToFileAndStart, LatchCount, RemapAndClamp, ReadType, Insert, PublishMax,
         PublishMinAndDone, SetDidUpdate, ThreadExit, Join
<1>5. did_update' \in BOOLEAN /\ is_running' \in BOOLEAN /\ polling' \in BOOLEAN
  BY <1>4 DEF RestTypes, callVars
<1>6. /\ cpc' \in CallPoints
      /\ req' \in Nat /\ limit' \in Nat /\ en' \in Nat /\ got' \in Nat /\ en_done' \in Nat
      /\ pushed_max' \in Nat
  BY <1>4 DEF RestTypes, callVars
<1> QED
  BY <1>2, <1>3, <1>5, <1>6 DEF RestTypes

\* A step of the Python side keeps the remaining types.
LEMMA CallKeepsTypes ==
  ASSUME TypedInv, Call \/ Poll \/ Fetch \/ Stop, UNCHANGED tracerVars
  PROVE  MapTypes' /\ RestTypes'
<1> USE DEF TypedInv
<1>1. UNCHANGED dbVars
  BY DEF Call, Poll, Fetch, Stop, FetchLock, FetchScan, FetchReturn, ClearDidUpdate, GetDidUpdate,
         PushUpdates, FetchChangesByClnum
<1>2. MapTypes' /\ max_clnum' \in Nat /\ min_clnum' \in Nat
  BY <1>1, MapsUnchanged DEF dbVars, RestTypes
<1>3. /\ did_update' = FALSE \/ UNCHANGED did_update
      /\ is_running' = FALSE \/ UNCHANGED is_running
      /\ polling' = TRUE \/ polling' = FALSE \/ UNCHANGED polling
  BY DEF Call, Poll, Fetch, Stop, FetchLock, FetchScan, FetchReturn, ClearDidUpdate, GetDidUpdate,
         PushUpdates, FetchChangesByClnum, threadVars, callVars
<1>4. did_update' \in BOOLEAN /\ is_running' \in BOOLEAN /\ polling' \in BOOLEAN
  BY <1>3 DEF RestTypes
<1>5. cpc' \in CallPoints
  BY DEF Call, Poll, Fetch, Stop, FetchLock, FetchScan, FetchReturn, ClearDidUpdate, GetDidUpdate,
         PushUpdates, FetchChangesByClnum, callVars, RestTypes, CallPoints
<1>6. req' \in Nat /\ limit' \in Nat /\ en' \in Nat /\ got' \in Nat /\ en_done' \in Nat
  <2>1. CASE Fetch
    <3>1. PICK n \in 0 .. max_clnum + 1, k \in Limits : FetchChangesByClnum(n, k)
      BY <2>1 DEF Fetch
    <3>2. n \in Nat /\ k \in Nat
      BY <3>1, IngestAssumption DEF IngestAssumption, RestTypes
    <3>3. EntryOf(n) \in Nat /\ entries_done \in Nat
      BY <3>2 DEF EntryOf, IngestInv, ThreadTypes
    <3> QED
      BY <3>1, <3>2, <3>3 DEF FetchChangesByClnum
  <2>2. CASE ~Fetch
    BY <2>2 DEF Call, Poll, Stop, FetchLock, FetchScan, FetchReturn, ClearDidUpdate, GetDidUpdate,
                PushUpdates, callVars, RestTypes
  <2> QED
    BY <2>1, <2>2
<1>7. pushed_max' \in Nat
  BY DEF Call, Poll, Fetch, Stop, FetchLock, FetchScan, FetchReturn, ClearDidUpdate, GetDidUpdate,
         PushUpdates, FetchChangesByClnum, callVars, RestTypes
<1> QED
  BY <1>2, <1>4, <1>5, <1>6, <1>7 DEF RestTypes

\* The GIL keeps the destructor out of a call in progress.
LEMMA CallingStep ==
  ASSUME Calling, [IngestNext]_vars
  PROVE  Calling'
<1> USE DEF Calling
<1>1. CASE UNCHANGED <<dpc, cpc, is_running>>
  BY <1>1
<1>2. CASE Thread
  BY <1>2 DEF Thread, ConnectToFileAndStart, LatchCount, RemapAndClamp, ReadType, Insert, PublishMax,
              PublishMinAndDone, SetDidUpdate, ThreadExit, Join, callVars
<1>3. CASE Call \/ Poll
  BY <1>3 DEF Call, Poll, FetchLock, FetchScan, FetchReturn, ClearDidUpdate, GetDidUpdate,
              PushUpdates, Callable, threadVars
<1>4. CASE Fetch \/ Stop
  BY <1>4 DEF Fetch, Stop, FetchChangesByClnum, Callable, threadVars, callVars
<1> QED
  BY <1>1, <1>2, <1>3, <1>4 DEF IngestNext, vars, threadVars, callVars

\* Every step of the composition keeps the types.
LEMMA TypedInvStep == TypedInv /\ [IngestNext]_vars => TypedInv'
<1> SUFFICES ASSUME TypedInv, [IngestNext]_vars PROVE TypedInv'
  OBVIOUS
<1>1. IngestInv' /\ Calling'
  BY IngestInvStep, CallingStep DEF TypedInv
<1>2. CASE UNCHANGED <<dbVars, threadVars, callVars>>
  <2>1. MapTypes'
    BY <1>2, MapsUnchanged DEF TypedInv, dbVars
  <2>2. RestTypes'
    BY <1>2 DEF TypedInv, RestTypes, dbVars, threadVars, callVars
  <2> QED
    BY <1>1, <2>1, <2>2 DEF TypedInv
<1> QED
  BY <1>1, <1>2, ThreadKeepsTypes, CallKeepsTypes DEF IngestNext, TypedInv, vars

\* The types and the invariants of the composition hold in every state.
THEOREM IngestTyped == IngestSpec => []TypedInv
  BY TypedInitInv, TypedInvStep, PTL DEF IngestSpec

\* Every variable of the composition has its type, for every log the tracer
\* may write: no index, map or query argument is ever ill-formed.
THEOREM IngestTypeCorrect == IngestSpec => []IngestTypeOK
<1>1. TypedInv => IngestTypeOK
  <2> SUFFICES ASSUME TypedInv PROVE IngestTypeOK
    OBVIOUS
  <2>1. TracerTypeOK /\ ThreadTypes /\ MapTypes /\ RestTypes
    BY DEF TypedInv, IngestInv, TracerInv
  <2>2. DBTypeOK
    BY <2>1 DEF DBTypeOK, ThreadTypes, MapTypes, RestTypes
  <2> QED
    BY <2>1, <2>2 DEF IngestTypeOK, ThreadTypes, RestTypes
<1> QED
  BY <1>1, IngestTyped, PTL

\* No read of the mapping faults, for every log size, doubling and clamp: not
\* of the ingest thread, and not of a scan that races it.
THEOREM IngestReadsMapped == IngestSpec => []MappedReads
<1>1. TypedInv => MappedReads
  <2> SUFFICES ASSUME TypedInv PROVE MappedReads
    OBVIOUS
  <2>1. (cpc = "scan" /\ en + got < entries_done) => en + got < backing_size
    <3>1. cpc = "scan" => entries_done <= backing_size
      BY DEF TypedInv, Calling, IngestInv, Window
    <3> QED
      BY <3>1 DEF TypedInv, RestTypes, IngestInv, ThreadTypes
  <2> QED
    BY <2>1 DEF TypedInv, IngestInv, ThreadTypes, Window, MappedReads, TracerInv, TracerTypeOK
<1> QED
  BY <1>1, IngestTyped, PTL

-----------------------------------------------------------------------------
(* The refinement: tracer, ingest thread and poller together implement the  *)
(* abstract live trace, for every program traced and every bound.           *)

\* No entry of the file, complete or torn, is ahead of the tracer's clnum,
\* which init_QIRA sets before the first entry.
Reached ==
  /\ \A e \in 0 .. file_size - 1 : buffer[e].clnum <= changelist_number
  /\ tpc \in {"create", "header"} => changelist_number = 0

\* What the database has published, the tracer had reached.
LiveInv == TypedInv /\ Reached /\ max_clnum <= changelist_number

\* The invariant holds of the empty file.
LEMMA LiveInitInv == IngestInit => LiveInv
<1> SUFFICES ASSUME IngestInit PROVE LiveInv
  OBVIOUS
<1>1. Reached /\ max_clnum <= changelist_number
  BY DEF IngestInit, TracerInit, DBInit, Reached
<1> QED
  BY <1>1, TypedInitInv DEF LiveInv

\* A step of the tracer either starts an instruction, writes the header, or
\* leaves the clnum alone.
LEMMA ClnumSteps ==
  ASSUME TracerInv, TracerNext
  PROVE  \/ changelist_number' = changelist_number
         \/ changelist_number' = changelist_number + 1
         \/ WriteHeader
<1>1. CASE Guest
  BY <1>1 DEF Guest, TbExec, StartInstruction, SyscallReturn, TrackLoad, TrackStore, TrackRead,
              TrackWrite, OpCall, TrackKernelWrite
<1>2. CASE Finish
  BY <1>2 DEF Finish, CreateLog, DoubleBuffer, WriteAddressAndData, WriteClnum, WriteFlags, TbStart,
              StartInstruction, CommitDone, SyscallRegister, SyscallBegin, CommitOne, SegmentData
<1>3. CASE Killed
  BY <1>3 DEF Killed
<1> QED
  BY <1>1, <1>2, <1>3 DEF TracerNext

\* The tracer's clnum only grows.
LEMMA ClnumGrows ==
  ASSUME TracerInv, Reached, TracerNext
  PROVE  changelist_number \in Nat /\ changelist_number' \in Nat
           /\ changelist_number' >= changelist_number
<1>1. TracerTypeOK /\ TracerTypeOK'
  BY TracerTypeStep DEF TracerInv
<1>2. changelist_number \in Nat /\ changelist_number' \in Nat
  BY <1>1 DEF TracerTypeOK
<1>3. CASE WriteHeader
  BY <1>2, <1>3 DEF WriteHeader, Reached
<1> QED
  BY <1>2, <1>3, ClnumSteps

\* The entries a step of the tracer writes are not ahead of its clnum.
LEMMA EntriesReached ==
  ASSUME TracerInv, Reached, TracerNext, NEW e \in 0 .. file_size' - 1
  PROVE  buffer'[e].clnum <= changelist_number'
<1>0. TracerTypeOK /\ TracerTypeOK' /\ Cursor
  BY TracerTypeStep DEF TracerInv
<1>1. changelist_number \in Nat /\ changelist_number' \in Nat /\ changelist_number' >= changelist_number
  BY ClnumGrows
<1>2. file_size \in Nat /\ file_size' \in Nat /\ buffer'[e].clnum \in Nat
  BY <1>0 DEF TracerTypeOK, Change
<1>3. \A k \in 0 .. file_size - 1 : buffer[k].clnum \in Nat /\ buffer[k].clnum <= changelist_number
  BY <1>0 DEF TracerTypeOK, Change, Reached
<1>4. \/ e \in 0 .. file_size - 1 /\ buffer'[e].clnum = buffer[e].clnum
      \/ buffer'[e].clnum = 0
      \/ buffer'[e].clnum = changelist_number
  <2>1. CASE UNCHANGED <<file_size, buffer>>
    BY <2>1
  <2>2. CASE CreateLog \/ DoubleBuffer
    <3>1. PICK n \in Nat : ResizeChangeBuffer(n)
      <4>1. change_size \in Nat /\ change_size * 2 \in Nat
        BY <1>0 DEF TracerTypeOK
      <4> QED
        BY <2>2, <4>1 DEF CreateLog, DoubleBuffer
    <3>2. buffer'[e] = IF e < file_size THEN buffer[e] ELSE ZeroChange
      BY <3>1 DEF ResizeChangeBuffer, Truncated
    <3> QED
      BY <1>2, <3>2 DEF ZeroChange
  <2>3. CASE WriteAddressAndData
    BY <1>0, <2>3 DEF WriteAddressAndData, TracerTypeOK, Change
  <2>4. CASE WriteClnum
    BY <1>0, <2>4 DEF WriteClnum, TracerTypeOK, Change
  <2>5. CASE WriteFlags
    BY <1>0, <2>5 DEF WriteFlags, TracerTypeOK, Change
  <2>6. ASSUME NEW d \in Data, SegmentData(d)
        PROVE  e \in 0 .. file_size - 1 /\ buffer'[e].clnum = buffer[e].clnum
    BY <1>0, <2>6 DEF SegmentData, TracerTypeOK, Change
  <2>7. CASE Guest
    BY <2>1, <2>7 DEF Guest, TbExec, SyscallReturn, TrackLoad, TrackStore, TrackRead, TrackWrite,
                      OpCall, TrackKernelWrite, fileVars
  <2>8. CASE Finish
    BY <2>1, <2>2, <2>3, <2>4, <2>5, <2>6, <2>8
       DEF Finish, WriteHeader, TbStart, CommitDone, SyscallRegister, SyscallBegin, CommitOne
  <2>9. CASE Killed
    BY <2>1, <2>9 DEF Killed, fileVars
  <2> QED
    BY <2>7, <2>8, <2>9 DEF TracerNext
<1> QED
  BY <1>1, <1>2, <1>3, <1>4

\* A step of the tracer keeps the invariant.
LEMMA TracerKeepsReached ==
  ASSUME TracerInv, Reached, TracerNext
  PROVE  Reached'
<1>1. tpc' \in {"create", "header"} => changelist_number' = 0
  <2>0. ret \notin {"create", "header"}
    BY DEF TracerInv, TracerTypeOK
  <2>1. CASE Guest
    BY <2>1 DEF Guest, TbExec, StartInstruction, AddChange, SyscallReturn, TrackLoad, TrackStore,
                TrackRead, TrackWrite, OpCall, TrackKernelWrite, AddPendingChange, fileVars
  <2>2. CASE Finish
    BY <2>0, <2>2 DEF Finish, CreateLog, WriteHeader, DoubleBuffer, WriteAddressAndData, WriteClnum,
                WriteFlags, TbStart, StartInstruction, AddChange, CommitDone, SyscallRegister,
                SyscallBegin, CommitOne, SegmentData, Reached, TracerInv, TracerTypeOK
  <2>3. CASE Killed
    BY <2>3 DEF Killed
  <2> QED
    BY <2>1, <2>2, <2>3 DEF TracerNext
<1> QED
  BY <1>1, EntriesReached DEF Reached

\* The maximum the ingest thread publishes is the clnum of an entry.
LEMMA ThreadPublishes ==
  ASSUME LiveInv, Thread, UNCHANGED tracerVars
  PROVE  /\ max_clnum' = max_clnum \/ (max_clnum' > max_clnum /\ max_clnum' <= changelist_number)
         /\ UNCHANGED <<is_running, pushed_max>>
<1>1. CASE PublishMax
  <2>1. entries_done \in 0 .. file_size - 1
    BY <1>1, CurrentEntry DEF PublishMax, LiveInv, TypedInv
  <2>2. buffer[entries_done].clnum \in Nat /\ max_clnum \in Nat
    BY <2>1 DEF LiveInv, TypedInv, RestTypes, IngestInv, TracerInv, TracerTypeOK, Change
  <2> QED
    BY <1>1, <2>1, <2>2 DEF PublishMax, UpdateMax, LiveInv, Reached, callVars
<1>2. CASE UNCHANGED <<max_clnum, is_running, pushed_max>>
  BY <1>2
<1> QED
  BY <1>1, <1>2 DEF Thread, ConnectToFileAndStart, LatchCount, RemapAndClamp, ReadType, Insert,
       PublishMinAndDone, SetDidUpdate, ThreadExit, Join, dbVars, callVars

\* Every step of the composition is a step of the live trace, or none.
LEMMA LiveStep ==
  ASSUME LiveInv, [IngestNext]_vars
  PROVE  [Live!Next]_(Live!liveVars)
<1> USE DEF Live!Next, Live!Advance, Live!Publish, Live!Show, Live!Close, Live!liveVars
<1>1. CASE UNCHANGED vars
  BY <1>1 DEF vars, tracerVars, localVars, dbVars, threadVars, callVars
<1>2. CASE TracerNext /\ UNCHANGED <<dbVars, threadVars, callVars>>
  <2>1. changelist_number' = changelist_number \/ changelist_number' > changelist_number
    BY <1>2, ClnumGrows DEF LiveInv, TypedInv, IngestInv
  <2> QED
    BY <1>2, <2>1 DEF dbVars, threadVars, callVars
<1>3. CASE Thread /\ UNCHANGED tracerVars
  BY <1>3, ThreadPublishes DEF tracerVars, localVars
<1>4. CASE (Call \/ Poll \/ Fetch \/ Stop) /\ UNCHANGED tracerVars
  <2>1. UNCHANGED <<changelist_number, max_clnum>>
    BY <1>4 DEF Call, Poll, Fetch, Stop, FetchLock, FetchScan, FetchReturn, ClearDidUpdate,
       GetDidUpdate, PushUpdates, FetchChangesByClnum, dbVars, tracerVars, localVars
  <2>2. CASE PushUpdates
    BY <2>1, <2>2 DEF PushUpdates, Callable, threadVars
  <2>3. CASE Stop
    BY <2>1, <2>3 DEF Stop, Callable, callVars
  <2>4. CASE Call \/ GetDidUpdate \/ Fetch
    BY <2>1, <2>4 DEF Call, Fetch, FetchLock, FetchScan, FetchReturn, ClearDidUpdate,
       GetDidUpdate, FetchChangesByClnum, threadVars
  <2> QED
    BY <1>4, <2>2, <2>3, <2>4 DEF Poll
<1> QED
  BY <1>1, <1>2, <1>3, <1>4 DEF IngestNext

\* The invariant is inductive.
LEMMA LiveInvStep == LiveInv /\ [IngestNext]_vars => LiveInv'
<1> SUFFICES ASSUME LiveInv, [IngestNext]_vars PROVE LiveInv'
  OBVIOUS
<1>1. TypedInv'
  BY TypedInvStep DEF LiveInv
<1>2. Reached' /\ changelist_number \in Nat /\ changelist_number' \in Nat
        /\ changelist_number' >= changelist_number
  <2>0. changelist_number \in Nat
    BY DEF LiveInv, TypedInv, IngestInv, TracerInv, TracerTypeOK
  <2>1. CASE TracerNext
    BY <2>1, TracerKeepsReached, ClnumGrows DEF LiveInv, TypedInv, IngestInv
  <2>2. CASE UNCHANGED tracerVars
    BY <2>0, <2>2 DEF LiveInv, Reached, tracerVars, fileVars, localVars
  <2> QED
    BY <2>1, <2>2, IngestStepsTracer
<1>3. max_clnum \in Nat /\ max_clnum' \in Nat
  BY <1>1 DEF LiveInv, TypedInv, RestTypes
<1>4. max_clnum' <= changelist_number'
  <2>1. max_clnum' = max_clnum \/ max_clnum' <= changelist_number
    BY LiveStep DEF Live!Next, Live!Advance, Live!Publish, Live!Show, Live!Close, Live!liveVars
  <2> QED
    BY <1>2, <1>3, <2>1 DEF LiveInv
<1> QED
  BY <1>1, <1>2, <1>4 DEF LiveInv

\* The detailed pipeline implements the abstract one: what clients are told
\* is always a clnum the database published and the tracer had reached.
THEOREM IngestImplementsLive == IngestSpec => ImplementsLive
<1>1. IngestInit => Live!Init
  BY DEF IngestInit, TracerInit, DBInit, Live!Init
<1>2. LiveInv /\ [IngestNext]_vars => [Live!Next]_(Live!liveVars)
  BY LiveStep
<1> QED
  BY <1>1, <1>2, LiveInitInv, LiveInvStep, PTL DEF IngestSpec, ImplementsLive, Live!Spec

-----------------------------------------------------------------------------
(* What the tracer leaves in the log.                                      *)

\* A clnum is stored once: until then the entry reads as 0.
ClnumUnset ==
  \A e \in 0 .. file_size - 1 :
    (e >= change_count \/ (tpc \in InAdd \ {"flags"} /\ e = cc)) => buffer[e].clnum = 0

\* Only a segment load's data is stored after its flags.
SegmentEntry ==
  /\ (tpc \in InAdd /\ ret = "segdata") => TypeOf(cur.flags) = "s"
  /\ tpc = "segdata" => TypeOf(buffer[cc].flags) = "s"

\* The log holds the start of instruction n.
Started(n) == \E e \in 1 .. file_size - 1 : IsStart(e) /\ buffer[e].clnum = n

\* The start of the current instruction is being written, or never will be.
Starting == tpc = "killed" \/ (tpc \in InAdd /\ "START" \in cur.flags)

\* Every clnum the tracer has been through has its instruction start.
Dense ==
  /\ \A n \in StartClnum .. changelist_number : Started(n) \/ (n = changelist_number /\ Starting)
  /\ tpc \notin {"create", "header", "killed"} => changelist_number >= StartClnum - 1
  /\ \A e \in 0 .. file_size - 1 : IsStart(e) => buffer[e].clnum >= 1
  /\ (tpc \in InAdd /\ "START" \in cur.flags) => changelist_number >= 1
  /\ tpc \in InAdd => cc >= 1

LogInv == TracerInv /\ Filled /\ ClnumUnset /\ SegmentEntry /\ Dense

\* What the tracer never takes back: a clnum once it is stored, and a valid
\* entry, the data of a segment load apart.
Final(e) ==
  /\ buffer[e].clnum # 0 => buffer'[e].clnum = buffer[e].clnum
  /\ Complete(e) =>
       /\ buffer'[e].flags = buffer[e].flags
       /\ buffer'[e].clnum = buffer[e].clnum
       /\ buffer'[e].address = buffer[e].address
       /\ buffer'[e].size = buffer[e].size
       /\ TypeOf(buffer[e].flags) # "s" => buffer'[e].data = buffer[e].data

EntriesFinal ==
  /\ file_size' >= file_size
  /\ \A e \in 0 .. file_size - 1 : Final(e)

\* ftruncate keeps the entries and appends ones that read as zero.
LEMMA FileDoubles ==
  ASSUME TracerInv, CreateLog \/ DoubleBuffer
  PROVE  /\ file_size \in Nat /\ file_size' \in Nat /\ file_size' >= file_size
         /\ \A e \in 0 .. file_size - 1 : buffer'[e] = buffer[e]
         /\ \A e \in 0 .. file_size' - 1 : e >= file_size => buffer'[e] = ZeroChange
         /\ UNCHANGED <<cc, cur, ret, change_count, changelist_number>>
         /\ tpc \in {"create", "resize"}
         /\ tpc' = IF tpc = "create" THEN "header" ELSE "address"
<1>0. TracerTypeOK /\ Cursor
  BY DEF TracerInv
<1>1. PICK n \in Nat : n >= file_size /\ ResizeChangeBuffer(n)
  <2>1. CASE CreateLog
    BY <1>0, <2>1 DEF CreateLog, Cursor, TracerTypeOK
  <2>2. CASE DoubleBuffer
    <3>1. change_size * 2 \in Nat /\ change_size * 2 >= file_size
      BY <1>0, <2>2 DEF DoubleBuffer, Cursor, TracerTypeOK
    <3> QED
      BY <2>2, <3>1 DEF DoubleBuffer
  <2> QED
    BY <2>1, <2>2
<1>2. file_size \in Nat /\ file_size' = n
  BY <1>0, <1>1 DEF ResizeChangeBuffer, TracerTypeOK
<1>3. \A e \in 0 .. n - 1 : buffer'[e] = IF e < file_size THEN buffer[e] ELSE ZeroChange
  BY <1>1 DEF ResizeChangeBuffer, Truncated
<1>4. /\ \A e \in 0 .. file_size - 1 : buffer'[e] = buffer[e]
      /\ \A e \in 0 .. file_size' - 1 : e >= file_size => buffer'[e] = ZeroChange
  BY <1>1, <1>2, <1>3
<1>5. /\ UNCHANGED <<cc, cur, ret, change_count, changelist_number>>
      /\ tpc \in {"create", "resize"}
      /\ tpc' = IF tpc = "create" THEN "header" ELSE "address"
  BY DEF CreateLog, DoubleBuffer
<1> QED
  BY <1>1, <1>2, <1>4, <1>5

\* A store goes to the claimed entry and to the field of its program point.
LEMMA EntryStored ==
  ASSUME TracerInv,
         WriteAddressAndData \/ WriteClnum \/ WriteFlags \/ \E d \in Data : SegmentData(d)
  PROVE  /\ file_size \in Nat /\ cc \in 0 .. file_size - 1 /\ cc + 1 = change_count
         /\ UNCHANGED <<file_size, cc, cur, ret, change_count, changelist_number>>
         /\ \A e \in 0 .. file_size - 1 : e # cc => buffer'[e] = buffer[e]
         /\ buffer'[cc].clnum = IF tpc = "clnum" THEN changelist_number ELSE buffer[cc].clnum
         /\ buffer'[cc].flags = IF tpc = "flags" THEN cur.flags ELSE buffer[cc].flags
         /\ tpc # "flags" => buffer'[cc].size = buffer[cc].size
         /\ tpc # "address" => buffer'[cc].address = buffer[cc].address
         /\ tpc \notin {"address", "segdata"} => buffer'[cc].data = buffer[cc].data
         /\ tpc \in {"address", "clnum", "flags", "segdata"}
         /\ tpc \in InAdd => buffer[cc].flags = {} /\ ret \in Alive \ InAdd
         /\ tpc' = CASE tpc = "address" -> "clnum" [] tpc = "clnum" -> "flags"
                     [] tpc = "flags" -> ret [] tpc = "segdata" -> "body"
<1>0. TracerTypeOK /\ Cursor /\ Unwritten /\ Behind
  BY DEF TracerInv
<1>1. /\ tpc \in {"address", "clnum", "flags", "segdata"}
      /\ UNCHANGED <<file_size, cc, cur, ret, change_count, changelist_number>>
      /\ tpc' = CASE tpc = "address" -> "clnum" [] tpc = "clnum" -> "flags"
                  [] tpc = "flags" -> ret [] tpc = "segdata" -> "body"
  BY DEF WriteAddressAndData, WriteClnum, WriteFlags, SegmentData
<1>2. file_size \in Nat /\ cc \in 0 .. file_size - 1 /\ cc + 1 = change_count
  BY <1>0, <1>1 DEF Cursor, TracerTypeOK
<1>3. buffer[cc] \in Change /\ buffer \in [0 .. file_size - 1 -> Change]
  BY <1>0, <1>2 DEF TracerTypeOK
<1>4. /\ \A e \in 0 .. file_size - 1 : e # cc => buffer'[e] = buffer[e]
      /\ buffer'[cc].clnum = IF tpc = "clnum" THEN changelist_number ELSE buffer[cc].clnum
      /\ buffer'[cc].flags = IF tpc = "flags" THEN cur.flags ELSE buffer[cc].flags
      /\ tpc # "flags" => buffer'[cc].size = buffer[cc].size
      /\ tpc # "address" => buffer'[cc].address = buffer[cc].address
      /\ tpc \notin {"address", "segdata"} => buffer'[cc].data = buffer[cc].data
  <2>1. CASE WriteAddressAndData
    BY <1>2, <1>3, <2>1 DEF WriteAddressAndData, Change
  <2>2. CASE WriteClnum
    BY <1>2, <1>3, <2>2 DEF WriteClnum, Change
  <2>3. CASE WriteFlags
    BY <1>2, <1>3, <2>3 DEF WriteFlags, Change
  <2>4. CASE \E d \in Data : SegmentData(d)
    BY <1>2, <1>3, <2>4 DEF SegmentData, Change
  <2> QED
    BY <2>1, <2>2, <2>3, <2>4
<1>5. tpc \in InAdd => buffer[cc].flags = {} /\ ret \in Alive \ InAdd
  BY <1>0, <1>2 DEF Unwritten, Behind
<1> QED
  BY <1>1, <1>2, <1>4, <1>5

\* The tracer takes nothing back.
LEMMA TracerFinal == LogInv /\ [TracerNext]_tracerVars => EntriesFinal
<1> SUFFICES ASSUME LogInv, [TracerNext]_tracerVars PROVE EntriesFinal
  OBVIOUS
<1>0. TracerInv /\ TracerTypeOK
  BY DEF LogInv, TracerInv
<1>1. CASE UNCHANGED <<file_size, buffer>>
  BY <1>0, <1>1 DEF EntriesFinal, Final, TracerTypeOK
<1>2. CASE CreateLog \/ DoubleBuffer
  BY <1>0, <1>2, FileDoubles DEF EntriesFinal, Final
<1>3. CASE WriteAddressAndData \/ WriteClnum \/ WriteFlags \/ \E d \in Data : SegmentData(d)
  <2> SUFFICES ASSUME NEW e \in 0 .. file_size - 1 PROVE Final(e)
    BY <1>0, <1>3, EntryStored DEF EntriesFinal
  <2>1. CASE e # cc
    BY <1>0, <1>3, <2>1, EntryStored DEF Final
  <2>2. CASE e = cc /\ tpc \in InAdd
    <3>1. ~Complete(e)
      BY <1>0, <1>3, <2>2, EntryStored DEF Complete
    <3>2. tpc = "clnum" => buffer[e].clnum = 0
      BY <2>2 DEF LogInv, ClnumUnset
    <3> QED
      BY <1>0, <1>3, <2>2, <3>1, <3>2, EntryStored DEF Final
  <2>3. CASE e = cc /\ tpc = "segdata"
    <3>1. TypeOf(buffer[cc].flags) = "s"
      BY <2>3 DEF LogInv, SegmentEntry
    <3> QED
      BY <1>0, <1>3, <2>3, <3>1, EntryStored DEF Final
  <2> QED
    BY <1>0, <1>3, <2>1, <2>2, <2>3, EntryStored
<1> QED
  <2>1. CASE UNCHANGED tracerVars
    BY <1>1, <2>1 DEF tracerVars, fileVars
  <2>2. CASE TracerNext
    BY <1>0, <1>1, <1>2, <1>3, <2>2, StepsOfLog DEF Claims, WriteHeader
  <2> QED
    BY <2>1, <2>2

\* An entry of the file is one of the longer file.
LEMMA RangeGrows ==
  ASSUME NEW a \in Nat, NEW b \in Nat, b >= a
  PROVE  /\ \A e \in 1 .. a - 1 : e \in 1 .. b - 1
         /\ \A e \in 0 .. a - 1 : e \in 0 .. b - 1
         /\ \A e \in 1 .. a - 1 : e \in 0 .. a - 1
  OBVIOUS

\* An instruction start that is in the log stays in it.
LEMMA StartedStays ==
  ASSUME TracerTypeOK, TracerTypeOK', EntriesFinal, NEW CONSTANT n, Started(n)
  PROVE  Started(n)'
<1>1. PICK e \in 1 .. file_size - 1 : IsStart(e) /\ buffer[e].clnum = n
  BY DEF Started
<1>2. file_size \in Nat /\ file_size' \in Nat
  BY DEF TracerTypeOK
<1>3. file_size' >= file_size
  BY DEF EntriesFinal
<1>4. e \in 0 .. file_size - 1 /\ e \in 1 .. file_size' - 1
  BY <1>2, <1>3, RangeGrows
<1>5. Complete(e) /\ Final(e)
  BY <1>1, <1>4 DEF IsStart, Complete, EntriesFinal
<1>6. buffer'[e].flags = buffer[e].flags /\ buffer'[e].clnum = n
  BY <1>1, <1>5 DEF Final
<1> QED
  BY <1>1, <1>4, <1>6 DEF Started, IsStart

\* A clnum that is not stored yet reads as 0 after every step.
LEMMA UnsetStep ==
  ASSUME LogInv, TracerTypeOK', TracerNext
  PROVE  ClnumUnset'
<1>0. TracerInv /\ TracerTypeOK /\ Cursor /\ Behind /\ ClnumUnset
  BY DEF LogInv, TracerInv
<1>1. ASSUME NEW a, NEW d, NEW sz, NEW fl, NEW k, Claims(a, d, sz, fl, k) PROVE ClnumUnset'
  BY <1>0, <1>1 DEF Claims, AddChange, ClnumUnset, TracerTypeOK
<1>2. CASE CreateLog \/ DoubleBuffer
  <2> SUFFICES ASSUME NEW e \in 0 .. file_size' - 1,
                      e >= change_count \/ (tpc \in InAdd \ {"flags"} /\ e = cc)
               PROVE  buffer'[e].clnum = 0
    BY <1>0, <1>2, FileDoubles DEF ClnumUnset
  <2>1. CASE e < file_size
    <3>1. e \in 0 .. file_size - 1
      BY <1>0, <2>1 DEF TracerTypeOK
    <3> QED
      BY <1>0, <1>2, <3>1, FileDoubles DEF ClnumUnset
  <2>2. CASE e >= file_size
    BY <1>0, <1>2, <2>2, FileDoubles DEF ZeroChange
  <2> QED
    BY <1>0, <2>1, <2>2 DEF TracerTypeOK
<1>3. CASE WriteAddressAndData \/ WriteClnum \/ WriteFlags \/ \E d \in Data : SegmentData(d)
  <2> SUFFICES ASSUME NEW e \in 0 .. file_size - 1,
                      e >= change_count \/ (tpc' \in InAdd \ {"flags"} /\ e = cc)
               PROVE  buffer'[e].clnum = 0
    BY <1>0, <1>3, EntryStored DEF ClnumUnset
  <2>1. CASE e = cc
    <3>1. tpc = "address" /\ buffer[e].clnum = 0
      BY <1>0, <1>3, <2>1, EntryStored DEF ClnumUnset
    <3> QED
      BY <1>0, <1>3, <2>1, <3>1, EntryStored
  <2>2. CASE e # cc
    BY <1>0, <1>3, <2>2, EntryStored DEF ClnumUnset
  <2> QED
    BY <2>1, <2>2
<1>4. CASE WriteHeader
  <2>1. /\ change_count = 0 /\ tpc' = "boot"
        /\ UNCHANGED <<file_size, buffer>>
    BY <1>0, <1>4 DEF WriteHeader, Cursor
  <2>2. \A e \in 0 .. file_size - 1 : buffer[e].clnum = 0
    BY <1>0, <2>1 DEF ClnumUnset, TracerTypeOK
  <2> QED
    BY <2>1, <2>2 DEF ClnumUnset
<1>5. CASE UNCHANGED <<file_size, buffer, change_count, changelist_number>> /\ tpc' \notin InAdd
  BY <1>0, <1>5 DEF ClnumUnset
<1> QED
  BY <1>0, <1>1, <1>2, <1>3, <1>4, <1>5, StepsOfLog

\* A segment load is a system call when its data is stored.
LEMMA SegmentStep ==
  ASSUME LogInv, TracerNext
  PROVE  SegmentEntry'
<1>0. TracerInv /\ TracerTypeOK /\ SegmentEntry
  BY DEF LogInv, TracerInv
<1>1. ASSUME NEW a, NEW d, NEW sz, NEW fl, NEW k, Claims(a, d, sz, fl, k) PROVE SegmentEntry'
  BY <1>0, <1>1 DEF Claims, AddChange, SegmentEntry, TypeOf
<1>2. CASE CreateLog \/ DoubleBuffer
  BY <1>0, <1>2, FileDoubles DEF SegmentEntry
<1>3. CASE WriteAddressAndData \/ WriteClnum \/ WriteFlags \/ \E d \in Data : SegmentData(d)
  BY <1>0, <1>3, EntryStored DEF SegmentEntry
<1>4. CASE WriteHeader
  BY <1>0, <1>4 DEF WriteHeader, SegmentEntry
<1>5. CASE tpc' \notin InAdd \cup {"segdata"}
  BY <1>5 DEF SegmentEntry
<1> QED
  BY <1>0, <1>1, <1>2, <1>3, <1>4, <1>5, StepsOfLog

\* Every clnum keeps its instruction start, and a new one gets its own.
LEMMA DenseStep ==
  ASSUME LogInv, TracerTypeOK', TracerNext
  PROVE  Dense'
<1>0. TracerInv /\ TracerTypeOK /\ Cursor /\ Behind /\ Dense /\ EntriesFinal
  BY TracerFinal DEF LogInv, TracerInv
<1>1. /\ changelist_number \in Nat /\ changelist_number' \in Nat
      /\ StartClnum \in Nat /\ StartClnum >= 1
      /\ tpc' \in Points
  BY <1>0, TracerAssumption DEF TracerTypeOK
<1>2. \A n \in Nat : Started(n) => Started(n)'
  BY <1>0, StartedStays
<1>3. ASSUME NEW a, NEW d, NEW sz, NEW fl, NEW k, Claims(a, d, sz, fl, k) PROVE Dense'
  <2>1. /\ tpc \in Alive \ InAdd /\ tpc' \in InAdd
        /\ UNCHANGED <<file_size, buffer>>
        /\ cur'.flags = fl \cup {"VALID"}
        /\ changelist_number' = IF "START" \in fl THEN changelist_number + 1 ELSE changelist_number
        /\ cc' = change_count /\ change_count >= 1
    BY <1>0, <1>3 DEF Claims, AddChange, Cursor
  <2>2. \A n \in StartClnum .. changelist_number : Started(n)'
    BY <1>0, <1>1, <1>2, <2>1 DEF Dense, Starting
  <2>3. \A n \in StartClnum .. changelist_number' :
          Started(n)' \/ (n = changelist_number' /\ "START" \in cur'.flags)
    BY <1>1, <2>1, <2>2
  <2>4. changelist_number' >= StartClnum - 1
    BY <1>0, <1>1, <2>1 DEF Dense
  <2>5. \A e \in 0 .. file_size' - 1 : IsStart(e)' => buffer'[e].clnum >= 1
    BY <1>0, <2>1 DEF Dense, IsStart
  <2>6. "START" \in cur'.flags => changelist_number' >= 1
    BY <1>1, <2>1
  <2> QED
    BY <2>1, <2>3, <2>4, <2>5, <2>6 DEF Dense, Starting
<1>4. CASE CreateLog \/ DoubleBuffer
  <2>1. /\ UNCHANGED <<cc, cur, changelist_number>>
        /\ tpc \in {"create", "resize"} /\ tpc' = IF tpc = "create" THEN "header" ELSE "address"
    BY <1>0, <1>4, FileDoubles
  <2>2. \A n \in StartClnum .. changelist_number : Started(n)' \/ (n = changelist_number /\ Starting')
    BY <1>0, <1>1, <1>2, <2>1 DEF Dense, Starting
  <2>3. ASSUME NEW e \in 0 .. file_size' - 1, IsStart(e)' PROVE buffer'[e].clnum >= 1
    <3>1. e < file_size
      BY <1>0, <1>4, <2>3, FileDoubles DEF IsStart, ZeroChange
    <3>2. e \in 0 .. file_size - 1
      BY <1>0, <3>1 DEF TracerTypeOK
    <3> QED
      BY <1>0, <1>4, <2>3, <3>2, FileDoubles DEF Dense, IsStart
  <2> QED
    BY <1>0, <2>1, <2>2, <2>3 DEF Dense
<1>5. CASE WriteAddressAndData \/ WriteClnum \/ WriteFlags \/ \E d \in Data : SegmentData(d)
  <2>1. /\ UNCHANGED <<file_size, cc, cur, changelist_number>>
        /\ tpc \in {"address", "clnum", "flags", "segdata"}
        /\ tpc # "flags" => tpc' \in InAdd \cup {"body"}
        /\ tpc = "flags" => tpc' \in Alive \ InAdd
        /\ tpc = "segdata" => tpc' = "body"
        /\ file_size \in Nat /\ cc \in 0 .. file_size - 1
    BY <1>0, <1>5, EntryStored
  <2>2. \A n \in Nat : (n = changelist_number /\ tpc = "flags" /\ "START" \in cur.flags) =>
          /\ Started(n)'
          /\ buffer'[cc].clnum >= 1
    <3> SUFFICES ASSUME NEW n \in Nat, n = changelist_number, tpc = "flags", "START" \in cur.flags
                 PROVE  Started(n)' /\ buffer'[cc].clnum >= 1
      OBVIOUS
    <3>1. buffer'[cc].clnum = changelist_number /\ buffer'[cc].flags = cur.flags
      BY <1>0, <1>5, EntryStored DEF Behind
    <3>2. cc \in 1 .. file_size - 1
      BY <1>0, <2>1 DEF Dense
    <3>3. IsStart(cc)' /\ changelist_number >= 1
      BY <1>0, <2>1, <3>1 DEF IsStart, Dense, LogInv, Filled
    <3> QED
      BY <2>1, <3>1, <3>2, <3>3 DEF Started, IsStart
  <2>3. \A n \in StartClnum .. changelist_number : Started(n)' \/ (n = changelist_number /\ Starting')
    <3> SUFFICES ASSUME NEW n \in StartClnum .. changelist_number, ~Started(n)
                 PROVE  Started(n)' \/ (n = changelist_number /\ Starting')
      BY <1>1, <1>2
    <3>1. n = changelist_number /\ tpc \in InAdd /\ "START" \in cur.flags
      BY <1>0, <2>1 DEF Dense, Starting
    <3>2. CASE tpc = "flags"
      BY <1>1, <2>2, <3>1, <3>2
    <3>3. CASE tpc \in {"address", "clnum"}
      BY <1>0, <1>5, <2>1, <3>1, <3>3, EntryStored DEF Starting
    <3> QED
      BY <2>1, <3>1, <3>2, <3>3
  <2>4. ASSUME NEW e \in 0 .. file_size - 1, IsStart(e)' PROVE buffer'[e].clnum >= 1
    <3>1. CASE e # cc
      BY <1>0, <1>5, <2>4, <3>1, EntryStored DEF Dense, IsStart
    <3>2. CASE e = cc /\ tpc \in {"address", "clnum"}
      BY <1>0, <1>5, <2>4, <3>2, EntryStored DEF IsStart
    <3>3. CASE e = cc /\ tpc = "flags"
      BY <1>0, <1>1, <1>5, <2>2, <2>4, <3>3, EntryStored DEF IsStart
    <3>4. CASE e = cc /\ tpc = "segdata"
      BY <1>0, <1>5, <2>1, <2>4, <3>4, EntryStored DEF Dense, IsStart
    <3> QED
      BY <2>1, <3>1, <3>2, <3>3, <3>4
  <2> QED
    BY <1>0, <2>1, <2>3, <2>4 DEF Dense
<1>6. CASE WriteHeader
  <2>1. /\ changelist_number' = StartClnum - 1 /\ tpc' = "boot"
        /\ UNCHANGED <<file_size, buffer>>
    BY <1>6 DEF WriteHeader
  <2> QED
    BY <1>0, <1>1, <2>1 DEF Dense, IsStart
<1>7. CASE /\ UNCHANGED <<file_size, buffer, change_count, changelist_number>>
           /\ tpc' \in Alive \ InAdd => tpc \in Alive \ InAdd
           /\ tpc' \notin InAdd \cup {"create", "header", "segdata"}
  <2>1. \A n : Started(n)' <=> Started(n)
    BY <1>7 DEF Started, IsStart
  <2> QED
    BY <1>0, <1>1, <1>7, <2>1 DEF Dense, IsStart, Starting
<1> QED
  BY <1>0, <1>3, <1>4, <1>5, <1>6, <1>7, StepsOfLog

\* The tracer keeps the log as the database relies on it.
LEMMA LogInvStep == LogInv /\ [TracerNext]_tracerVars => LogInv'
<1> SUFFICES ASSUME LogInv, [TracerNext]_tracerVars PROVE LogInv'
  OBVIOUS
<1>1. TracerInv' /\ Filled' /\ TracerTypeOK'
  BY TracerInvStep, FilledStep, TracerTypeStep DEF LogInv
<1>2. CASE TracerNext
  BY <1>1, <1>2, UnsetStep, SegmentStep, DenseStep DEF LogInv
<1>3. CASE UNCHANGED tracerVars
  <2>1. UNCHANGED <<file_size, buffer, change_count, changelist_number, tpc, cc, cur, ret>>
    BY <1>3 DEF tracerVars, fileVars, localVars
  <2>2. \A n : Started(n)' <=> Started(n)
    BY <2>1 DEF Started, IsStart
  <2>3. ClnumUnset' /\ SegmentEntry'
    BY <2>1 DEF LogInv, ClnumUnset, SegmentEntry
  <2>4. Dense'
    BY <2>1, <2>2 DEF LogInv, Dense, IsStart, Starting
  <2> QED
    BY <1>1, <2>3, <2>4 DEF LogInv
<1> QED
  BY <1>2, <1>3

\* An empty file.
LEMMA LogInvInit == TracerInit => LogInv
<1> SUFFICES ASSUME TracerInit PROVE LogInv
  OBVIOUS
<1>1. ClnumUnset /\ SegmentEntry /\ Filled
  BY DEF TracerInit, ClnumUnset, SegmentEntry, Filled
<1>2. Dense
  BY TracerAssumption DEF TracerInit, Dense
<1> QED
  BY <1>1, <1>2, TracerInitInv DEF LogInv

-----------------------------------------------------------------------------
(* What the ingest thread has read of it.                                  *)

\* Entries are ingested in order, the torn ones too.
Reading ==
  /\ DOMAIN ingested = 1 .. (IF dpc \in {"max", "min"} THEN entries_done ELSE entries_done - 1)
  /\ \A e \in DOMAIN ingested : e < file_size
  /\ (dpc = "insert" /\ type # "?") => TypeOf(buffer[entries_done].flags) = type

\* What was read of an entry is what the tracer finally stored.
AsWritten(e) ==
  ingested[e].type # "?" =>
    /\ TypeOf(buffer[e].flags) = ingested[e].type
    /\ ingested[e].c.address = buffer[e].address
    /\ ingested[e].c.clnum = buffer[e].clnum
    /\ ingested[e].c.size = buffer[e].size
    /\ ingested[e].c.flags = buffer[e].flags
    /\ ingested[e].type # "s" => ingested[e].c.data = buffer[e].data

\* The published maximum is the clnum of an entry that was read.
Published ==
  \/ max_clnum = 0
  \/ \E g \in DOMAIN ingested : max_clnum = buffer[g].clnum

\* A page is marked with what was done in it.
Marked(p, t, flag) ==
  flag \in pages[p] <=> \E e \in Ingested({t}) : PageOf(ingested[e].c.address) = p

PagesMarked ==
  /\ DOMAIN pages = {PageOf(ingested[e].c.address) : e \in Ingested({"I", "L", "S"})}
  /\ \A p \in DOMAIN pages : Marked(p, "I", "INSTRUCTION") /\ Marked(p, "S", "WRITE")

ReadInv ==
  /\ LiveInv
  /\ LogInv
  /\ Reading
  /\ \A e \in DOMAIN ingested : AsWritten(e)
  /\ Published
  /\ IndexAsLogged
  /\ PagesMarked

\* Nothing has been read yet.
LEMMA ReadInitInv == IngestInit => ReadInv
<1> SUFFICES ASSUME IngestInit PROVE ReadInv
  OBVIOUS
<1>1. LiveInv /\ LogInv
  BY LiveInitInv, LogInvInit DEF IngestInit
<1>2. DOMAIN ingested = {} /\ DOMAIN pages = {} /\ entries_done = 1 /\ dpc = "connect"
        /\ max_clnum = 0 /\ index_size = 0
  BY DEF IngestInit, DBInit
<1>3. Reading /\ Published /\ \A e \in DOMAIN ingested : AsWritten(e)
  BY <1>2 DEF Reading, Published
<1>4. IndexAsLogged /\ PagesMarked
  BY <1>2 DEF IndexAsLogged, PagesMarked, Ingested, EntryOf
<1> QED
  BY <1>1, <1>3, <1>4 DEF ReadInv

\* A type was read off a valid entry.
LEMMA TypedIsComplete ==
  ASSUME NEW e, TypeOf(buffer[e].flags) # "?"
  PROVE  Complete(e)
  BY DEF TypeOf, Complete

\* What was read stays right while the tracer writes on.
LEMMA FinalKeepsRead ==
  ASSUME ReadInv, EntriesFinal, TracerTypeOK', UNCHANGED <<dbVars, dpc, type>>
  PROVE  /\ Reading' /\ (\A e \in DOMAIN ingested : AsWritten(e))'
         /\ Published' /\ IndexAsLogged' /\ PagesMarked'
<1>1. UNCHANGED <<ingested, entries_done, max_clnum, index_size, clnum_to_entry_number, pages>>
  BY DEF dbVars, indexVars
<1>2. file_size \in Nat /\ file_size' \in Nat /\ entries_done \in Nat
  BY DEF ReadInv, LogInv, TracerInv, TracerTypeOK, LiveInv, TypedInv, IngestInv, ThreadTypes
<1>3. file_size' >= file_size
  BY DEF EntriesFinal
<1>4. \A e \in DOMAIN ingested : e \in 0 .. file_size - 1 /\ Final(e)
  <2> SUFFICES ASSUME NEW e \in DOMAIN ingested PROVE e \in 0 .. file_size - 1
    BY DEF EntriesFinal
  <2>1. e \in Nat /\ e < file_size
    BY <1>2 DEF ReadInv, Reading
  <2> QED
    BY <1>2, <2>1
<1>5. (dpc = "insert" /\ type # "?") => TypeOf(buffer'[entries_done].flags) = type
  <2> SUFFICES ASSUME dpc = "insert", type # "?"
               PROVE  buffer'[entries_done].flags = buffer[entries_done].flags
    BY DEF ReadInv, Reading
  <2>1. entries_done \in 0 .. file_size - 1
    BY CurrentEntry DEF ReadInv, LiveInv, TypedInv
  <2>2. Complete(entries_done)
    BY TypedIsComplete DEF ReadInv, Reading
  <2> QED
    BY <2>1, <2>2 DEF EntriesFinal, Final
<1>6. \A e \in DOMAIN ingested : e < file_size'
  BY <1>2, <1>3, <1>4
<1>7. Reading'
  BY <1>1, <1>5, <1>6 DEF ReadInv, Reading
<1>8. ASSUME NEW e \in DOMAIN ingested, ingested[e].type # "?" PROVE AsWritten(e)'
  <2>1. AsWritten(e)
    BY DEF ReadInv
  <2>2. Complete(e)
    BY <1>8, <2>1, TypedIsComplete DEF AsWritten
  <2> QED
    BY <1>1, <1>4, <1>8, <2>1, <2>2 DEF AsWritten, Final
<1>9. \A e \in DOMAIN ingested' : AsWritten(e)'
  BY <1>1, <1>8 DEF AsWritten
<1>10. Published'
  BY <1>1, <1>4 DEF ReadInv, Published, Final
<1>11. IndexAsLogged' /\ PagesMarked'
  BY <1>1 DEF ReadInv, IndexAsLogged, PagesMarked, Marked, Ingested, EntryOf
<1> QED
  BY <1>7, <1>9, <1>10, <1>11

\* The history after an entry was inserted.
LEMMA Inserted ==
  ASSUME ReadInv, Insert
  PROVE  /\ entries_done \notin DOMAIN ingested
         /\ entries_done \in 1 .. file_size - 1
         /\ DOMAIN ingested' = DOMAIN ingested \cup {entries_done}
         /\ ingested'[entries_done] = [c |-> buffer[entries_done], type |-> type]
         /\ \A x \in DOMAIN ingested : ingested'[x] = ingested[x]
         /\ DOMAIN ingested \subseteq Nat
<1>1. dpc = "insert" /\ InsertEntry(entries_done, buffer[entries_done], type)
  BY DEF Insert
<1>2. entries_done \in Nat /\ file_size \in Nat /\ entries_done >= 1 /\ entries_done < file_size
  BY <1>1 DEF ReadInv, LiveInv, TypedInv, IngestInv, ThreadTypes, Window, TracerInv, TracerTypeOK
<1>3. DOMAIN ingested = 1 .. entries_done - 1
  BY <1>1 DEF ReadInv, Reading
<1>4. entries_done \notin DOMAIN ingested /\ DOMAIN ingested \subseteq Nat
  BY <1>2, <1>3
<1>5. ingested' = Put(ingested, entries_done, [c |-> buffer[entries_done], type |-> type])
  BY <1>1 DEF InsertEntry
<1>6. /\ DOMAIN ingested' = DOMAIN ingested \cup {entries_done}
      /\ ingested'[entries_done] = [c |-> buffer[entries_done], type |-> type]
      /\ \A x \in DOMAIN ingested : ingested'[x] = ingested[x]
  BY <1>4, <1>5 DEF Put
<1> QED
  BY <1>2, <1>4, <1>6

\* The entries of a type after an entry was inserted.
LEMMA InsertedTypes ==
  ASSUME ReadInv, Insert, NEW CONSTANT T
  PROVE  Ingested(T)' = IF type \in T THEN Ingested(T) \cup {entries_done} ELSE Ingested(T)
<1>1. ingested'[entries_done].type = type
  BY Inserted
<1> QED
  BY <1>1, Inserted DEF Ingested

\* push_back puts the start at its clnum and moves no other.
LEMMA InsertedIndex ==
  ASSUME ReadInv, Insert, NEW CONSTANT m \in Nat
  PROVE  EntryOf(m)' = IF type = "I" /\ m = buffer[entries_done].clnum THEN entries_done
                       ELSE EntryOf(m)
<1> DEFINE n == buffer[entries_done].clnum
<1>1. dpc = "insert" /\ InsertEntry(entries_done, buffer[entries_done], type)
  BY DEF Insert
<1>2. CASE type = "I"
  <2>1. /\ n \in Nat
        /\ index_size \in Nat
        /\ index_size <= n
    BY <1>1, <1>2, IndexEndsBefore DEF ReadInv, LiveInv, TypedInv, IngestInv, ThreadTypes
  <2>2. ResizedTo(n) = n
    BY <2>1 DEF ResizedTo
  <2>3. index_size' = n + 1
    BY <1>1, <1>2, <2>2 DEF InsertEntry
  <2>4. clnum_to_entry_number' =
          [i \in 0 .. n |-> IF i < index_size THEN clnum_to_entry_number[i]
                            ELSE IF i < n THEN 0 ELSE entries_done]
    BY <1>1, <1>2, <2>2 DEF InsertEntry, PushEntry
  <2> HIDE DEF n
  <2>5. CASE m = n
    BY <1>2, <2>1, <2>3, <2>4, <2>5 DEF EntryOf, n
  <2>6. CASE m < n
    BY <1>2, <2>1, <2>3, <2>4, <2>6 DEF EntryOf, n
  <2>7. CASE m > n
    BY <1>2, <2>1, <2>3, <2>4, <2>7 DEF EntryOf, n
  <2> QED
    BY <2>1, <2>5, <2>6, <2>7
<1>3. CASE type # "I"
  BY <1>1, <1>3 DEF InsertEntry, EntryOf
<1> QED
  BY <1>2, <1>3

\* The lookup by clnum, for every clnum.
LEMMA IndexedAll ==
  ASSUME ReadInv, NEW m \in Nat, EntryOf(m) # 0
  PROVE  EntryOf(m) \in Ingested({"I"}) /\ ingested[EntryOf(m)].c.clnum = m
<1>1. index_size \in Nat
  BY DEF ReadInv, LiveInv, TypedInv, IngestInv, ThreadTypes
<1>2. m \in 0 .. index_size
  BY <1>1 DEF EntryOf
<1> QED
  BY <1>2 DEF ReadInv, IndexAsLogged

\* Inserting an entry keeps the index aligned with the history.
LEMMA InsertKeepsIndexed ==
  ASSUME ReadInv, Insert, LiveInv'
  PROVE  IndexAsLogged'
<1> DEFINE e0 == entries_done
           n0 == buffer[entries_done].clnum
<1>0. e0 \in Nat /\ e0 # 0 /\ n0 \in Nat /\ index_size' \in Nat
  <2>1. e0 \in 1 .. file_size - 1 /\ file_size \in Nat /\ index_size' \in Nat
    BY Inserted DEF ReadInv, LogInv, TracerInv, TracerTypeOK, LiveInv, TypedInv, IngestInv, ThreadTypes
  <2>2. n0 \in Nat
    BY <2>1, EntryTypes DEF ReadInv, LogInv, TracerInv
  <2> QED
    BY <2>1, <2>2
<1>1. \A e \in DOMAIN ingested : ingested[e].type = "I" => ingested[e].c.clnum \in Nat
  <2> SUFFICES ASSUME NEW e \in DOMAIN ingested, ingested[e].type = "I"
               PROVE  ingested[e].c.clnum \in Nat
    OBVIOUS
  <2>1. AsWritten(e) /\ e \in 0 .. file_size - 1
    BY Inserted DEF ReadInv, Reading, LogInv, TracerInv, TracerTypeOK
  <2> QED
    BY <2>1, EntryTypes DEF AsWritten, ReadInv, LogInv, TracerInv
<1>2. ASSUME NEW e \in Ingested({"I"})' PROVE EntryOf(ingested[e].c.clnum)' = e
  <2>1. CASE e \in Ingested({"I"})
    <3>1. /\ e \in DOMAIN ingested /\ ingested[e].type = "I"
          /\ ingested'[e] = ingested[e]
      BY <2>1, Inserted DEF Ingested
    <3>2. PICK m \in Nat : m = ingested[e].c.clnum
      BY <1>1, <3>1
    <3>3. EntryOf(m) = e
      BY <2>1, <3>2 DEF ReadInv, IndexAsLogged
    <3>4. ~(type = "I" /\ m = n0)
      <4> SUFFICES ASSUME type = "I", m = n0 PROVE FALSE
        OBVIOUS
      <4>1. index_size <= n0 /\ index_size \in Nat
        BY IndexEndsBefore DEF ReadInv, LiveInv, TypedInv, IngestInv, ThreadTypes, Insert
      <4>2. e = 0
        BY <1>0, <3>3, <4>1 DEF EntryOf
      <4> QED
        BY <3>1, <4>2 DEF ReadInv, Reading
    <3>5. EntryOf(m)' = e
      BY <3>3, <3>4, InsertedIndex
    <3> QED
      BY <3>1, <3>2, <3>5
  <2>2. CASE e \notin Ingested({"I"})
    <3>1. type = "I" /\ e = e0
      BY <1>2, <2>2, InsertedTypes
    <3>2. ingested'[e].c.clnum = n0
      BY <3>1, Inserted
    <3>3. PICK m \in Nat : m = n0
      BY <1>0
    <3>4. EntryOf(m)' = e
      BY <3>1, <3>3, InsertedIndex
    <3> QED
      BY <3>2, <3>3, <3>4
  <2> QED
    BY <2>1, <2>2
<1>3. ASSUME NEW m \in Nat, EntryOf(m)' # 0
      PROVE  EntryOf(m)' \in Ingested({"I"})' /\ ingested'[EntryOf(m)'].c.clnum = m
  <2>1. CASE type = "I" /\ m = n0
    <3>1. EntryOf(m)' = e0
      BY <2>1, InsertedIndex
    <3>2. e0 \in Ingested({"I"})'
      BY <2>1, InsertedTypes
    <3>3. ingested'[e0].c.clnum = m
      BY <2>1, Inserted
    <3> QED
      BY <3>1, <3>2, <3>3
  <2>2. CASE ~(type = "I" /\ m = n0)
    <3>1. EntryOf(m)' = EntryOf(m)
      BY <2>2, InsertedIndex
    <3>2. EntryOf(m) \in Ingested({"I"}) /\ ingested[EntryOf(m)].c.clnum = m
      BY <1>3, <3>1, IndexedAll
    <3>3. EntryOf(m) \in Ingested({"I"})'
      BY <3>2, InsertedTypes
    <3>4. ingested'[EntryOf(m)] = ingested[EntryOf(m)]
      BY <3>2, Inserted DEF Ingested
    <3> QED
      BY <3>1, <3>2, <3>3, <3>4
  <2> QED
    BY <2>1, <2>2
<1>4. \A m \in 0 .. index_size' : m \in Nat
  BY <1>0
<1> QED
  BY <1>2, <1>3, <1>4 DEF IndexAsLogged

\* Inserting an entry marks its page.
LEMMA InsertKeepsPages ==
  ASSUME ReadInv, Insert
  PROVE  PagesMarked'
<1> DEFINE e0 == entries_done
           p0 == PageOf(buffer[entries_done].address)
           ILS == {"I", "L", "S"}
<1>0. InsertEntry(entries_done, buffer[entries_done], type)
  BY DEF Insert
<1>1. /\ \A x \in DOMAIN ingested : ingested'[x] = ingested[x]
      /\ PageOf(ingested'[e0].c.address) = p0
      /\ e0 \notin DOMAIN ingested
  BY Inserted DEF PageOf
<1>2. Ingested(ILS)' = IF type \in ILS THEN Ingested(ILS) \cup {e0} ELSE Ingested(ILS)
  BY InsertedTypes
<1>3. Ingested({"I"})' = IF type = "I" THEN Ingested({"I"}) \cup {e0} ELSE Ingested({"I"})
  BY InsertedTypes
<1>4. Ingested({"S"})' = IF type = "S" THEN Ingested({"S"}) \cup {e0} ELSE Ingested({"S"})
  BY InsertedTypes
<1>5. /\ Ingested(ILS) \subseteq DOMAIN ingested
      /\ Ingested({"I"}) \subseteq Ingested(ILS)
      /\ Ingested({"S"}) \subseteq Ingested(ILS)
  BY DEF Ingested
<1>6. /\ DOMAIN pages = {PageOf(ingested[e].c.address) : e \in Ingested(ILS)}
      /\ \A p \in DOMAIN pages : Marked(p, "I", "INSTRUCTION") /\ Marked(p, "S", "WRITE")
  BY DEF ReadInv, PagesMarked
<1> DEFINE On(p, t) == \E e \in Ingested({t}) : PageOf(ingested[e].c.address) = p
<1>7. \A p : /\ On(p, "I")' <=> On(p, "I") \/ (type = "I" /\ p = p0)
             /\ On(p, "S")' <=> On(p, "S") \/ (type = "S" /\ p = p0)
  BY <1>1, <1>3, <1>4, <1>5
<1>8. \A p : On(p, "I") \/ On(p, "S") => p \in DOMAIN pages
  BY <1>5, <1>6
<1>9. \A p \in DOMAIN pages : /\ "INSTRUCTION" \in pages[p] <=> On(p, "I")
                              /\ "WRITE" \in pages[p] <=> On(p, "S")
  BY <1>6 DEF Marked
<1>10. CASE type \in ILS
  <2>1. pages' = Put(pages, p0, Get(pages, p0, {}) \cup PageFlag(type))
    BY <1>0, <1>10 DEF InsertEntry
  <2>2. /\ "INSTRUCTION" \in PageFlag(type) <=> type = "I"
        /\ "WRITE" \in PageFlag(type) <=> type = "S"
    BY <1>10 DEF PageFlag
  <2>3. DOMAIN pages' = DOMAIN pages \cup {p0}
    BY <2>1 DEF Put
  <2>4. \A p \in DOMAIN pages : p # p0 => pages'[p] = pages[p]
    BY <2>1 DEF Put
  <2>5. pages'[p0] = Get(pages, p0, {}) \cup PageFlag(type)
    BY <2>1 DEF Put
  <2>6. /\ "INSTRUCTION" \in pages'[p0] <=> On(p0, "I") \/ type = "I"
        /\ "WRITE" \in pages'[p0] <=> On(p0, "S") \/ type = "S"
    BY <1>8, <1>9, <2>2, <2>5 DEF Get
  <2>7. DOMAIN pages' = {PageOf(ingested'[e].c.address) : e \in Ingested(ILS)'}
    BY <1>1, <1>2, <1>5, <1>6, <1>10, <2>3
  <2>8. ASSUME NEW p \in DOMAIN pages'
        PROVE  /\ "INSTRUCTION" \in pages'[p] <=> On(p, "I")'
               /\ "WRITE" \in pages'[p] <=> On(p, "S")'
    BY <1>7, <1>9, <2>3, <2>4, <2>6
  <2> QED
    BY <2>7, <2>8 DEF PagesMarked, Marked
<1>11. CASE type \notin ILS
  <2>1. pages' = pages
    BY <1>0, <1>11 DEF InsertEntry
  <2>2. {PageOf(ingested'[e].c.address) : e \in Ingested(ILS)'} = DOMAIN pages
    BY <1>1, <1>2, <1>5, <1>6, <1>11
  <2>3. \A p \in DOMAIN pages : /\ "INSTRUCTION" \in pages[p] <=> On(p, "I")'
                                /\ "WRITE" \in pages[p] <=> On(p, "S")'
    BY <1>7, <1>9, <1>11
  <2> QED
    BY <2>1, <2>2, <2>3 DEF PagesMarked, Marked
<1> QED
  BY <1>10, <1>11

\* A step of the ingest thread keeps what was read.
LEMMA ThreadKeepsRead ==
  ASSUME ReadInv, Thread, UNCHANGED tracerVars, LiveInv'
  PROVE  /\ Reading' /\ (\A e \in DOMAIN ingested : AsWritten(e))'
         /\ Published' /\ IndexAsLogged' /\ PagesMarked'
<1>0. /\ UNCHANGED <<file_size, buffer>>
      /\ file_size \in Nat /\ entries_done \in Nat /\ max_clnum \in Nat
  BY DEF tracerVars, fileVars, ReadInv, LogInv, TracerInv, TracerTypeOK, LiveInv, TypedInv,
         IngestInv, ThreadTypes, RestTypes
<1>1. CASE Insert
  <2>1. dpc = "insert" /\ dpc' = "max" /\ UNCHANGED <<entries_done, max_clnum, type>>
    BY <1>1 DEF Insert
  <2>2. DOMAIN ingested' = 1 .. entries_done
    <3>1. DOMAIN ingested = 1 .. entries_done - 1
      BY <2>1 DEF ReadInv, Reading
    <3>2. DOMAIN ingested' = DOMAIN ingested \cup {entries_done} /\ entries_done \in 1 .. file_size - 1
      BY <1>1, Inserted
    <3>3. entries_done >= 1
      BY <1>0, <3>2
    <3>4. 1 .. entries_done = (1 .. entries_done - 1) \cup {entries_done}
      BY <1>0, <3>3
    <3> QED
      BY <3>1, <3>2, <3>4
  <2>3. Reading'
    BY <1>0, <1>1, <2>1, <2>2, Inserted DEF ReadInv, Reading
  <2>4. ASSUME NEW e \in DOMAIN ingested' PROVE AsWritten(e)'
    <3>1. CASE e \in DOMAIN ingested
      BY <1>0, <1>1, <3>1, Inserted DEF ReadInv, AsWritten
    <3>2. CASE e = entries_done
      <4>1. type # "?" => TypeOf(buffer[e].flags) = type
        BY <2>1, <3>2 DEF ReadInv, Reading
      <4>2. ingested'[e].c = buffer[e] /\ ingested'[e].type = type
        BY <1>1, <3>2, Inserted
      <4> QED
        BY <1>0, <4>1, <4>2 DEF AsWritten
    <3> QED
      BY <1>1, <2>4, <3>1, <3>2, Inserted
  <2>5. Published'
    BY <1>0, <1>1, <2>1, Inserted DEF ReadInv, Published
  <2> QED
    BY <1>1, <2>3, <2>4, <2>5, InsertKeepsIndexed, InsertKeepsPages
<1>2. CASE ~Insert
  <2>1. UNCHANGED <<ingested, index_size, clnum_to_entry_number, pages>>
    BY <1>2 DEF Thread, ConnectToFileAndStart, LatchCount, RemapAndClamp, ReadType, PublishMax,
                PublishMinAndDone, SetDidUpdate, ThreadExit, Join, dbVars, indexVars
  <2>2. /\ (\A e \in DOMAIN ingested : AsWritten(e))'
        /\ IndexAsLogged' /\ PagesMarked'
    BY <1>0, <2>1 DEF ReadInv, AsWritten, IndexAsLogged, PagesMarked, Marked, Ingested, EntryOf
  <2>3. Reading'
    <3>1. CASE ReadType
      BY <1>0, <2>1, <3>1 DEF ReadType, ReadInv, Reading, dbVars
    <3>2. CASE PublishMinAndDone
      BY <1>0, <2>1, <3>2 DEF PublishMinAndDone, ReadInv, Reading
    <3>3. CASE PublishMax
      BY <1>0, <2>1, <3>3 DEF PublishMax, ReadInv, Reading
    <3>4. CASE /\ UNCHANGED entries_done /\ dpc' \notin {"max", "min", "insert"}
               /\ dpc \notin {"max", "min", "insert"}
      BY <1>0, <2>1, <3>4 DEF ReadInv, Reading
    <3> QED
      BY <1>2, <3>1, <3>2, <3>3, <3>4
         DEF Thread, ConnectToFileAndStart, LatchCount, RemapAndClamp, SetDidUpdate, ThreadExit,
             Join, dbVars
  <2>4. Published'
    <3>1. CASE PublishMax
      <4>1. entries_done \in DOMAIN ingested
        BY <1>0, <3>1 DEF PublishMax, ReadInv, Reading, LiveInv, TypedInv, IngestInv, Window
      <4>2. max_clnum' = max_clnum \/ max_clnum' = buffer[entries_done].clnum
        BY <3>1 DEF PublishMax, UpdateMax
      <4> QED
        BY <1>0, <2>1, <4>1, <4>2 DEF ReadInv, Published
    <3>2. CASE UNCHANGED max_clnum
      BY <1>0, <2>1, <3>2 DEF ReadInv, Published
    <3> QED
      BY <1>2, <3>1, <3>2
         DEF Thread, ConnectToFileAndStart, LatchCount, RemapAndClamp, ReadType, PublishMinAndDone,
             SetDidUpdate, ThreadExit, Join, dbVars
  <2> QED
    BY <2>2, <2>3, <2>4
<1> QED
  BY <1>1, <1>2

\* Every step of the composition keeps what was read.
LEMMA ReadInvStep == ReadInv /\ [IngestNext]_vars => ReadInv'
<1> SUFFICES ASSUME ReadInv, [IngestNext]_vars PROVE ReadInv'
  OBVIOUS
<1>1. LiveInv' /\ LogInv' /\ TracerTypeOK' /\ EntriesFinal
  BY LiveInvStep, LogInvStep, IngestStepsTracer, TracerFinal DEF ReadInv, LogInv, TracerInv
<1>2. CASE UNCHANGED <<dbVars, dpc, type>>
  BY <1>1, <1>2, FinalKeepsRead DEF ReadInv
<1>3. CASE Thread /\ UNCHANGED tracerVars
  BY <1>1, <1>3, ThreadKeepsRead DEF ReadInv
<1>4. \/ UNCHANGED <<dbVars, dpc, type>>
      \/ Thread /\ UNCHANGED tracerVars
  BY DEF IngestNext, Call, Poll, Fetch, Stop, FetchLock, FetchScan, FetchReturn, ClearDidUpdate,
         GetDidUpdate, PushUpdates, FetchChangesByClnum, vars, threadVars
<1> QED
  BY <1>2, <1>3, <1>4

\* What was read is right in every reachable state.
LEMMA ReadInvariant == IngestSpec => []ReadInv
  BY ReadInitInv, ReadInvStep, PTL DEF IngestSpec

\* Whatever interleaving of the ingest thread's reads with the tracer's
\* stores, what process() ingested under a type is what the tracer finally
\* stored in that entry.
THEOREM IngestAsWritten == IngestSpec => []IngestedAsWritten
<1>1. ReadInv => IngestedAsWritten
  BY DEF ReadInv, AsWritten, IngestedAsWritten
<1> QED
  BY <1>1, ReadInvariant, PTL

\* Beside a tracer that is still writing: the lookup by clnum answers with the
\* instruction start of that clnum, for every one ingested, and the pages are
\* shown as what was done in them.
THEOREM IngestIndexesAsLogged == IngestSpec => []IndexesAsLogged
<1>1. ReadInv => IndexesAsLogged
  <2> SUFFICES ASSUME ReadInv PROVE PagesAsLogged
    BY DEF IndexesAsLogged, ReadInv
  <2>1. DOMAIN pages = {PageOf(ingested[e].c.address) : e \in Ingested({"I", "L", "S"})}
    BY DEF ReadInv, PagesMarked
  <2>2. ASSUME NEW p \in DOMAIN pages
        PROVE  LET On(t) == \E e \in Ingested({t}) : PageOf(ingested[e].c.address) = p
               IN  PageType(p) = IF On("I") THEN "instruction"
                                 ELSE IF On("S") THEN "memory" ELSE "romemory"
    BY DEF ReadInv, PagesMarked, Marked, PageType
  <2> QED
    BY <2>1, <2>2 DEF PagesAsLogged
<1> QED
  BY <1>1, ReadInvariant, PTL

\* If no torn entry was met, every clnum below the published maximum can be
\* fetched at once: the tracer leaves no clnum without a start, entries are
\* ingested in log order, and the index holds every start ingested.
THEOREM IngestPublishedIsFetchable == IngestSpec => []PublishedIsFetchable
<1>1. ReadInv => PublishedIsFetchable
  <2> SUFFICES ASSUME ReadInv, \A e \in DOMAIN ingested : ingested[e].type # "?",
                      NEW n \in StartClnum .. max_clnum, n < max_clnum
               PROVE  EntryOf(n) # 0 /\ EntryOf(n) < entries_done
    BY DEF PublishedIsFetchable
  <2>0. /\ max_clnum \in Nat /\ changelist_number \in Nat /\ max_clnum <= changelist_number
        /\ file_size \in Nat /\ entries_done \in Nat /\ StartClnum \in Nat
    BY TracerAssumption DEF ReadInv, LiveInv, TypedInv, RestTypes, IngestInv, ThreadTypes, TracerInv,
       TracerTypeOK
  <2>1. n \in StartClnum .. changelist_number /\ n # changelist_number /\ n \in Nat
    BY <2>0
  <2>2. PICK s \in 1 .. file_size - 1 : IsStart(s) /\ buffer[s].clnum = n
    BY <2>1 DEF ReadInv, LogInv, Dense, Started
  <2>3. PICK g \in DOMAIN ingested : max_clnum = buffer[g].clnum
    BY <2>0, <2>1 DEF ReadInv, Published
  <2>4. g \in Nat /\ g >= 1 /\ g <= entries_done /\ g < file_size
    BY <2>0 DEF ReadInv, Reading
  <2>5. Complete(g) /\ Complete(s)
    BY <2>2, TypedIsComplete DEF ReadInv, AsWritten, IsStart, Complete
  <2>6. s < g
    <3>1. g \in 1 .. file_size - 1
      BY <2>0, <2>4
    <3>2. ~(g < s)
      BY <2>0, <2>1, <2>2, <2>3, <2>5, <3>1 DEF ReadInv, LogInv, TracerInv, LogOrdered
    <3>3. s # g
      BY <2>0, <2>1, <2>2, <2>3
    <3> QED
      BY <2>4, <3>2, <3>3
  <2>7. s \in DOMAIN ingested /\ s < entries_done /\ s # 0
    BY <2>0, <2>4, <2>6 DEF ReadInv, Reading
  <2>8. s \in Ingested({"I"}) /\ ingested[s].c.clnum = n
    BY <2>2, <2>7 DEF ReadInv, AsWritten, Ingested, TypeOf, IsStart
  <2>9. EntryOf(n) = s
    BY <2>8 DEF ReadInv, IndexAsLogged
  <2> QED
    BY <2>7, <2>9
<1> QED
  BY <1>1, ReadInvariant, PTL

-----------------------------------------------------------------------------
(* The Python side.                                                        *)

\* Whatever was published since the last push is on its way to the clients.
Announced ==
  (dpc \notin {"loop", "insert", "max", "min"} /\ ~did_update /\ ~polling /\ cpc # "clear")
    => pushed_max = max_clnum

\* A fetch starts at the start of its clnum and copies entries of that clnum.
Copied ==
  /\ en_done <= entries_done
  /\ (cpc \in {"lock", "scan", "returned"} /\ en # 0) =>
       /\ en < file_size /\ IsStart(en) /\ buffer[en].clnum = req
       /\ limit # 0 => got <= limit
       /\ \A i \in 0 .. got - 1 : en + i < entries_done /\ buffer[en + i].clnum = req

\* It stopped at the end of what was ingested, at a torn entry, or at one of
\* another clnum.
Stopped ==
  (cpc = "returned" /\ en # 0 /\ limit = 0) =>
    \/ en + got >= en_done
    \/ en + got \in DOMAIN ingested /\ ingested[en + got].type = "?"
    \/ en + got < file_size /\ Complete(en + got) /\ buffer[en + got].clnum # req

QueryInv == ReadInv /\ Announced /\ Copied /\ Stopped

\* The Python side starts with nothing under way.
LEMMA QueryInitInv == IngestInit => QueryInv
  BY ReadInitInv DEF IngestInit, DBInit, QueryInv, Announced, Copied, Stopped

\* did_update_ is set after the last entry of a batch and cleared before the
\* maximum is read.
LEMMA AnnouncedStep ==
  ASSUME Announced, [IngestNext]_vars
  PROVE  Announced'
<1> USE DEF Announced
<1>1. CASE UNCHANGED <<dpc, did_update, polling, cpc, pushed_max, max_clnum>>
  BY <1>1
<1>2. CASE Thread
  BY <1>2 DEF Thread, ConnectToFileAndStart, LatchCount, RemapAndClamp, ReadType, Insert, PublishMax,
              PublishMinAndDone, SetDidUpdate, ThreadExit, Join, callVars, dbVars
<1>3. CASE Call \/ Poll
  BY <1>3 DEF Call, Poll, FetchLock, FetchScan, FetchReturn, ClearDidUpdate, GetDidUpdate,
              PushUpdates, Callable, threadVars, dbVars
<1>4. CASE Fetch \/ Stop
  BY <1>4 DEF Fetch, Stop, FetchChangesByClnum, Callable, threadVars, callVars, dbVars
<1> QED
  BY <1>1, <1>2, <1>3, <1>4 DEF IngestNext, vars, dbVars, threadVars, callVars

\* Types of a fetch in progress, and how far it can reach.
LEMMA FetchTypes ==
  ASSUME ReadInv
  PROVE  /\ file_size \in Nat /\ entries_done \in Nat /\ entries_done >= 1
         /\ req \in Nat /\ limit \in Nat /\ en \in Nat /\ got \in Nat /\ en_done \in Nat
         /\ cpc # "none" => entries_done <= file_size
<1>1. /\ file_size \in Nat /\ entries_done \in Nat /\ entries_done >= 1 /\ backing_size \in Nat
      /\ req \in Nat /\ limit \in Nat /\ en \in Nat /\ got \in Nat /\ en_done \in Nat
  BY DEF ReadInv, LiveInv, TypedInv, RestTypes, IngestInv, ThreadTypes, TracerInv, TracerTypeOK, Window
<1>2. cpc # "none" => entries_done <= backing_size /\ backing_size <= file_size
  BY DEF ReadInv, LiveInv, TypedInv, Calling, IngestInv, Window
<1> QED
  BY <1>1, <1>2

\* What a fetch has copied stays right while the tracer writes and the thread
\* ingests on.
LEMMA CopiedStays ==
  ASSUME QueryInv, ReadInv', EntriesFinal, UNCHANGED <<cpc, req, limit, en, got, en_done>>,
         entries_done' >= entries_done
  PROVE  Copied'
<1>0. entries_done' \in Nat /\ file_size' \in Nat
  BY DEF ReadInv, LiveInv, TypedInv, IngestInv, ThreadTypes, TracerInv, TracerTypeOK
<1>1. /\ file_size \in Nat /\ entries_done \in Nat /\ entries_done' \in Nat /\ file_size' \in Nat
      /\ req \in Nat /\ en \in Nat /\ got \in Nat /\ en_done \in Nat
      /\ cpc # "none" => entries_done <= file_size
  BY <1>0, FetchTypes DEF QueryInv
<1>2. file_size' >= file_size
  BY DEF EntriesFinal
<1>3. en_done' <= entries_done'
  BY <1>1 DEF QueryInv, Copied
<1>4. ASSUME cpc \in {"lock", "scan", "returned"}, en # 0
      PROVE  /\ en < file_size' /\ IsStart(en)' /\ buffer'[en].clnum = req
             /\ limit # 0 => got <= limit
             /\ \A i \in 0 .. got - 1 : en + i < entries_done' /\ buffer'[en + i].clnum = req
  <2>1. /\ en < file_size /\ IsStart(en) /\ buffer[en].clnum = req
        /\ limit # 0 => got <= limit
        /\ \A i \in 0 .. got - 1 : en + i < entries_done /\ buffer[en + i].clnum = req
    BY <1>4 DEF QueryInv, Copied
  <2>2. en \in 0 .. file_size - 1 /\ Complete(en)
    BY <1>1, <2>1 DEF IsStart, Complete
  <2>3. /\ buffer'[en].flags = buffer[en].flags /\ buffer'[en].clnum = req
        /\ req # 0
    BY <2>1, <2>2 DEF EntriesFinal, Final, QueryInv, ReadInv, LogInv, Dense
  <2>4. ASSUME NEW i \in 0 .. got - 1
        PROVE  en + i < entries_done' /\ buffer'[en + i].clnum = req
    <3>1. en + i \in 0 .. file_size - 1 /\ en + i < entries_done'
      BY <1>1, <1>4, <2>1
    <3> QED
      BY <2>1, <2>3, <3>1 DEF EntriesFinal, Final
  <2> QED
    BY <1>1, <1>2, <2>1, <2>3, <2>4 DEF IsStart
<1> QED
  BY <1>3, <1>4 DEF Copied

\* A step of the Python side.
LEMMA CallCopies ==
  ASSUME QueryInv, Call \/ Poll \/ Fetch \/ Stop, UNCHANGED tracerVars
  PROVE  Copied' /\ Stopped'
<1>0. /\ file_size \in Nat /\ entries_done \in Nat /\ entries_done >= 1
      /\ req \in Nat /\ limit \in Nat /\ en \in Nat /\ got \in Nat /\ en_done \in Nat
      /\ cpc # "none" => entries_done <= file_size
  BY FetchTypes DEF QueryInv
<1>1. UNCHANGED <<file_size, buffer, entries_done, ingested>>
  BY DEF tracerVars, fileVars, Call, Poll, Fetch, Stop, FetchLock, FetchScan, FetchReturn,
         ClearDidUpdate, GetDidUpdate, PushUpdates, FetchChangesByClnum, dbVars, indexVars
<1>2. CASE Fetch
  <2>1. PICK n \in 0 .. max_clnum + 1, k \in Limits : FetchChangesByClnum(n, k)
    BY <1>2 DEF Fetch
  <2>2. n \in Nat
    BY <2>1 DEF QueryInv, ReadInv, LiveInv, TypedInv, RestTypes
  <2>3. /\ req' = n /\ en' = EntryOf(n) /\ got' = 0 /\ en_done' = entries_done /\ limit' \in Nat
        /\ cpc' = IF EntryOf(n) # 0 THEN "lock" ELSE "returned"
    BY <2>1, IngestAssumption DEF FetchChangesByClnum
  <2>4. EntryOf(n) # 0 =>
          EntryOf(n) < file_size /\ IsStart(EntryOf(n)) /\ buffer[EntryOf(n)].clnum = n
    <3> SUFFICES ASSUME EntryOf(n) # 0
                 PROVE  EntryOf(n) < file_size /\ IsStart(EntryOf(n)) /\ buffer[EntryOf(n)].clnum = n
      OBVIOUS
    <3>1. n \in 0 .. index_size - 1 /\ EntryOf(n) = clnum_to_entry_number[n]
      BY <2>2 DEF EntryOf, QueryInv, ReadInv, LiveInv, TypedInv, IngestInv, ThreadTypes
    <3> QED
      BY <3>1 DEF QueryInv, ReadInv, LiveInv, TypedInv, IngestInv, IndexPointsToStart
  <2>5. limit' # 0 => 0 <= limit'
    BY <2>3
  <2>6. Copied'
    BY <1>0, <1>1, <2>3, <2>4, <2>5 DEF Copied, IsStart
  <2>7. Stopped'
    BY <2>3 DEF Stopped
  <2> QED
    BY <2>6, <2>7
<1>3. CASE FetchScan /\ ScanGoesOn /\ got' = got + 1
  <2>1. /\ UNCHANGED <<req, limit, en, en_done>> /\ cpc = "scan" /\ cpc' = "scan"
        /\ limit = 0 \/ got < limit
        /\ en + got < entries_done
        /\ buffer[en + got].clnum = req
    BY <1>3 DEF FetchScan, ScanGoesOn
  <2>2. Copied
    BY DEF QueryInv
  <2>3. \A i \in 0 .. got' - 1 : i \in 0 .. got - 1 \/ i = got
    BY <1>0, <1>3
  <2>4. limit # 0 => got' <= limit
    BY <1>0, <1>3, <2>1
  <2>5. Copied'
    BY <1>1, <1>3, <2>1, <2>2, <2>3, <2>4 DEF Copied, IsStart
  <2> QED
    BY <2>1, <2>5 DEF Stopped
<1>4. CASE FetchScan /\ ~ScanGoesOn /\ UNCHANGED got /\ cpc' = "returned"
  <2>1. UNCHANGED <<req, limit, en, en_done>> /\ cpc = "scan"
    BY <1>4 DEF FetchScan
  <2>2. Copied'
    BY <1>1, <1>4, <2>1 DEF QueryInv, Copied, IsStart
  <2>3. ASSUME en # 0, limit = 0
        PROVE  \/ en + got >= en_done
               \/ en + got \in DOMAIN ingested /\ ingested[en + got].type = "?"
               \/ en + got < file_size /\ Complete(en + got) /\ buffer[en + got].clnum # req
    <3>1. CASE en + got >= entries_done
      BY <1>0, <3>1 DEF QueryInv, Copied
    <3>2. CASE en + got < entries_done
      <4>1. buffer[en + got].clnum # req
        BY <1>4, <2>3, <3>2 DEF ScanGoesOn
      <4>2. en + got \in DOMAIN ingested
        BY <1>0, <2>3, <3>2 DEF QueryInv, ReadInv, Reading
      <4>3. ingested[en + got].type # "?" => Complete(en + got) /\ en + got < file_size
        BY <4>2, TypedIsComplete DEF QueryInv, ReadInv, Reading, AsWritten
      <4> QED
        BY <4>1, <4>2, <4>3
    <3> QED
      BY <1>0, <3>1, <3>2
  <2>4. Stopped'
    BY <1>1, <1>4, <2>1, <2>3 DEF Stopped, Complete
  <2> QED
    BY <2>2, <2>4
<1>5. CASE FetchReturn
  BY <1>0, <1>1, <1>5 DEF FetchReturn, Copied, Stopped
<1>6. CASE /\ UNCHANGED <<req, limit, en, got, en_done>>
           /\ cpc' = cpc \/ cpc' \in {"none", "clear"} \/ (cpc = "lock" /\ cpc' = "scan")
  BY <1>1, <1>6 DEF QueryInv, Copied, Stopped, IsStart, Complete
<1> QED
  BY <1>2, <1>3, <1>4, <1>5, <1>6
     DEF Call, Poll, Stop, FetchLock, FetchScan, ClearDidUpdate, GetDidUpdate, PushUpdates, callVars

\* Where a fetch stopped it would stop again.
LEMMA StoppedStays ==
  ASSUME QueryInv, EntriesFinal, TracerTypeOK', UNCHANGED <<cpc, req, limit, en, got, en_done>>,
         \A e \in DOMAIN ingested : e \in DOMAIN ingested' /\ ingested'[e] = ingested[e]
  PROVE  Stopped'
<1>1. /\ file_size \in Nat /\ file_size' \in Nat /\ en \in Nat /\ got \in Nat /\ en_done \in Nat
  BY FetchTypes DEF QueryInv, TracerTypeOK
<1>2. file_size' >= file_size
  BY DEF EntriesFinal
<1>3. ASSUME en + got < file_size, Complete(en + got), buffer[en + got].clnum # req
      PROVE  en + got < file_size' /\ Complete(en + got)' /\ buffer'[en + got].clnum # req
  <2>1. en + got \in 0 .. file_size - 1
    BY <1>1, <1>3
  <2>2. Final(en + got)
    BY <2>1 DEF EntriesFinal
  <2>3. en + got < file_size'
    BY <1>1, <1>2, <1>3
  <2> QED
    BY <1>3, <2>2, <2>3 DEF Final, Complete
<1> QED
  BY <1>3 DEF QueryInv, Stopped, Complete

\* Every step keeps the invariant.
LEMMA QueryInvStep == QueryInv /\ [IngestNext]_vars => QueryInv'
<1> SUFFICES ASSUME QueryInv, [IngestNext]_vars PROVE QueryInv'
  OBVIOUS
<1>1. ReadInv' /\ Announced'
  BY ReadInvStep, AnnouncedStep DEF QueryInv
<1>2. EntriesFinal /\ TracerTypeOK'
  BY <1>1, IngestStepsTracer, TracerFinal DEF QueryInv, ReadInv, LogInv, TracerInv
<1>3. CASE (Call \/ Poll \/ Fetch \/ Stop) /\ UNCHANGED tracerVars
  BY <1>1, <1>3, CallCopies DEF QueryInv
<1>4. CASE Thread /\ UNCHANGED tracerVars
  <2>1. UNCHANGED <<cpc, req, limit, en, got, en_done>>
    BY <1>4 DEF Thread, ConnectToFileAndStart, LatchCount, RemapAndClamp, ReadType, Insert, PublishMax,
                PublishMinAndDone, SetDidUpdate, ThreadExit, Join, callVars
  <2>2. entries_done' = entries_done \/ entries_done' = entries_done + 1
    BY <1>4 DEF Thread, ConnectToFileAndStart, LatchCount, RemapAndClamp, ReadType, Insert, PublishMax,
                PublishMinAndDone, SetDidUpdate, ThreadExit, Join, dbVars
  <2>3. entries_done' >= entries_done
    BY <2>2, FetchTypes DEF QueryInv
  <2>4. \A e \in DOMAIN ingested : e \in DOMAIN ingested' /\ ingested'[e] = ingested[e]
    <3>1. CASE Insert
      BY <3>1, Inserted DEF QueryInv
    <3>2. CASE ~Insert
      BY <1>4, <3>2 DEF Thread, ConnectToFileAndStart, LatchCount, RemapAndClamp, ReadType, PublishMax,
                PublishMinAndDone, SetDidUpdate, ThreadExit, Join, dbVars, indexVars
    <3> QED
      BY <3>1, <3>2
  <2> QED
    BY <1>1, <1>2, <2>1, <2>3, <2>4, CopiedStays, StoppedStays DEF QueryInv
<1>5. CASE UNCHANGED <<dbVars, callVars>>
  <2>1. /\ UNCHANGED <<cpc, req, limit, en, got, en_done, ingested, entries_done>>
        /\ entries_done' >= entries_done
    BY <1>5, FetchTypes DEF QueryInv, dbVars, indexVars, callVars
  <2> QED
    BY <1>1, <1>2, <2>1, CopiedStays, StoppedStays DEF QueryInv
<1> QED
  BY <1>3, <1>4, <1>5 DEF IngestNext, vars

\* The invariant of the queries holds in every reachable state.
LEMMA QueryInvariant == IngestSpec => []QueryInv
  BY QueryInitInv, QueryInvStep, PTL DEF IngestSpec

\* No update is lost between the setter of did_update_ and GetDidUpdate's
\* read-then-clear, in any interleaving and for any clamp.
THEOREM IngestNoLostUpdate == IngestSpec => []NoLostUpdate
<1>1. QueryInv => NoLostUpdate
  BY DEF QueryInv, Announced, NoLostUpdate
<1> QED
  BY <1>1, QueryInvariant, PTL

\* FetchChangesByClnum returns entries of its clnum only, from the instruction
\* start on, within its limit, and without a limit all of those that were
\* ingested when it was called, although it looks the clnum up under one lock
\* and copies under another while the log and the indexes grow.
THEOREM IngestFetchIsExact == IngestSpec => []FetchIsExact
<1>1. QueryInv => FetchIsExact
  <2> SUFFICES ASSUME QueryInv, cpc = "returned", en # 0
               PROVE  /\ limit # 0 => got <= limit
                      /\ \A i \in 0 .. got - 1 : en + i < entries_done /\ buffer[en + i].clnum = req
                      /\ got > 0 => IsStart(en)
                      /\ (limit = 0 /\ \A e \in DOMAIN ingested : ingested[e].type # "?") =>
                           \A e \in 1 .. en_done - 1 : buffer[e].clnum = req /\ req >= StartClnum =>
                             e \in en .. en + got - 1
    BY DEF FetchIsExact
  <2>0. /\ file_size \in Nat /\ entries_done \in Nat /\ entries_done <= file_size
        /\ req \in Nat /\ en \in Nat /\ got \in Nat /\ en_done \in Nat
    BY FetchTypes DEF QueryInv
  <2>1. /\ en < file_size /\ IsStart(en) /\ buffer[en].clnum = req
        /\ limit # 0 => got <= limit
        /\ \A i \in 0 .. got - 1 : en + i < entries_done /\ buffer[en + i].clnum = req
        /\ en_done <= entries_done
    BY DEF QueryInv, Copied
  <2>2. ASSUME limit = 0, \A e \in DOMAIN ingested : ingested[e].type # "?",
               NEW e \in 1 .. en_done - 1, buffer[e].clnum = req
        PROVE  e \in en .. en + got - 1
    <3>1. e \in DOMAIN ingested /\ e \in Nat /\ e \in 1 .. file_size - 1
      BY <2>0, <2>1 DEF QueryInv, ReadInv, Reading
    <3>2. Complete(e) /\ Complete(en) /\ en \in 1 .. file_size - 1
      BY <2>0, <2>1, <2>2, <3>1, TypedIsComplete DEF QueryInv, ReadInv, AsWritten, IsStart, Complete
    <3>3. LogOrdered
      BY DEF QueryInv, ReadInv, LogInv, TracerInv
    <3>4. ~(e < en)
      BY <2>0, <2>1, <2>2, <3>1, <3>2, <3>3 DEF LogOrdered
    <3>5. ~(e >= en + got)
      <4> SUFFICES ASSUME e >= en + got PROVE FALSE
        OBVIOUS
      <4>1. /\ en + got < file_size /\ Complete(en + got)
            /\ buffer[en + got].clnum # req
        BY <2>0, <2>2 DEF QueryInv, Stopped
      <4>2. en + got # e /\ en + got # en
        BY <2>1, <2>2, <4>1
      <4>3. en < en + got /\ en + got < e /\ en + got \in 1 .. file_size - 1
        BY <2>0, <3>1, <3>2, <4>1, <4>2
      <4>4. buffer[en].clnum <= buffer[en + got].clnum /\ buffer[en + got].clnum <= buffer[e].clnum
        BY <3>1, <3>2, <3>3, <4>1, <4>3 DEF LogOrdered
      <4>5. buffer[en + got].clnum \in Nat
        BY <2>0, <4>3, EntryTypes DEF QueryInv, ReadInv, LogInv, TracerInv
      <4> QED
        BY <2>0, <2>1, <2>2, <4>1, <4>4, <4>5
    <3> QED
      BY <2>0, <3>1, <3>4, <3>5
  <2> QED
    BY <2>1, <2>2
<1> QED
  BY <1>1, QueryInvariant, PTL

-----------------------------------------------------------------------------
(* Maximum of a bounded set.                                               *)

\* A set of naturals has a least element.
LEMMA LeastNat ==
  ASSUME NEW T \in SUBSET Nat, T # {}
  PROVE  \E x \in T : \A y \in T : x <= y
<1> DEFINE R == {ss \in Nat \X Nat : ss[1] < ss[2]}
<1>1. IsWellFoundedOn(R, Nat)
  BY NatLessThanWellFounded DEF OpToRel
<1>2. \A x, y \in Nat : <<y, x>> \in R <=> y < x
  OBVIOUS
<1> HIDE DEF R
<1>3. PICK x \in T : \A y \in T : ~(<<y, x>> \in R)
  BY <1>1, WFMin
<1>4. \A y \in T : ~(y < x)
  BY <1>2, <1>3
<1> QED
  BY <1>4

\* Max is the element no other exceeds.
LEMMA MaxIs ==
  ASSUME NEW S \in SUBSET Nat, NEW m \in S, \A y \in S : m >= y
  PROVE  Max(S) = m
<1>1. \A x \in S : (\A y \in S : x >= y) => x = m
  OBVIOUS
<1> QED
  BY <1>1 DEF Max

\* A bounded set of naturals that is not empty has its maximum in it.
LEMMA BoundedMax ==
  ASSUME NEW S \in SUBSET Nat, S # {}, NEW n \in Nat, \A y \in S : y <= n
  PROVE  Max(S) \in S /\ \A y \in S : y <= Max(S)
<1> DEFINE T == {b \in Nat : \A y \in S : y <= b}
<1>1. T \in SUBSET Nat /\ n \in T
  OBVIOUS
<1>2. PICK b \in T : \A x \in T : b <= x
  BY <1>1, LeastNat
<1>3. b \in S
  <2> SUFFICES ASSUME b \notin S PROVE FALSE
    OBVIOUS
  <2>1. \A y \in S : y < b
    BY <1>2
  <2>2. PICK y \in S : TRUE
    OBVIOUS
  <2>3. b - 1 \in Nat /\ \A z \in S : z <= b - 1
    BY <1>2, <2>1, <2>2
  <2>4. b - 1 \in T
    BY <2>3
  <2> QED
    BY <1>2, <2>4
<1>4. \A y \in S : b >= y
  BY <1>2
<1>5. Max(S) = b
  BY <1>3, <1>4, MaxIs
<1> QED
  BY <1>3, <1>4, <1>5

-----------------------------------------------------------------------------
(* A map from clnums to values that is filled in log order.                *)

\* The map holds, for every clnum of an entry of E, the value of the last one:
\* C and V are the entries' clnums and values.
CellOK(cell, E, C, V) ==
  /\ DOMAIN cell = {C[e] : e \in E}
  /\ \A k \in DOMAIN cell :
       \E e \in E : C[e] = k /\ V[e] = cell[k] /\ \A f \in E : C[f] = k => f <= e

\* Entries in the order of their clnums.
InOrder(E, C) ==
  /\ E \in SUBSET Nat
  /\ \A e \in E : C[e] \in Nat
  /\ \A e, f \in E : e < f => C[e] <= C[f]

\* The clnums of a cell up to n, the entries up to clnum n.
KeysTo(cell, n) == {k \in DOMAIN cell : k <= n}
EntriesTo(E, C, n) == {e \in E : C[e] <= n}

\* The value at the last clnum up to n is the value of the last entry up to n.
LEMMA CellLookup ==
  ASSUME NEW E, NEW C, NEW V, NEW cell, NEW n \in Nat, CellOK(cell, E, C, V), InOrder(E, C)
  PROVE  /\ KeysTo(cell, n) = {} <=> EntriesTo(E, C, n) = {}
         /\ KeysTo(cell, n) # {} =>
              /\ cell[Max(KeysTo(cell, n))] = V[Max(EntriesTo(E, C, n))]
              /\ Max(EntriesTo(E, C, n)) \in E
<1> DEFINE K  == {k \in DOMAIN cell : k <= n}
           EE == {e \in E : C[e] <= n}
<1>0. /\ E \in SUBSET Nat
      /\ \A e \in E : C[e] \in Nat
      /\ \A e, f \in E : e < f => C[e] <= C[f]
  BY DEF InOrder
<1>1. DOMAIN cell = {C[e] : e \in E}
  BY DEF CellOK
<1>2. K = {} <=> EE = {}
  BY <1>1
<1>3. ASSUME K # {} PROVE cell[Max(K)] = V[Max(EE)] /\ Max(EE) \in E
  <2>1. K \in SUBSET Nat
    BY <1>0, <1>1
  <2>2. \A k \in K : k <= n
    OBVIOUS
  <2> DEFINE m == Max(K)
  <2>3. m \in K /\ \A k \in K : k <= m
    BY <1>3, <2>1, <2>2, BoundedMax
  <2> HIDE DEF m
  <2>4. m \in DOMAIN cell /\ m \in Nat
    BY <2>1, <2>3
  <2>5. PICK e \in E : C[e] = m /\ V[e] = cell[m] /\ \A f \in E : C[f] = m => f <= e
    BY <2>4 DEF CellOK
  <2>6. e \in EE
    BY <2>3, <2>5
  <2>7. ASSUME NEW f \in EE PROVE e >= f
    <3>1. C[f] <= m /\ C[f] \in Nat
      BY <1>0, <1>1, <2>3
    <3>2. CASE e < f
      <4>1. C[f] = m
        BY <1>0, <2>4, <2>5, <3>1, <3>2
      <4> QED
        BY <2>5, <4>1
    <3> QED
      BY <1>0, <3>2
  <2>8. EE \in SUBSET Nat
    BY <1>0
  <2>9. Max(EE) = e
    BY <2>6, <2>7, <2>8, MaxIs
  <2> QED
    BY <2>5, <2>9 DEF m
<1> QED
  BY <1>2, <1>3 DEF KeysTo, EntriesTo

\* The entry e0 comes behind those of E, with clnum k0 and value v0.
Appends(E, C, V, e0, k0, v0, C2, V2) ==
  /\ E \in SUBSET Nat /\ e0 \in Nat
  /\ \A e \in E : e < e0 /\ C2[e] = C[e] /\ V2[e] = V[e]
  /\ C2[e0] = k0 /\ V2[e0] = v0

\* Putting the value of an entry behind all others.
LEMMA CellPut ==
  ASSUME NEW E, NEW C, NEW V, NEW e0, NEW k0, NEW v0, NEW C2, NEW V2, NEW cell,
         Appends(E, C, V, e0, k0, v0, C2, V2), CellOK(cell, E, C, V)
  PROVE  CellOK(Put(cell, k0, v0), E \cup {e0}, C2, V2)
<1> DEFINE new == Put(cell, k0, v0)
<1>0. /\ E \in SUBSET Nat /\ e0 \in Nat
      /\ \A e \in E : e < e0 /\ C2[e] = C[e] /\ V2[e] = V[e]
      /\ C2[e0] = k0 /\ V2[e0] = v0
  BY DEF Appends
<1>1. /\ DOMAIN new = DOMAIN cell \cup {k0}
      /\ new[k0] = v0
      /\ \A k \in DOMAIN cell : k # k0 => new[k] = cell[k]
  BY DEF Put
<1> HIDE DEF new
<1>2. DOMAIN new = {C2[e] : e \in E \cup {e0}}
  BY <1>0, <1>1 DEF CellOK
<1>3. ASSUME NEW k \in DOMAIN new
      PROVE  \E e \in E \cup {e0} : /\ C2[e] = k /\ V2[e] = new[k]
                                    /\ \A f \in E \cup {e0} : C2[f] = k => f <= e
  <2>1. CASE k = k0
    <3>1. \A f \in E : f <= e0
      <4> SUFFICES ASSUME NEW f \in E PROVE f <= e0
        OBVIOUS
      <4>1. f \in Nat /\ f < e0 /\ e0 \in Nat
        BY <1>0
      <4> QED
        BY <4>1
    <3>2. \A f \in E \cup {e0} : f <= e0
      BY <1>0, <3>1
    <3> QED
      BY <1>0, <1>1, <2>1, <3>2
  <2>2. CASE k # k0
    <3>1. k \in DOMAIN cell /\ new[k] = cell[k]
      BY <1>1, <1>3, <2>2
    <3>2. PICK e \in E : C[e] = k /\ V[e] = cell[k] /\ \A f \in E : C[f] = k => f <= e
      BY <3>1 DEF CellOK
    <3> QED
      BY <1>0, <2>2, <3>1, <3>2
  <2> QED
    BY <2>1, <2>2
<1> QED
  BY <1>2, <1>3 DEF CellOK, new

\* A map that holds nothing yet.
LEMMA CellEmpty ==
  ASSUME NEW C, NEW V, NEW E, E = {}
  PROVE  CellOK([n \in {} |-> 0], E, C, V)
  BY DEF CellOK

\* Only the entries of the map matter.
LEMMA CellSame ==
  ASSUME NEW E, NEW C, NEW V, NEW C2, NEW V2, NEW cell,
         \A e \in E : C2[e] = C[e] /\ V2[e] = V[e],
         CellOK(cell, E, C, V)
  PROVE  CellOK(cell, E, C2, V2)
  BY DEF CellOK

\* A value put at a clnum above n leaves what is looked up at n.
LEMMA PutAbove ==
  ASSUME NEW cell, DOMAIN cell \subseteq Nat, NEW n \in Nat, NEW m \in Nat, n < m, NEW v
  PROVE  /\ KeysTo(Put(cell, m, v), n) = KeysTo(cell, n)
         /\ KeysTo(cell, n) # {} =>
              Put(cell, m, v)[Max(KeysTo(cell, n))] = cell[Max(KeysTo(cell, n))]
<1> DEFINE K == {k \in DOMAIN cell : k <= n}
<1>1. {k \in DOMAIN Put(cell, m, v) : k <= n} = K
  BY DEF Put
<1>2. ASSUME K # {} PROVE Put(cell, m, v)[Max(K)] = cell[Max(K)]
  <2>1. Max(K) \in K
    BY <1>2, BoundedMax
  <2> HIDE DEF K
  <2>2. Max(K) \in DOMAIN cell /\ Max(K) # m
    BY <2>1 DEF K
  <2> QED
    BY <2>2 DEF Put
<1> QED
  BY <1>1, <1>2 DEF KeysTo

-----------------------------------------------------------------------------
(* Nothing that is still to be ingested is behind the published maximum.   *)

MaxBehind ==
  \A f \in 1 .. file_size - 1 :
    (f >= entries_done /\ Complete(f)) => max_clnum <= buffer[f].clnum

\* The types these proofs need of the published range and the file.
LEMMA StateTypes ==
  ASSUME ReadInv
  PROVE  /\ file_size \in Nat /\ entries_done \in Nat /\ entries_done >= 1
         /\ max_clnum \in Nat /\ change_count \in Nat /\ changelist_number \in Nat
         /\ max_clnum <= changelist_number
         /\ \A e \in 0 .. file_size - 1 : buffer[e] \in Change
  BY DEF ReadInv, LiveInv, TypedInv, RestTypes, IngestInv, ThreadTypes, Window, TracerInv, TracerTypeOK

\* The tracer completes entries at or above its clnum only.
LEMMA TracerKeepsMaxBehind ==
  ASSUME ReadInv, MaxBehind, EntriesFinal, [TracerNext]_tracerVars, TracerTypeOK',
         UNCHANGED dbVars
  PROVE  MaxBehind'
<1>0. UNCHANGED <<max_clnum, entries_done>>
  BY DEF dbVars
<1>1. /\ file_size \in Nat /\ file_size' \in Nat /\ max_clnum \in Nat /\ max_clnum <= changelist_number
      /\ TracerInv /\ entries_done \in Nat
  BY StateTypes DEF TracerTypeOK, ReadInv, LogInv
<1> SUFFICES ASSUME NEW f \in 1 .. file_size' - 1, f >= entries_done, Complete(f)'
             PROVE  max_clnum <= buffer'[f].clnum
  BY <1>0 DEF MaxBehind
<1>2. CASE f < file_size /\ Complete(f)
  <2>1. f \in 0 .. file_size - 1 /\ f \in 1 .. file_size - 1
    BY <1>1, <1>2
  <2>2. buffer'[f].clnum = buffer[f].clnum
    BY <1>2, <2>1 DEF EntriesFinal, Final
  <2> QED
    BY <1>2, <2>1, <2>2 DEF MaxBehind
<1>3. CASE ~(f < file_size /\ Complete(f))
  <2>1. CASE UNCHANGED <<file_size, buffer>>
    BY <1>1, <1>3, <2>1 DEF Complete
  <2>2. CASE CreateLog \/ DoubleBuffer
    <3>1. /\ \A e \in 0 .. file_size - 1 : buffer'[e] = buffer[e]
          /\ \A e \in 0 .. file_size' - 1 : e >= file_size => buffer'[e] = ZeroChange
      BY <1>1, <2>2, FileDoubles
    <3>2. f \in 0 .. file_size' - 1
      <4>1. PICK s \in Nat : s = file_size'
        BY <1>1
      <4>2. f \in 1 .. s - 1
        BY <4>1
      <4>3. f \in 0 .. s - 1
        BY <4>2
      <4> QED
        BY <4>1, <4>3
    <3>3. f < file_size => f \in 0 .. file_size - 1
      BY <1>1
    <3>4. f >= file_size
      BY <1>1, <1>3, <3>1, <3>3 DEF Complete
    <3>5. buffer'[f].flags = {}
      BY <3>1, <3>2, <3>4 DEF ZeroChange
    <3> QED
      BY <3>5 DEF Complete
  <2>3. CASE WriteAddressAndData \/ WriteClnum \/ WriteFlags \/ \E d \in Data : SegmentData(d)
    <3>1. /\ file_size' = file_size /\ cc \in 0 .. file_size - 1
          /\ \A e \in 0 .. file_size - 1 : e # cc => buffer'[e] = buffer[e]
          /\ buffer'[cc].clnum = IF tpc = "clnum" THEN changelist_number ELSE buffer[cc].clnum
          /\ buffer'[cc].flags = IF tpc = "flags" THEN cur.flags ELSE buffer[cc].flags
      BY <1>1, <2>3, EntryStored
    <3>2. f \in 0 .. file_size - 1 /\ f < file_size
      BY <1>1, <3>1
    <3>3. f = cc /\ tpc = "flags"
      BY <1>3, <3>1, <3>2 DEF Complete
    <3>4. buffer'[f].clnum = changelist_number
      BY <1>1, <3>1, <3>3 DEF TracerInv, Behind
    <3> QED
      BY <1>1, <3>4
  <2> QED
    <3>1. CASE UNCHANGED tracerVars
      BY <2>1, <3>1 DEF tracerVars, fileVars
    <3>2. CASE TracerNext
      BY <1>1, <2>1, <2>2, <2>3, <3>2, StepsOfLog DEF Claims, WriteHeader
    <3> QED
      BY <3>1, <3>2
<1> QED
  BY <1>2, <1>3

\* An entry behind a valid one is valid: entries become valid in order.
LEMMA ValidInOrder ==
  ASSUME ReadInv, NEW e \in 1 .. file_size - 1, NEW f \in 1 .. file_size - 1, e < f, Complete(f)
  PROVE  Complete(e)
<1>1. file_size \in Nat /\ change_count \in Nat /\ f \in 0 .. file_size - 1
  BY StateTypes
<1>2. f < change_count
  BY <1>1 DEF ReadInv, LogInv, TracerInv, Unwritten, Complete
<1>3. e \in 1 .. change_count - 1 /\ e < change_count - 1
  BY <1>1, <1>2
<1> QED
  BY <1>3 DEF ReadInv, LogInv, Filled

\* The thread publishes the clnum of the entry it is on, and goes on to the next.
LEMMA ThreadKeepsMaxBehind ==
  ASSUME ReadInv, MaxBehind, Thread, UNCHANGED tracerVars
  PROVE  MaxBehind'
<1>0. UNCHANGED <<file_size, buffer>>
  BY DEF tracerVars, fileVars
<1>1. file_size \in Nat /\ entries_done \in Nat /\ entries_done >= 1 /\ max_clnum \in Nat
  BY StateTypes
<1>2. CASE PublishMax
  <2>1. /\ UNCHANGED entries_done
        /\ max_clnum' = max_clnum \/ max_clnum' = buffer[entries_done].clnum
        /\ dpc = "max"
    BY <1>2 DEF PublishMax, UpdateMax
  <2>2. entries_done \in 1 .. file_size - 1 /\ entries_done \in 0 .. file_size - 1
    BY <1>1, <2>1, CurrentEntry DEF ReadInv, LiveInv, TypedInv
  <2>3. buffer[entries_done].clnum \in Nat
    BY <2>2, EntryTypes DEF ReadInv, LogInv, TracerInv
  <2> SUFFICES ASSUME NEW f \in 1 .. file_size - 1, f >= entries_done, Complete(f)
               PROVE  max_clnum' <= buffer[f].clnum
    BY <1>0, <2>1 DEF MaxBehind, Complete
  <2>4. max_clnum <= buffer[f].clnum
    BY DEF MaxBehind
  <2>5. buffer[entries_done].clnum <= buffer[f].clnum
    <3>1. CASE f = entries_done
      BY <2>3, <3>1
    <3>2. CASE entries_done < f
      <4>1. Complete(entries_done)
        BY <2>2, <3>2, ValidInOrder
      <4> QED
        BY <2>2, <3>2, <4>1 DEF ReadInv, LogInv, TracerInv, LogOrdered
    <3> QED
      BY <1>1, <3>1, <3>2
  <2> QED
    BY <2>1, <2>4, <2>5
<1>3. CASE UNCHANGED max_clnum /\ (entries_done' = entries_done \/ entries_done' = entries_done + 1)
  <2>1. \A f \in 1 .. file_size - 1 : f >= entries_done' => f >= entries_done
    BY <1>1, <1>3
  <2> QED
    BY <1>0, <1>3, <2>1 DEF MaxBehind, Complete
<1> QED
  BY <1>2, <1>3 DEF Thread, ConnectToFileAndStart, LatchCount, RemapAndClamp, ReadType, Insert,
                    PublishMinAndDone, SetDidUpdate, ThreadExit, Join, dbVars

-----------------------------------------------------------------------------
(* The cells of registers and memory hold what was ingested.               *)

\* Per ingested entry: its clnum, its data, and the byte it has at address a.
Clnums == [e \in DOMAIN ingested |-> ingested[e].c.clnum]
Datas == [e \in DOMAIN ingested |-> ingested[e].c.data]
BytesAt(a) == [e \in DOMAIN ingested |-> ByteOf(ingested[e].c, a - ingested[e].c.address)]

\* The ingested writes of register r, the ingested accesses to address a.
RegEntries(r) == {e \in Ingested({"W"}) : ingested[e].c.address \div RegisterSize = r}
MemEntries(a) == {e \in Ingested({"L", "S"}) : a \in Span(ingested[e].c)}

RegCells ==
  \A r \in 0 .. RegisterCount - 1 : CellOK(registers[r], RegEntries(r), Clnums, Datas)

MemCells ==
  /\ \A e \in Ingested({"L", "S"}) : Span(ingested[e].c) \subseteq DOMAIN memory
  /\ \A a \in DOMAIN memory : CellOK(memory[a], MemEntries(a), Clnums, BytesAt(a))

StateInv == ReadInv /\ MaxBehind /\ RegCells /\ MemCells

\* What was ingested under a type is in log order.
LEMMA IngestedOrdered ==
  ASSUME ReadInv
  PROVE  /\ DOMAIN ingested \subseteq Nat
         /\ \A e \in DOMAIN ingested : ingested[e].type # "?" => Clnums[e] \in Nat
         /\ \A e, f \in DOMAIN ingested :
              (e < f /\ ingested[e].type # "?" /\ ingested[f].type # "?") => Clnums[e] <= Clnums[f]
<1>0. file_size \in Nat /\ entries_done \in Nat
  BY StateTypes
<1>1. DOMAIN ingested \subseteq Nat
  BY <1>0 DEF ReadInv, Reading
<1>2. ASSUME NEW e \in DOMAIN ingested, ingested[e].type # "?"
      PROVE  /\ e \in 1 .. file_size - 1
             /\ Complete(e) /\ Clnums[e] = buffer[e].clnum /\ Clnums[e] \in Nat
  <2>1. e < file_size /\ e >= 1 /\ e \in Nat
    BY <1>0 DEF ReadInv, Reading
  <2>2. e \in 0 .. file_size - 1 /\ e \in 1 .. file_size - 1
    BY <1>0, <2>1
  <2>3. AsWritten(e)
    BY DEF ReadInv
  <2>4. Complete(e) /\ Clnums[e] = buffer[e].clnum
    BY <1>2, <2>3, TypedIsComplete DEF AsWritten, Clnums
  <2> QED
    BY <2>2, <2>4, EntryTypes DEF ReadInv, LogInv, TracerInv
<1>3. ASSUME NEW e \in DOMAIN ingested, NEW f \in DOMAIN ingested, e < f,
             ingested[e].type # "?", ingested[f].type # "?"
      PROVE  Clnums[e] <= Clnums[f]
  BY <1>2, <1>3 DEF ReadInv, LogInv, TracerInv, LogOrdered
<1> QED
  BY <1>1, <1>2, <1>3

\* What Insert adds to the history.
LEMMA InsertedCells ==
  ASSUME ReadInv, Insert
  PROVE  /\ entries_done \in Nat /\ \A e \in DOMAIN ingested : e < entries_done
         /\ buffer[entries_done] \in Change
         /\ InsertEntry(entries_done, buffer[entries_done], type)
         /\ Clnums'[entries_done] = buffer[entries_done].clnum
         /\ Datas'[entries_done] = buffer[entries_done].data
         /\ \A e \in DOMAIN ingested : Clnums'[e] = Clnums[e] /\ Datas'[e] = Datas[e]
         /\ \A a : \A e \in DOMAIN ingested : BytesAt(a)'[e] = BytesAt(a)[e]
         /\ \A a : BytesAt(a)'[entries_done]
                     = ByteOf(buffer[entries_done], a - buffer[entries_done].address)
<1>1. /\ entries_done \in 1 .. file_size - 1 /\ file_size \in Nat
      /\ DOMAIN ingested' = DOMAIN ingested \cup {entries_done}
      /\ ingested'[entries_done].c = buffer[entries_done]
      /\ \A x \in DOMAIN ingested : ingested'[x] = ingested[x]
  BY Inserted, StateTypes
<1>2. dpc = "insert" /\ InsertEntry(entries_done, buffer[entries_done], type)
  BY DEF Insert
<1>3. DOMAIN ingested = 1 .. entries_done - 1 /\ entries_done \in Nat
  BY <1>2, StateTypes DEF ReadInv, Reading
<1>4. \A e \in DOMAIN ingested : e < entries_done
  BY <1>3
<1>5. buffer[entries_done] \in Change
  BY <1>1, StateTypes
<1>6. /\ Clnums'[entries_done] = buffer[entries_done].clnum
      /\ Datas'[entries_done] = buffer[entries_done].data
      /\ \A e \in DOMAIN ingested : Clnums'[e] = Clnums[e] /\ Datas'[e] = Datas[e]
  BY <1>1 DEF Clnums, Datas
<1>7. ASSUME NEW a
      PROVE  /\ \A e \in DOMAIN ingested : BytesAt(a)'[e] = BytesAt(a)[e]
             /\ BytesAt(a)'[entries_done]
                  = ByteOf(buffer[entries_done], a - buffer[entries_done].address)
  BY <1>1 DEF BytesAt
<1> QED
  BY <1>2, <1>3, <1>4, <1>5, <1>6, <1>7

\* A write of a register is put in that register's cell and in no other.
LEMMA InsertKeepsRegCells ==
  ASSUME ReadInv, RegCells, Insert
  PROVE  RegCells'
<1> DEFINE e0 == entries_done
           c0 == buffer[entries_done]
<1>0. /\ e0 \in Nat /\ c0 \in Change /\ InsertEntry(e0, c0, type)
      /\ \A e \in DOMAIN ingested : e < e0
      /\ Clnums'[e0] = c0.clnum /\ Datas'[e0] = c0.data
      /\ \A e \in DOMAIN ingested : Clnums'[e] = Clnums[e] /\ Datas'[e] = Datas[e]
  BY InsertedCells
<1>1. DOMAIN ingested \subseteq Nat
  BY IngestedOrdered
<1> SUFFICES ASSUME NEW r \in 0 .. RegisterCount - 1
             PROVE  CellOK(registers'[r], RegEntries(r)', Clnums', Datas')
  BY DEF RegCells
<1>2. RegEntries(r)' = IF type = "W" /\ c0.address \div RegisterSize = r
                       THEN RegEntries(r) \cup {e0} ELSE RegEntries(r)
  <2>1. Ingested({"W"})' = IF type = "W" THEN Ingested({"W"}) \cup {e0} ELSE Ingested({"W"})
    BY InsertedTypes
  <2>2. /\ ingested'[e0].c = c0
        /\ \A e \in Ingested({"W"}) : ingested'[e] = ingested[e] /\ e # e0
    BY Inserted DEF Ingested
  <2> QED
    BY <2>1, <2>2 DEF RegEntries
<1>3. RegEntries(r) \subseteq DOMAIN ingested
  BY DEF RegEntries, Ingested
<1>4. CellOK(registers[r], RegEntries(r), Clnums, Datas)
  BY DEF RegCells
<1>5. CASE type = "W" /\ c0.address \div RegisterSize = r
  <2>1. c0.address < RegisterSize * RegisterCount
    <3>1. c0.address \in Nat /\ RegisterSize \in Nat \ {0} /\ RegisterCount \in Nat
      BY <1>0, TraceDBAssumption DEF Change, TraceDBAssumption
    <3>2. c0.address \div RegisterSize < RegisterCount
      BY <1>5, <3>1
    <3> QED
      BY <3>1, <3>2
  <2>2. registers'[r] = Put(registers[r], c0.clnum, c0.data)
    <3>1. registers' = [registers EXCEPT ![c0.address \div RegisterSize] = Put(@, c0.clnum, c0.data)]
      BY <1>0, <1>5, <2>1 DEF InsertEntry
    <3>2. r \in DOMAIN registers
      BY DEF ReadInv, LiveInv, TypedInv, MapTypes
    <3> QED
      BY <1>5, <3>1, <3>2
  <2>3. RegEntries(r) \in SUBSET Nat /\ \A e \in RegEntries(r) : e < e0
    BY <1>0, <1>1, <1>3
  <2>4. \A e \in RegEntries(r) : Clnums'[e] = Clnums[e] /\ Datas'[e] = Datas[e]
    BY <1>0, <1>3
  <2>5. CellOK(Put(registers[r], c0.clnum, c0.data), RegEntries(r) \cup {e0}, Clnums', Datas')
    <3> HIDE DEF e0, c0
    <3>1. /\ e0 \in Nat /\ Clnums'[e0] = c0.clnum /\ Datas'[e0] = c0.data
          /\ \A e \in RegEntries(r) : e < e0
      BY <1>0, <2>3
    <3>2. Appends(RegEntries(r), Clnums, Datas, e0, c0.clnum, c0.data, Clnums', Datas')
      BY <2>3, <2>4, <3>1 DEF Appends
    <3> QED
      BY <1>4, <3>2, CellPut
  <2> QED
    BY <1>0, <1>2, <1>5, <2>2, <2>5
<1>6. CASE ~(type = "W" /\ c0.address \div RegisterSize = r)
  <2>1. registers'[r] = registers[r]
    BY <1>0, <1>6 DEF InsertEntry
  <2>2. \A e \in RegEntries(r) : Clnums'[e] = Clnums[e] /\ Datas'[e] = Datas[e]
    BY <1>0, <1>3
  <2>3. CellOK(registers[r], RegEntries(r), Clnums', Datas')
    BY <1>4, <2>2, CellSame
  <2> QED
    BY <1>2, <1>6, <2>1, <2>3
<1> QED
  BY <1>5, <1>6

\* An access to memory is put in the cell of every byte it spans.
LEMMA InsertKeepsMemCells ==
  ASSUME ReadInv, MemCells, Insert
  PROVE  MemCells'
<1> DEFINE e0 == entries_done
           c0 == buffer[entries_done]
           LS == {"L", "S"}
           empty == [n \in {} |-> 0]
<1>0. /\ e0 \in Nat /\ c0 \in Change /\ InsertEntry(e0, c0, type)
      /\ \A e \in DOMAIN ingested : e < e0
      /\ Clnums'[e0] = c0.clnum
      /\ \A e \in DOMAIN ingested : Clnums'[e] = Clnums[e]
  BY InsertedCells
<1>1. DOMAIN ingested \subseteq Nat
  BY IngestedOrdered
<1>2. Ingested(LS)' = IF type \in LS THEN Ingested(LS) \cup {e0} ELSE Ingested(LS)
  BY InsertedTypes
<1>3. /\ ingested'[e0].c = c0
      /\ \A e \in Ingested(LS) : ingested'[e] = ingested[e] /\ e # e0
  BY Inserted DEF Ingested
<1>4. memory' = IF type \in LS THEN CommitMemory(c0) ELSE memory
  BY <1>0 DEF InsertEntry
<1>5. /\ \A e \in Ingested(LS) : Span(ingested[e].c) \subseteq DOMAIN memory
      /\ \A a \in DOMAIN memory : CellOK(memory[a], MemEntries(a), Clnums, BytesAt(a))
  BY DEF MemCells
<1>6. \A a : MemEntries(a) \subseteq DOMAIN ingested
  BY DEF MemEntries, Ingested
<1>7. DOMAIN memory' = IF type \in LS THEN DOMAIN memory \cup Span(c0) ELSE DOMAIN memory
  BY <1>4 DEF CommitMemory
<1>8. ASSUME NEW e \in Ingested(LS)' PROVE Span(ingested'[e].c) \subseteq DOMAIN memory'
  <2>1. CASE e \in Ingested(LS)
    BY <1>3, <1>5, <1>7, <2>1
  <2>2. CASE e \notin Ingested(LS)
    BY <1>2, <1>3, <1>7, <1>8, <2>2
  <2> QED
    BY <2>1, <2>2
<1>9. ASSUME NEW a \in DOMAIN memory'
      PROVE  CellOK(memory'[a], MemEntries(a)', Clnums', BytesAt(a)')
  <2>1. MemEntries(a)' = IF type \in LS /\ a \in Span(c0)
                         THEN MemEntries(a) \cup {e0} ELSE MemEntries(a)
    BY <1>2, <1>3 DEF MemEntries
  <2>2. /\ MemEntries(a) \in SUBSET Nat
        /\ \A e \in MemEntries(a) : /\ e < e0 /\ Clnums'[e] = Clnums[e]
                                    /\ BytesAt(a)'[e] = BytesAt(a)[e]
    BY <1>0, <1>1, <1>6, InsertedCells
  <2>3. CASE type \in LS /\ a \in Span(c0)
    <3> DEFINE v0 == ByteOf(c0, a - c0.address)
               old == Get(memory, a, empty)
    <3>1. memory'[a] = Put(old, c0.clnum, v0)
      BY <1>4, <2>3 DEF CommitMemory
    <3>2. CellOK(old, MemEntries(a), Clnums, BytesAt(a))
      <4>1. CASE a \in DOMAIN memory
        BY <1>5, <4>1 DEF Get
      <4>2. CASE a \notin DOMAIN memory
        <5>1. MemEntries(a) = {}
          BY <1>5, <4>2 DEF MemEntries
        <5>2. CellOK(empty, MemEntries(a), Clnums, BytesAt(a))
          BY <5>1, CellEmpty
        <5> QED
          BY <4>2, <5>2 DEF Get
      <4> QED
        BY <4>1, <4>2
    <3>3. BytesAt(a)'[e0] = v0
      BY InsertedCells
    <3> HIDE DEF e0, c0, v0, old
    <3>4. Appends(MemEntries(a), Clnums, BytesAt(a), e0, c0.clnum, v0, Clnums', BytesAt(a)')
      BY <1>0, <2>2, <3>3 DEF Appends
    <3>5. CellOK(Put(old, c0.clnum, v0), MemEntries(a) \cup {e0}, Clnums', BytesAt(a)')
      BY <3>2, <3>4, CellPut
    <3> QED
      BY <2>1, <2>3, <3>1, <3>5
  <2>4. CASE ~(type \in LS /\ a \in Span(c0))
    <3>1. a \in DOMAIN memory /\ memory'[a] = memory[a]
      BY <1>4, <1>7, <1>9, <2>4 DEF CommitMemory
    <3>2. CellOK(memory[a], MemEntries(a), Clnums, BytesAt(a))
      BY <1>5, <3>1
    <3>3. CellOK(memory[a], MemEntries(a), Clnums', BytesAt(a)')
      BY <2>2, <3>2, CellSame
    <3> QED
      BY <2>1, <2>4, <3>1, <3>3
  <2> QED
    BY <2>3, <2>4
<1> QED
  BY <1>8, <1>9 DEF MemCells

\* Nothing has been ingested yet.
LEMMA StateInitInv == IngestInit => StateInv
<1> SUFFICES ASSUME IngestInit PROVE StateInv
  OBVIOUS
<1>1. /\ DOMAIN ingested = {} /\ DOMAIN memory = {} /\ max_clnum = 0 /\ entries_done = 1
      /\ registers = [r \in 0 .. RegisterCount - 1 |-> [n \in {} |-> 0]]
      /\ file_size = 0
  BY DEF IngestInit, DBInit, TracerInit
<1>2. MaxBehind
  BY <1>1 DEF MaxBehind
<1>3. Ingested({"L", "S"}) = {} /\ \A r : RegEntries(r) = {}
  BY <1>1 DEF Ingested, RegEntries
<1>4. RegCells
  <2> SUFFICES ASSUME NEW r \in 0 .. RegisterCount - 1
               PROVE  CellOK(registers[r], RegEntries(r), Clnums, Datas)
    BY DEF RegCells
  <2>1. registers[r] = [n \in {} |-> 0] /\ RegEntries(r) = {}
    BY <1>1, <1>3
  <2> QED
    BY <2>1, CellEmpty
<1>5. MemCells
  BY <1>1, <1>3 DEF MemCells
<1> QED
  BY <1>2, <1>4, <1>5, ReadInitInv DEF StateInv

\* Every step keeps the cells.
LEMMA StateInvStep == StateInv /\ [IngestNext]_vars => StateInv'
<1> SUFFICES ASSUME StateInv, [IngestNext]_vars PROVE StateInv'
  OBVIOUS
<1>1. ReadInv /\ ReadInv' /\ [TracerNext]_tracerVars
  BY ReadInvStep, IngestStepsTracer DEF StateInv
<1>2. EntriesFinal /\ TracerTypeOK'
  BY <1>1, TracerFinal DEF ReadInv, LogInv, TracerInv
<1>3. CASE UNCHANGED dbVars
  <2>1. MaxBehind'
    BY <1>1, <1>2, <1>3, TracerKeepsMaxBehind DEF StateInv
  <2>2. UNCHANGED <<ingested, registers, memory>>
    BY <1>3 DEF dbVars, indexVars
  <2>3. RegCells' /\ MemCells'
    BY <2>2 DEF StateInv, RegCells, MemCells, Clnums, Datas, BytesAt, RegEntries, MemEntries, Ingested
  <2> QED
    BY <1>1, <2>1, <2>3 DEF StateInv
<1>4. CASE Thread /\ UNCHANGED tracerVars
  <2>1. MaxBehind'
    BY <1>1, <1>4, ThreadKeepsMaxBehind DEF StateInv
  <2>2. RegCells' /\ MemCells'
    <3>1. CASE Insert
      BY <1>1, <3>1, InsertKeepsRegCells, InsertKeepsMemCells DEF StateInv
    <3>2. CASE ~Insert
      <4>1. UNCHANGED <<ingested, registers, memory>>
        BY <1>4, <3>2 DEF Thread, ConnectToFileAndStart, LatchCount, RemapAndClamp, ReadType, PublishMax,
                PublishMinAndDone, SetDidUpdate, ThreadExit, Join, dbVars, indexVars
      <4> QED
        BY <4>1 DEF StateInv, RegCells, MemCells, Clnums, Datas, BytesAt, RegEntries, MemEntries, Ingested
    <3> QED
      BY <3>1, <3>2
  <2> QED
    BY <1>1, <2>1, <2>2 DEF StateInv
<1>5. UNCHANGED dbVars \/ (Thread /\ UNCHANGED tracerVars)
  BY DEF IngestNext, Call, Poll, Fetch, Stop, FetchLock, FetchScan, FetchReturn, ClearDidUpdate,
         GetDidUpdate, PushUpdates, FetchChangesByClnum, vars
<1> QED
  BY <1>3, <1>4, <1>5

\* The cells are right in every reachable state.
LEMMA StateInvariant == IngestSpec => []StateInv
  BY StateInitInv, StateInvStep, PTL DEF IngestSpec

\* Beside a tracer that is still writing: the registers answered for a clnum
\* are the ones the log's writes up to it leave, the later of two writes in
\* one clnum winning, for every register file and every log.
THEOREM IngestRegistersAsLogged == IngestSpec => []RegistersAsLogged
<1>1. StateInv => RegistersAsLogged
  <2> SUFFICES ASSUME StateInv, NEW n \in 0 .. max_clnum + 1, NEW r \in 0 .. RegisterCount - 1
               PROVE  LET E == {e \in Ingested({"W"}) : /\ ingested[e].c.clnum <= n
                                                        /\ ingested[e].c.address \div RegisterSize = r}
                      IN  FetchRegisters(n)[r] = IF E = {} THEN 0 ELSE LastOf(E).data
    BY DEF RegistersAsLogged
  <2> DEFINE E == EntriesTo(RegEntries(r), Clnums, n)
             K == KeysTo(registers[r], n)
  <2>0. n \in Nat
    BY StateTypes DEF StateInv
  <2>1. InOrder(RegEntries(r), Clnums)
    BY IngestedOrdered DEF StateInv, RegEntries, Ingested, InOrder
  <2>2. CellOK(registers[r], RegEntries(r), Clnums, Datas)
    BY DEF StateInv, RegCells
  <2>3. E = {e \in Ingested({"W"}) : /\ ingested[e].c.clnum <= n
                                     /\ ingested[e].c.address \div RegisterSize = r}
    BY DEF RegEntries, Clnums, Ingested, EntriesTo
  <2>4. /\ K = {} <=> E = {}
        /\ K # {} => registers[r][Max(K)] = Datas[Max(E)] /\ Max(E) \in RegEntries(r)
    BY <2>0, <2>1, <2>2, CellLookup
  <2>5. FetchRegisters(n)[r] = IF K = {} THEN 0 ELSE registers[r][Max(K)]
    BY DEF FetchRegisters, UpTo, KeysTo
  <2> HIDE DEF E, K
  <2>6. E # {} => Datas[Max(E)] = LastOf(E).data
    BY <2>4 DEF Datas, LastOf, RegEntries, Ingested
  <2>7. FetchRegisters(n)[r] = IF E = {} THEN 0 ELSE LastOf(E).data
    BY <2>4, <2>5, <2>6
  <2> QED
    BY <2>3, <2>7
<1> QED
  BY <1>1, StateInvariant, PTL

\* Beside a tracer that is still writing: a byte of memory answered for a clnum
\* is the one of the last access up to it that covers the address, and is not
\* valid if there is none, for every size of access and for either byte order.
THEOREM IngestMemoryAsLogged == IngestSpec => []MemoryAsLogged
<1>1. StateInv => MemoryAsLogged
  <2> SUFFICES ASSUME StateInv, NEW n \in 0 .. max_clnum + 1,
                      NEW a \in UNION {Span(ingested[e].c) : e \in Ingested({"L", "S"})}
               PROVE  LET E == {e \in Ingested({"L", "S"}) :
                                  ingested[e].c.clnum <= n /\ a \in Span(ingested[e].c)}
                          c == LastOf(E)
                      IN  GetByte(n, a) =
                            IF E = {} THEN 0
                            ELSE MemoryValid
                                   + Byte(c.data, IF BigEndian THEN c.address + c.size - 1 - a
                                                  ELSE a - c.address)
    BY DEF MemoryAsLogged
  <2> DEFINE E == EntriesTo(MemEntries(a), Clnums, n)
             K == KeysTo(memory[a], n)
             c == LastOf(E)
  <2>0. n \in Nat
    BY StateTypes DEF StateInv
  <2>1. InOrder(MemEntries(a), Clnums)
    BY IngestedOrdered DEF StateInv, MemEntries, Ingested, InOrder
  <2>2. a \in DOMAIN memory /\ CellOK(memory[a], MemEntries(a), Clnums, BytesAt(a))
    BY DEF StateInv, MemCells
  <2>3. E = {e \in Ingested({"L", "S"}) : ingested[e].c.clnum <= n /\ a \in Span(ingested[e].c)}
    BY DEF MemEntries, Clnums, Ingested, EntriesTo
  <2>4. /\ K = {} <=> E = {}
        /\ K # {} => memory[a][Max(K)] = BytesAt(a)[Max(E)] /\ Max(E) \in MemEntries(a)
    BY <2>0, <2>1, <2>2, CellLookup
  <2>5. GetByte(n, a) = IF K = {} THEN 0 ELSE MemoryValid + memory[a][Max(K)]
    BY <2>2 DEF GetByte, KeysTo, Get
  <2> HIDE DEF E, K
  <2>6. ASSUME E # {}
        PROVE  memory[a][Max(K)]
                 = Byte(c.data, IF BigEndian THEN c.address + c.size - 1 - a ELSE a - c.address)
    <3>1. Max(E) \in DOMAIN ingested /\ ingested[Max(E)].type \in {"L", "S"} /\ a \in Span(c)
      BY <2>4, <2>6 DEF MemEntries, Ingested, LastOf
    <3>2. memory[a][Max(K)] = ByteOf(c, a - c.address)
      BY <2>4, <2>6, <3>1 DEF BytesAt, LastOf
    <3>3. c.address \in Nat /\ c.size \in Nat
      <4>1. Max(E) \in 0 .. file_size - 1 /\ AsWritten(Max(E))
        BY <3>1, StateTypes, IngestedOrdered DEF StateInv, ReadInv, Reading
      <4>2. buffer[Max(E)] \in Change
        BY <4>1, StateTypes DEF StateInv
      <4>3. c.address = buffer[Max(E)].address /\ c.size = buffer[Max(E)].size
        BY <3>1, <4>1 DEF AsWritten, LastOf
      <4> QED
        BY <4>2, <4>3 DEF Change
    <3> HIDE DEF c
    <3>4. a \in Int
      BY <3>1, <3>3 DEF Span
    <3>5. c.size - 1 - (a - c.address) = c.address + c.size - 1 - a
      BY <3>3, <3>4
    <3> QED
      BY <3>2, <3>5 DEF ByteOf
  <2>7. GetByte(n, a) =
          IF E = {} THEN 0
          ELSE MemoryValid + Byte(c.data, IF BigEndian THEN c.address + c.size - 1 - a
                                          ELSE a - c.address)
    BY <2>4, <2>5, <2>6
  <2> QED
    BY <2>3, <2>7
<1> QED
  BY <1>1, StateInvariant, PTL

-----------------------------------------------------------------------------
(* Answers about the past are final.                                       *)

\* What is put in a cell is put above every clnum below the published maximum.
LEMMA InsertedAbove ==
  ASSUME StateInv, Insert, type # "?", NEW n \in Nat, n < max_clnum
  PROVE  buffer[entries_done].clnum \in Nat /\ n < buffer[entries_done].clnum
<1>1. /\ dpc = "insert" /\ entries_done \in 1 .. file_size - 1 /\ ReadInv
      /\ file_size \in Nat /\ entries_done \in Nat /\ max_clnum \in Nat
  BY Inserted, StateTypes DEF StateInv, Insert
<1>2. Complete(entries_done)
  BY <1>1, TypedIsComplete DEF ReadInv, Reading
<1>3. max_clnum <= buffer[entries_done].clnum
  BY <1>1, <1>2 DEF StateInv, MaxBehind
<1>4. buffer[entries_done].clnum \in Nat
  BY <1>1, EntryTypes DEF ReadInv, LogInv, TracerInv
<1> QED
  BY <1>1, <1>3, <1>4

\* The registers and the memory of a clnum below the published maximum are
\* answered the same ever after, whatever is ingested next: an entry that is
\* ingested later belongs to a clnum at or above that maximum.
THEOREM IngestPastStable == IngestSpec => PastStable
<1> DEFINE Stable == \A n \in 0 .. max_clnum : n < max_clnum =>
                       /\ FetchRegisters(n)' = FetchRegisters(n)
                       /\ \A a \in DOMAIN memory : GetByte(n, a)' = GetByte(n, a)
<1>1. ASSUME StateInv, [IngestNext]_vars PROVE [Stable]_dbVars
  <2>1. CASE UNCHANGED <<registers, memory>>
    BY <2>1 DEF FetchRegisters, GetByte, Get, UpTo
  <2>2. CASE Insert
    <3> SUFFICES ASSUME NEW n \in 0 .. max_clnum, n < max_clnum
                 PROVE  /\ FetchRegisters(n)' = FetchRegisters(n)
                        /\ \A a \in DOMAIN memory : GetByte(n, a)' = GetByte(n, a)
      OBVIOUS
    <3> DEFINE c0 == buffer[entries_done]
    <3>0. n \in Nat /\ InsertEntry(entries_done, c0, type)
      BY <1>1, <2>2, StateTypes DEF StateInv, Insert
    <3>1. type # "?" => c0.clnum \in Nat /\ n < c0.clnum
      BY <1>1, <2>2, <3>0, InsertedAbove
    <3>2. /\ DOMAIN registers = 0 .. RegisterCount - 1
          /\ \A r \in DOMAIN registers : DOMAIN registers[r] \subseteq Nat
          /\ \A a \in DOMAIN memory : DOMAIN memory[a] \subseteq Nat
      BY <1>1 DEF StateInv, ReadInv, LiveInv, TypedInv, MapTypes
    <3>3. ASSUME NEW r \in 0 .. RegisterCount - 1
          PROVE  UpTo(registers'[r], n, 0) = UpTo(registers[r], n, 0)
      <4>1. CASE registers'[r] = registers[r]
        BY <4>1
      <4>2. CASE registers'[r] # registers[r]
        <5>1. type = "W" /\ registers'[r] = Put(registers[r], c0.clnum, c0.data)
          BY <3>0, <3>2, <4>2 DEF InsertEntry
        <5>2. /\ KeysTo(registers'[r], n) = KeysTo(registers[r], n)
              /\ KeysTo(registers[r], n) # {} =>
                   registers'[r][Max(KeysTo(registers[r], n))] = registers[r][Max(KeysTo(registers[r], n))]
          BY <3>0, <3>1, <3>2, <5>1, PutAbove
        <5> QED
          BY <5>2 DEF UpTo, KeysTo
      <4> QED
        BY <4>1, <4>2
    <3>4. FetchRegisters(n)' = FetchRegisters(n)
      BY <3>3 DEF FetchRegisters
    <3>5. ASSUME NEW a \in DOMAIN memory PROVE GetByte(n, a)' = GetByte(n, a)
      <4>1. a \in DOMAIN memory'
        BY <3>0 DEF InsertEntry, CommitMemory
      <4>2. CASE memory'[a] = memory[a]
        BY <4>1, <4>2 DEF GetByte, Get
      <4>3. CASE memory'[a] # memory[a]
        <5>1. type \in {"L", "S"} /\ memory'[a] = Put(memory[a], c0.clnum, ByteOf(c0, a - c0.address))
          BY <3>0, <3>5, <4>3 DEF InsertEntry, CommitMemory, Get
        <5>2. /\ KeysTo(memory'[a], n) = KeysTo(memory[a], n)
              /\ KeysTo(memory[a], n) # {} =>
                   memory'[a][Max(KeysTo(memory[a], n))] = memory[a][Max(KeysTo(memory[a], n))]
          BY <3>0, <3>1, <3>2, <5>1, PutAbove
        <5> QED
          BY <4>1, <5>2 DEF GetByte, Get, KeysTo
      <4> QED
        BY <4>2, <4>3
    <3> QED
      BY <3>4, <3>5
  <2>3. UNCHANGED <<registers, memory>> \/ Insert
    BY <1>1 DEF IngestNext, Thread, ConnectToFileAndStart, LatchCount, RemapAndClamp, ReadType,
         PublishMax, PublishMinAndDone, SetDidUpdate, ThreadExit, Join, Call, Poll, Fetch, Stop,
         FetchLock, FetchScan, FetchReturn, ClearDidUpdate, GetDidUpdate, PushUpdates,
         FetchChangesByClnum, vars, dbVars, indexVars
  <2> QED
    BY <2>1, <2>2, <2>3
<1> QED
  BY <1>1, StateInvariant, PTL DEF IngestSpec, PastStable

-----------------------------------------------------------------------------
(* The clnums of an address, in ascending order.                           *)

\* q lists the elements of S from the smallest to the largest.
Lists(q, S) ==
  /\ q \in [1 .. Cardinality(S) -> S]
  /\ \A i, j \in 1 .. Cardinality(S) : i < j => q[i] < q[j]

\* The list of a set is the list without its largest element, and that one.
LEMMA ListExtends ==
  ASSUME NEW S \in SUBSET Nat, IsFiniteSet(S), NEW m \in S, \A x \in S : x <= m,
         NEW q, Lists(q, S \ {m})
  PROVE  \E r : Lists(r, S)
<1> DEFINE c == Cardinality(S)
           r == [i \in 1 .. c |-> IF i = c THEN m ELSE q[i]]
<1>1. c \in Nat /\ Cardinality(S \ {m}) = c - 1 /\ c >= 1
  <2>1. c \in Nat /\ Cardinality(S \ {m}) = c - 1
    BY FS_CardinalityType, FS_RemoveElement
  <2>2. c # 0
    BY FS_EmptySet
  <2> QED
    BY <2>1, <2>2
<1> HIDE DEF c
<1>2. q \in [1 .. c - 1 -> S \ {m}] /\ \A i, j \in 1 .. c - 1 : i < j => q[i] < q[j]
  BY <1>1 DEF Lists
<1>3. \A i \in 1 .. c : i # c => i \in 1 .. c - 1 /\ q[i] \in S /\ q[i] < m
  <2> SUFFICES ASSUME NEW i \in 1 .. c, i # c PROVE i \in 1 .. c - 1 /\ q[i] \in S /\ q[i] < m
    OBVIOUS
  <2>1. i \in 1 .. c - 1
    BY <1>1
  <2>2. q[i] \in S /\ q[i] # m
    BY <1>2, <2>1
  <2>3. q[i] \in Nat /\ m \in Nat /\ q[i] <= m
    BY <2>2
  <2> QED
    BY <2>1, <2>2, <2>3
<1>4. r \in [1 .. c -> S]
  BY <1>3
<1>5. ASSUME NEW i \in 1 .. c, NEW j \in 1 .. c, i < j PROVE r[i] < r[j]
  <2>1. i # c
    BY <1>1, <1>5
  <2>2. r[i] = q[i] /\ q[i] < m /\ i \in 1 .. c - 1
    BY <1>3, <2>1
  <2>3. CASE j = c
    BY <2>2, <2>3
  <2>4. CASE j # c
    BY <1>2, <1>3, <1>5, <2>2, <2>4
  <2> QED
    BY <2>3, <2>4
<1>6. Lists(r, S)
  BY <1>4, <1>5 DEF Lists, c
<1> QED
  BY <1>6

\* A set of naturals below a bound is finite.
LEMMA BelowIsFinite ==
  ASSUME NEW n \in Nat, NEW S \in SUBSET (0 .. n - 1)
  PROVE  IsFiniteSet(S) /\ S \in SUBSET Nat /\ Cardinality(S) \in Nat
<1>1. 0 \in Int /\ n - 1 \in Int
  OBVIOUS
<1>2. IsFiniteSet(0 .. n - 1)
  BY <1>1, FS_Interval
<1>3. IsFiniteSet(S)
  BY <1>2, FS_Subset
<1>4. Cardinality(S) \in Nat
  BY <1>3, FS_CardinalityType
<1>5. S \in SUBSET Nat
  OBVIOUS
<1> QED
  BY <1>3, <1>4, <1>5

\* Every set of naturals below a bound can be listed.
LEMMA ListExists ==
  ASSUME NEW n \in Nat, NEW S \in SUBSET (0 .. n - 1)
  PROVE  \E q : Lists(q, S)
<1> DEFINE Bad == {b \in Nat : \E U \in SUBSET (0 .. b - 1) : ~ \E q : Lists(q, U)}
<1> SUFFICES ASSUME Bad # {} PROVE FALSE
  BY DEF Bad
<1>1. PICK b \in Bad : \A x \in Bad : b <= x
  BY LeastNat
<1>2. b \in Nat
  OBVIOUS
<1>3. PICK U \in SUBSET (0 .. b - 1) : ~ \E q : Lists(q, U)
  OBVIOUS
<1>4. IsFiniteSet(U) /\ U \in SUBSET Nat
  BY <1>2, BelowIsFinite
<1>5. CASE b = 0
  <2>1. U = {}
    BY <1>5
  <2>2. Cardinality(U) = 0
    BY <2>1, FS_EmptySet
  <2>3. 1 .. Cardinality(U) = {}
    BY <2>2
  <2>4. Lists([i \in {} |-> i], U)
    BY <2>3 DEF Lists
  <2> QED
    BY <1>3, <2>4
<1>6. CASE b # 0
  <2>1. b - 1 \in Nat /\ b - 1 \notin Bad
    BY <1>1, <1>2, <1>6
  <2>2. \A V \in SUBSET (0 .. (b - 1) - 1) : \E q : Lists(q, V)
    BY <2>1
  <2>3. U \ {b - 1} \in SUBSET (0 .. (b - 1) - 1)
    BY <1>2
  <2>4. PICK q : Lists(q, U \ {b - 1})
    BY <2>2, <2>3
  <2>5. CASE b - 1 \in U
    <3>1. \A x \in U : x <= b - 1
      BY <1>2
    <3> QED
      BY <1>3, <1>4, <2>4, <2>5, <3>1, ListExtends
  <2>6. CASE b - 1 \notin U
    <3>1. U \ {b - 1} = U
      BY <2>6
    <3> QED
      BY <1>3, <2>4, <3>1
  <2> QED
    BY <2>5, <2>6
<1> QED
  BY <1>5, <1>6

\* Ascending is strictly increasing and holds exactly the elements of the set.
LEMMA AscendingLists ==
  ASSUME NEW n \in Nat, NEW S \in SUBSET (0 .. n - 1)
  PROVE  /\ Cardinality(S) \in Nat
         /\ Ascending(S) \in Seq(S) /\ Len(Ascending(S)) = Cardinality(S)
         /\ \A i, j \in 1 .. Cardinality(S) : i < j => Ascending(S)[i] < Ascending(S)[j]
         /\ \A x \in S : \E i \in 1 .. Cardinality(S) : Ascending(S)[i] = x
<1> DEFINE c == Cardinality(S)
           q == Ascending(S)
<1>1. IsFiniteSet(S) /\ S \in SUBSET Nat /\ c \in Nat
  BY BelowIsFinite
<1>2. Lists(q, S)
  BY ListExists DEF Lists, Ascending
<1>3. q \in [1 .. c -> S] /\ \A i, j \in 1 .. c : i < j => q[i] < q[j]
  BY <1>2 DEF Lists
<1>4. q \in Seq(S) /\ Len(q) = c
  BY <1>1, <1>3
<1> HIDE DEF q, c
<1>5. ASSUME NEW i \in 1 .. c, NEW j \in 1 .. c, i # j PROVE q[i] # q[j]
  <2>1. i \in Nat /\ j \in Nat /\ (i < j \/ j < i)
    BY <1>1, <1>5
  <2>2. q[i] \in S /\ q[j] \in S
    BY <1>3
  <2>3. q[i] \in Nat /\ q[j] \in Nat
    BY <1>1, <2>2
  <2> QED
    BY <1>3, <2>1, <2>3
<1>6. ASSUME NEW x \in S PROVE \E i \in 1 .. c : q[i] = x
  <2> SUFFICES ASSUME \A i \in 1 .. c : q[i] # x PROVE FALSE
    OBVIOUS
  <2>1. q \in [1 .. c -> S \ {x}]
    BY <1>3
  <2>2. IsFiniteSet(1 .. c) /\ Cardinality(1 .. c) = c
    BY <1>1, FS_Interval
  <2>3. IsFiniteSet(S \ {x}) /\ Cardinality(S \ {x}) = c - 1
    BY <1>1, FS_RemoveElement DEF c
  <2>4. \E i, j \in 1 .. c : i # j /\ q[i] = q[j]
    BY <1>1, <2>1, <2>2, <2>3, FS_PigeonHole
  <2> QED
    BY <1>5, <2>4
<1> QED
  BY <1>1, <1>3, <1>4, <1>6 DEF q, c

\* The clnums of the ingested entries with an address and a type.
Reported(a, t) ==
  {n \in Nat : \E e \in Ingested({t}) : ingested[e].c.address = a /\ ingested[e].c.clnum = n}

\* addresstype_to_clnums_ has a set for the address and type of every entry,
\* and each holds the clnums of its entries.
ClnumSets ==
  /\ \A e \in DOMAIN ingested :
       <<ingested[e].c.address, ingested[e].type>> \in DOMAIN addresstype_to_clnums
  /\ \A k \in DOMAIN addresstype_to_clnums :
       k = <<k[1], k[2]>> /\ addresstype_to_clnums[k] = Reported(k[1], k[2])

\* The set of the entry's address and type gets its clnum, no other changes.
LEMMA InsertKeepsClnumSets ==
  ASSUME ReadInv, ClnumSets, Insert
  PROVE  ClnumSets'
<1> DEFINE e0 == entries_done
           c0 == buffer[entries_done]
           k0 == <<c0.address, type>>
           m == addresstype_to_clnums
<1>0. /\ e0 \notin DOMAIN ingested
      /\ DOMAIN ingested' = DOMAIN ingested \cup {e0}
      /\ ingested'[e0].c = c0 /\ ingested'[e0].type = type
      /\ \A x \in DOMAIN ingested : ingested'[x] = ingested[x]
  BY Inserted
<1>1. m' = Put(m, k0, Get(m, k0, {}) \cup {c0.clnum})
  BY DEF Insert, InsertEntry
<1>2. DOMAIN m' = DOMAIN m \cup {k0}
  BY <1>1 DEF Put
<1>3. c0.clnum \in Nat
  BY InsertedCells DEF Change
<1>4. ASSUME NEW CONSTANT a, NEW CONSTANT t
      PROVE  Reported(a, t)' = IF a = c0.address /\ t = type
                               THEN Reported(a, t) \cup {c0.clnum} ELSE Reported(a, t)
  <2>1. Ingested({t})' = IF type \in {t} THEN Ingested({t}) \cup {e0} ELSE Ingested({t})
    BY InsertedTypes
  <2>2. \A e \in Ingested({t}) : ingested'[e] = ingested[e] /\ e # e0
    BY <1>0 DEF Ingested
  <2> HIDE DEF e0, c0
  <2>3. ASSUME NEW n \in Nat
        PROVE  (\E e \in Ingested({t})' : ingested'[e].c.address = a /\ ingested'[e].c.clnum = n)
                 <=> \/ \E e \in Ingested({t}) : ingested[e].c.address = a /\ ingested[e].c.clnum = n
                     \/ t = type /\ a = c0.address /\ n = c0.clnum
    <3>1. CASE t = type
      BY <1>0, <2>1, <2>2, <3>1
    <3>2. CASE t # type
      BY <2>1, <2>2, <3>2
    <3> QED
      BY <3>1, <3>2
  <2>4. Reported(a, t)' = {n \in Nat : \/ n \in Reported(a, t)
                                       \/ t = type /\ a = c0.address /\ n = c0.clnum}
    BY <2>3 DEF Reported
  <2>5. Reported(a, t) \subseteq Nat
    BY DEF Reported
  <2> QED
    BY <1>3, <2>4, <2>5
<1>5. ASSUME NEW e \in DOMAIN ingested'
      PROVE  <<ingested'[e].c.address, ingested'[e].type>> \in DOMAIN m'
  <2>1. CASE e = e0
    BY <1>0, <1>2, <2>1
  <2>2. CASE e # e0
    BY <1>0, <1>2, <2>2 DEF ClnumSets
  <2> QED
    BY <2>1, <2>2
<1>6. ASSUME NEW k \in DOMAIN m' PROVE k = <<k[1], k[2]>> /\ m'[k] = Reported(k[1], k[2])'
  <2>1. CASE k = k0
    <3>1. k[1] = c0.address /\ k[2] = type /\ k = <<k[1], k[2]>>
      BY <2>1
    <3>2. Get(m, k0, {}) = Reported(c0.address, type)
      <4>1. CASE k0 \in DOMAIN m
        BY <4>1 DEF ClnumSets, Get
      <4>2. CASE k0 \notin DOMAIN m
        <5>1. \A e \in Ingested({type}) : ingested[e].c.address # c0.address
          BY <4>2 DEF ClnumSets, Ingested
        <5> QED
          BY <4>2, <5>1 DEF Get, Reported
      <4> QED
        BY <4>1, <4>2
    <3>3. m'[k] = Reported(c0.address, type) \cup {c0.clnum}
      BY <1>1, <2>1, <3>2 DEF Put
    <3>4. Reported(k[1], k[2])' = Reported(k[1], k[2]) \cup {c0.clnum}
      BY <1>4, <3>1
    <3> QED
      BY <3>1, <3>3, <3>4
  <2>2. CASE k # k0
    <3>1. k \in DOMAIN m /\ m'[k] = m[k]
      BY <1>1, <1>2, <2>2 DEF Put
    <3>2. k = <<k[1], k[2]>> /\ m[k] = Reported(k[1], k[2])
      BY <3>1 DEF ClnumSets
    <3>3. ~(k[1] = c0.address /\ k[2] = type)
      BY <2>2, <3>2
    <3>4. Reported(k[1], k[2])' = Reported(k[1], k[2])
      BY <1>4, <3>3
    <3> QED
      BY <3>1, <3>2, <3>4
  <2> QED
    BY <2>1, <2>2
<1> QED
  BY <1>5, <1>6 DEF ClnumSets

\* The sets are right in every reachable state.
LEMMA ClnumSetsInvariant == IngestSpec => [](ReadInv /\ ClnumSets)
<1>1. IngestInit => ClnumSets
  BY DEF IngestInit, DBInit, ClnumSets
<1>2. ASSUME ReadInv, ClnumSets, [IngestNext]_vars PROVE ClnumSets'
  <2>1. CASE Insert
    BY <1>2, <2>1, InsertKeepsClnumSets
  <2>2. CASE UNCHANGED <<ingested, addresstype_to_clnums>>
    BY <1>2, <2>2 DEF ClnumSets, Reported, Ingested
  <2> QED
    BY <1>2, <2>1, <2>2
       DEF IngestNext, Thread, ConnectToFileAndStart, LatchCount, RemapAndClamp, ReadType, PublishMax,
           PublishMinAndDone, SetDidUpdate, ThreadExit, Join, Call, Poll, Fetch, Stop, FetchLock, FetchScan,
           FetchReturn, ClearDidUpdate, GetDidUpdate, PushUpdates, FetchChangesByClnum,
           vars, dbVars, indexVars
<1> QED
  BY <1>1, <1>2, ReadInitInv, ReadInvStep, PTL DEF IngestSpec

\* What the loop of the query keeps of an ascending list.
FirstOf(S, lim) ==
  IF lim = 0 \/ Len(Ascending(S)) < lim THEN Ascending(S) ELSE SubSeq(Ascending(S), 1, lim)

\* The first elements of an ascending list, all of them without a limit, are
\* ascending, and leave out larger ones only.
LEMMA FirstOfAscending ==
  ASSUME NEW n \in Nat, NEW S \in SUBSET (0 .. n - 1), NEW lim \in Nat
  PROVE  /\ \A i, j \in 1 .. Len(FirstOf(S, lim)) : i < j => FirstOf(S, lim)[i] < FirstOf(S, lim)[j]
         /\ \A i \in 1 .. Len(FirstOf(S, lim)) : FirstOf(S, lim)[i] \in S
         /\ \A x \in S : \/ \E i \in 1 .. Len(FirstOf(S, lim)) : FirstOf(S, lim)[i] = x
                         \/ lim # 0 /\ Len(FirstOf(S, lim)) = lim /\ FirstOf(S, lim)[lim] < x
<1> DEFINE a == Ascending(S)
           c == Cardinality(S)
           q == FirstOf(S, lim)
<1>1. /\ c \in Nat /\ a \in Seq(S) /\ Len(a) = c
      /\ \A i, j \in 1 .. c : i < j => a[i] < a[j]
      /\ \A x \in S : \E i \in 1 .. c : a[i] = x
  BY AscendingLists
<1> HIDE DEF a, c, q
<1>2. CASE lim = 0 \/ c < lim
  <2>1. q = a /\ Len(q) = c
    BY <1>1, <1>2 DEF a, q, FirstOf
  <2>2. \A i \in 1 .. c : a[i] \in S
    BY <1>1
  <2> QED
    BY <1>1, <2>1, <2>2 DEF q
<1>3. CASE ~(lim = 0 \/ c < lim)
  <2>1. lim \in 1 .. c /\ q = SubSeq(a, 1, lim)
    BY <1>1, <1>3 DEF a, q, FirstOf
  <2>2. Len(q) = lim /\ \A i \in 1 .. lim : q[i] = a[i] /\ i \in 1 .. c
    BY <1>1, <2>1
  <2>3. \A i \in 1 .. c : a[i] \in S
    BY <1>1
  <2>4. ASSUME NEW x \in S
        PROVE  (\E i \in 1 .. lim : q[i] = x) \/ q[lim] < x
    <3>1. PICK i \in 1 .. c : a[i] = x
      BY <1>1
    <3>2. CASE i <= lim
      BY <2>2, <3>1, <3>2
    <3>3. CASE i > lim
      BY <1>1, <2>1, <2>2, <3>1, <3>3
    <3> QED
      BY <2>1, <3>2, <3>3
  <2> QED
    BY <1>1, <1>3, <2>2, <2>3, <2>4 DEF q
<1> QED
  BY <1>2, <1>3

\* Beside a tracer that is still writing: the clnums answered for an address
\* and a type are exactly those of the entries ingested, in the half-open
\* window, ascending, and a limit keeps the first ones.
THEOREM IngestClnumsAsLogged == IngestSpec => []ClnumsAsLogged
<1>1. ReadInv /\ ClnumSets => ClnumsAsLogged
  <2> SUFFICES ASSUME ReadInv, ClnumSets,
                      NEW k \in DOMAIN addresstype_to_clnums,
                      NEW s \in 0 .. max_clnum + 1, NEW t \in 0 .. max_clnum + 1,
                      NEW lim \in 0 .. 2
               PROVE  LET q == FetchClnums(k[1], k[2], s, t, lim)
                          S == {n \in s .. t - 1 : \E e \in Ingested({k[2]}) :
                                                     ingested[e].c.address = k[1] /\ ingested[e].c.clnum = n}
                      IN  /\ \A i, j \in 1 .. Len(q) : i < j => q[i] < q[j]
                          /\ \A i \in 1 .. Len(q) : q[i] \in S
                          /\ \A n \in S : \/ \E i \in 1 .. Len(q) : q[i] = n
                                          \/ lim # 0 /\ Len(q) = lim /\ q[lim] < n
    BY DEF ClnumsAsLogged
  <2> DEFINE q == FetchClnums(k[1], k[2], s, t, lim)
             S == {n \in s .. t - 1 : \E e \in Ingested({k[2]}) :
                                        ingested[e].c.address = k[1] /\ ingested[e].c.clnum = n}
             W == {n \in Get(addresstype_to_clnums, <<k[1], k[2]>>, {}) : s <= n /\ n < t}
  <2>1. s \in Nat /\ t \in Nat /\ lim \in Nat
    BY StateTypes
  <2>2. Get(addresstype_to_clnums, <<k[1], k[2]>>, {}) = Reported(k[1], k[2])
    BY DEF ClnumSets, Get
  <2>3. W = S
    <3>1. \A n : n \in s .. t - 1 <=> n \in Nat /\ s <= n /\ n < t
      BY <2>1
    <3> QED
      BY <2>2, <3>1 DEF Reported
  <2>4. S \in SUBSET (0 .. t - 1)
    BY <2>1
  <2>5. q = FirstOf(S, lim)
    BY <2>3 DEF FetchClnums, FirstOf
  <2> HIDE DEF q, S, W
  <2>6. /\ \A i, j \in 1 .. Len(q) : i < j => q[i] < q[j]
        /\ \A i \in 1 .. Len(q) : q[i] \in S
        /\ \A n \in S : \/ \E i \in 1 .. Len(q) : q[i] = n
                        \/ lim # 0 /\ Len(q) = lim /\ q[lim] < n
    BY <2>1, <2>4, <2>5, FirstOfAscending
  <2> QED
    BY <2>6 DEF q, S
<1> QED
  BY <1>1, ClnumSetsInvariant, PTL
=============================================================================
