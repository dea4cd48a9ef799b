------------------------------- MODULE TraceDB -------------------------------
(***************************************************************************)
(* The indexes of qiradb's class Trace (qiradb/qiradb/Trace.cpp, Trace.h): *)
(* what process() does to them for one log entry, and what the Fetch       *)
(* functions answer from them.  The threads that call these are in         *)
(* TraceIngest; here entries arrive one at a time, in any order the tracer *)
(* can write them (LogOrdered of QemuTracer).                              *)
(*                                                                         *)
(* A std::map or set is a function or set that grows; a vector is a        *)
(* function on 0 .. size-1.                                                *)
(***************************************************************************)
EXTENDS Naturals, Sequences, FiniteSets, FiniteSetsExt, SequencesExt

CONSTANTS
  RegisterSize,   \* register_size_
  RegisterCount,  \* register_count_
  BigEndian,      \* is_big_endian_
  ByteBase,       \* values of a byte: 256 in the code
  PageSize,       \* bytes of a page: PAGE_MASK clears the offset in it
  InvalidClnum    \* INVALID_CLNUM: 0xFFFFFFFF in the code

ASSUME TraceDBAssumption ==
  /\ RegisterSize \in Nat \ {0}
  /\ RegisterCount \in Nat
  /\ BigEndian \in BOOLEAN
  /\ ByteBase \in Nat \ {0}
  /\ PageSize \in Nat \ {0}
  /\ InvalidClnum \in Nat

VARIABLES
  clnum_to_entry_number,  \* vector: the entry an instruction starts at, 0 if none
  index_size,             \* its size
  addresstype_to_clnums,  \* <<address, type>> -> set of clnums
  registers,              \* per register: clnum -> value
  memory,                 \* address -> (clnum -> byte)
  pages,                  \* page -> subset of {"INSTRUCTION", "READ", "WRITE"}
  entries_done,           \* number of the next entry to ingest
  max_clnum, min_clnum,   \* published range of clnums
  ingested                \* history: per entry, what process() read of it

indexVars == <<clnum_to_entry_number, index_size, addresstype_to_clnums,
               registers, memory, pages, ingested>>
dbVars == <<indexVars, entries_done, max_clnum, min_clnum>>

Types == {"?", "I", "s", "L", "S", "W", "R"}

-----------------------------------------------------------------------------
(* Ingesting an entry.                                                     *)

\* Fault: IS_VALID is not looked at.
MutantTypeOf(flags) ==
  IF "START" \in flags THEN "I"
  ELSE IF "SYSCALL" \in flags THEN "s"
  ELSE IF "MEM" \in flags THEN (IF "WRITE" \in flags THEN "S" ELSE "L")
  ELSE IF "WRITE" \in flags THEN "W" ELSE "R"

\* get_type_from_flags
TypeOf(flags) ==
  IF "VALID" \notin flags THEN "?"
  ELSE IF "START" \in flags THEN "I"
  ELSE IF "SYSCALL" \in flags THEN "s"
  ELSE IF "MEM" \in flags THEN (IF "WRITE" \in flags THEN "S" ELSE "L")
  ELSE IF "WRITE" \in flags THEN "W" ELSE "R"

DBInit ==
  /\ clnum_to_entry_number = [n \in {} |-> 0]
  /\ index_size = 0
  /\ addresstype_to_clnums = [k \in {} |-> {}]
  /\ registers = [r \in 0 .. RegisterCount - 1 |-> [n \in {} |-> 0]]
  /\ memory = [a \in {} |-> [n \in {} |-> 0]]
  /\ pages = [p \in {} |-> {}]
  /\ entries_done = 1
  /\ max_clnum = 0
  /\ min_clnum = InvalidClnum
  /\ ingested = [e \in {} |-> 0]

\* m[k] = v of a std::map
Put(m, k, v) == [x \in DOMAIN m \cup {k} |-> IF x = k THEN v ELSE m[x]]

\* m[k], the default d if k is not there yet
Get(m, k, d) == IF k \in DOMAIN m THEN m[k] ELSE d

\* Fault: the vector is not resized over a gap of clnums.
MutantResizedTo(n) == index_size

\* The size the vector has before push_back: resized up to the clnum.
ResizedTo(n) == IF index_size < n THEN n ELSE index_size

\* Fault: push_back without the resize, the size counted as if resized.
MutantPushEntry(n, e) ==
  [i \in 0 .. index_size |-> IF i < index_size THEN clnum_to_entry_number[i] ELSE e]

\* clnum_to_entry_number_: resize to the clnum if it is short, then push_back.
PushEntry(n, e) ==
  [i \in 0 .. ResizedTo(n) |->
     IF i < index_size THEN clnum_to_entry_number[i]
     ELSE IF i < ResizedTo(n) THEN 0 ELSE e]

PageOf(a) == a \div PageSize

PageFlag(t) == CASE t = "I" -> {"INSTRUCTION"} [] t = "L" -> {"READ"} [] t = "S" -> {"WRITE"}

Byte(d, k) == (d \div ByteBase ^ k) % ByteBase

\* Fault: the endianness loops are swapped.
MutantByteOf(c, i) == Byte(c.data, IF BigEndian THEN i ELSE c.size - 1 - i)

\* The byte of an access that the endianness loops commit at address + i.
ByteOf(c, i) == Byte(c.data, IF BigEndian THEN c.size - 1 - i ELSE i)

Span(c) == c.address .. c.address + c.size - 1

\* The loop of commit_memory over the bytes of an access.
CommitMemory(c) ==
  [a \in DOMAIN memory \cup Span(c) |->
     IF a \in Span(c)
     THEN Put(Get(memory, a, [n \in {} |-> 0]), c.clnum, ByteOf(c, a - c.address))
     ELSE memory[a]]

\* The part of process() under the write lock, for entry number e read as c
\* with the type t read before the lock was taken.
InsertEntry(e, c, t) ==
  /\ clnum_to_entry_number' = IF t = "I" THEN PushEntry(c.clnum, e) ELSE clnum_to_entry_number
  /\ index_size' = IF t = "I" THEN ResizedTo(c.clnum) + 1 ELSE index_size
  /\ addresstype_to_clnums' =
       LET k == <<c.address, t>>
       IN  Put(addresstype_to_clnums, k, Get(addresstype_to_clnums, k, {}) \cup {c.clnum})
  /\ registers' =
       IF t = "W" /\ c.address < RegisterSize * RegisterCount
       THEN [registers EXCEPT ![c.address \div RegisterSize] = Put(@, c.clnum, c.data)]
       ELSE registers
  /\ memory' = IF t \in {"L", "S"} THEN CommitMemory(c) ELSE memory
  /\ pages' =
       IF t \in {"I", "L", "S"}
       THEN Put(pages, PageOf(c.address), Get(pages, PageOf(c.address), {}) \cup PageFlag(t))
       ELSE pages
  /\ ingested' = Put(ingested, e, [c |-> c, type |-> t])

\* Fault: the maximum is taken as an exclusive bound.
MutantUpdateMaxBeyond(n) ==
  max_clnum' = IF max_clnum < n + 1 /\ n # InvalidClnum THEN n + 1 ELSE max_clnum

\* Fault: the clnum of the last entry is published without comparing.
MutantUpdateMaxLast(n) == max_clnum' = n

UpdateMax(n) ==
  max_clnum' = IF max_clnum < n /\ n # InvalidClnum THEN n ELSE max_clnum

UpdateMin(n) ==
  min_clnum' = IF min_clnum = InvalidClnum \/ n < min_clnum THEN n ELSE min_clnum

-----------------------------------------------------------------------------
(* Queries.                                                                *)

\* Fault: lower_bound for upper_bound.
MutantUpTo(cell, n, d) ==
  LET K == {k \in DOMAIN cell : k < n}
  IN  IF K = {} THEN d ELSE cell[Max(K)]

\* --upper_bound(n): the value at the last clnum up to n, d if there is none.
UpTo(cell, n, d) ==
  LET K == {k \in DOMAIN cell : k <= n}
  IN  IF K = {} THEN d ELSE cell[Max(K)]

MemoryValid == ByteBase     \* MEMORY_VALID, the bit above a byte

\* get_byte: MEMORY_VALID | byte, or 0
GetByte(n, a) ==
  LET cell == Get(memory, a, [k \in {} |-> 0])
      K    == {k \in DOMAIN cell : k <= n}
  IN  IF K = {} THEN 0 ELSE MemoryValid + cell[Max(K)]

FetchMemory(n, a, len) == [i \in 0 .. len - 1 |-> GetByte(n, a + i)]

FetchRegisters(n) == [r \in 0 .. RegisterCount - 1 |-> UpTo(registers[r], n, 0)]

\* The elements of a std::set in the order of its iterator.
Ascending(S) ==
  CHOOSE q \in [1 .. Cardinality(S) -> S] :
    \A i, j \in 1 .. Cardinality(S) : i < j => q[i] < q[j]

\* Fault: the window's end is included.
MutantFetchClnums(a, type, s, t, limit) ==
  LET S == {n \in Get(addresstype_to_clnums, <<a, type>>, {}) : s <= n /\ n <= t}
      q == Ascending(S)
  IN  IF limit = 0 \/ Len(q) < limit THEN q ELSE SubSeq(q, 1, limit)

\* FetchClnumsByAddressAndType: ascending, in [s, t), at most limit unless 0
FetchClnums(a, type, s, t, limit) ==
  LET S == {n \in Get(addresstype_to_clnums, <<a, type>>, {}) : s <= n /\ n < t}
      q == Ascending(S)
  IN  IF limit = 0 \/ Len(q) < limit THEN q ELSE SubSeq(q, 1, limit)

\* The lookup FetchChangesByClnum starts from; 0 is "not there".
EntryOf(n) == IF n < index_size THEN clnum_to_entry_number[n] ELSE 0

\* get_pmaps of the Python binding: what the map of memory shows for a page
PageType(p) ==
  IF "INSTRUCTION" \in pages[p] THEN "instruction"
  ELSE IF "WRITE" \in pages[p] THEN "memory" ELSE "romemory"

-----------------------------------------------------------------------------
(* What the answers must be: functions of the entries ingested.            *)

\* Every index has its shape.
DBTypeOK ==
  /\ index_size \in Nat
  /\ clnum_to_entry_number \in [0 .. index_size - 1 -> Nat]
  /\ \A k \in DOMAIN addresstype_to_clnums : addresstype_to_clnums[k] \subseteq Nat
  /\ DOMAIN registers = 0 .. RegisterCount - 1
  /\ \A r \in DOMAIN registers : DOMAIN registers[r] \subseteq Nat
  /\ \A a \in DOMAIN memory : DOMAIN memory[a] \subseteq Nat
  /\ entries_done \in Nat
  /\ max_clnum \in Nat
  /\ min_clnum \in Nat

\* The last ingested entry of a set, in log order.
LastOf(E) == ingested[Max(E)].c

Ingested(T) == {e \in DOMAIN ingested : ingested[e].type \in T}

\* The registers at clnum n are those the log's writes up to n leave, the
\* later of two writes in one clnum winning (Trace.cpp:195, 301).
RegistersAsLogged ==
  \A n \in 0 .. max_clnum + 1, r \in 0 .. RegisterCount - 1 :
    LET E == {e \in Ingested({"W"}) : /\ ingested[e].c.clnum <= n
                                      /\ ingested[e].c.address \div RegisterSize = r}
    IN  FetchRegisters(n)[r] = IF E = {} THEN 0 ELSE LastOf(E).data

\* A byte of memory at clnum n is the one the last access up to n that
\* covers it read or wrote there, whatever the access's size and the
\* target's endianness, and is not valid if there is none (Trace.cpp:200, 77).
MemoryAsLogged ==
  \A n \in 0 .. max_clnum + 1 :
    \A a \in UNION {Span(ingested[e].c) : e \in Ingested({"L", "S"})} :
      LET E == {e \in Ingested({"L", "S"}) : ingested[e].c.clnum <= n /\ a \in Span(ingested[e].c)}
          c == LastOf(E)
      IN  GetByte(n, a) =
            IF E = {} THEN 0
            ELSE MemoryValid
                   + Byte(c.data, IF BigEndian THEN c.address + c.size - 1 - a ELSE a - c.address)

\* The clnums reported for an address and a type are exactly those of its
\* entries in the half-open window, ascending; a limit keeps the first ones.
ClnumsAsLogged ==
  \A k \in DOMAIN addresstype_to_clnums :
    \A s, t \in 0 .. max_clnum + 1, limit \in 0 .. 2 :
      LET q == FetchClnums(k[1], k[2], s, t, limit)
          S == {n \in s .. t - 1 : \E e \in Ingested({k[2]}) :
                                     ingested[e].c.address = k[1] /\ ingested[e].c.clnum = n}
      IN  /\ \A i, j \in 1 .. Len(q) : i < j => q[i] < q[j]
          /\ \A i \in 1 .. Len(q) : q[i] \in S
          /\ \A n \in S : \/ \E i \in 1 .. Len(q) : q[i] = n
                          \/ limit # 0 /\ Len(q) = limit /\ q[limit] < n

\* The entry looked up for clnum n is the instruction start of clnum n
\* (Trace.cpp:179: resize, then push_back, keeps the vector aligned).
IndexAsLogged ==
  /\ \A e \in Ingested({"I"}) : EntryOf(ingested[e].c.clnum) = e
  /\ \A n \in 0 .. index_size : EntryOf(n) # 0 =>
       /\ EntryOf(n) \in Ingested({"I"})
       /\ ingested[EntryOf(n)].c.clnum = n

\* A page is shown as code if an instruction started in it, else as written
\* memory if a store began in it, else as read-only (_qiradb.cpp:126).
PagesAsLogged ==
  /\ DOMAIN pages = {PageOf(ingested[e].c.address) : e \in Ingested({"I", "L", "S"})}
  /\ \A p \in DOMAIN pages :
       LET On(t) == \E e \in Ingested({t}) : PageOf(ingested[e].c.address) = p
       IN  PageType(p) = IF On("I") THEN "instruction"
                         ELSE IF On("S") THEN "memory" ELSE "romemory"

\* What process() keeps for the lookups by clnum and by page is what the log says.
IndexesAsLogged == IndexAsLogged /\ PagesAsLogged

\* Answers about the past are final: ingesting another entry changes neither
\* the registers nor the memory of a clnum below the published maximum, so
\* what a client was shown for it stays right while the trace grows.
PastStable ==
  [][\A n \in 0 .. max_clnum : n < max_clnum =>
       /\ FetchRegisters(n)' = FetchRegisters(n)
       /\ \A a \in DOMAIN memory : GetByte(n, a)' = GetByte(n, a)]_dbVars

==============================================================================
