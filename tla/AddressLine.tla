----------------------------- MODULE AddressLine -----------------------------
(***************************************************************************)
(* Addresses as hex strings (web/client/compatibility/bignum.js) and the   *)
(* line of the pages of the address space with the flags of iaddr and      *)
(* daddr (web/client/haddrline.js).                                        *)
(*                                                                         *)
(* A string "0x..." is the sequence of its digits.  The base and the places *)
(* where the code cuts a string are parameters, so that small instances    *)
(* reach every cut.                                                        *)
(*                                                                         *)
(* A page of the browser is the record of module Session with the fields   *)
(*   chunks  the chunks of pages that are drawn                            *)
(*   hflags  the page on which the flag of iaddr and of daddr is drawn     *)
(***************************************************************************)
EXTENDS Session, FiniteSetsExt

CONSTANTS
  Base,          \* 16 in the code
  LowDigits,     \* digits bn_add adds to at once: 8
  HeadDigits,    \* digits bn_cmp compares first: 6
  PageDigits,    \* digits of an offset in a page: 3
  FillPages,     \* pages up to which haddrline fills a hole: 8
  Pages,         \* strings of the pages of a run
  Offsets,       \* offsets in a page that are clicked
  Selected,      \* addresses that are selected elsewhere
  MaxPages       \* bound: pages of the traced program

ASSUME DigitsAssumption == Base > 1 /\ LowDigits > PageDigits /\ LowDigits > HeadDigits

VARIABLES
  page,          \* the web page
  pmaps,         \* get_pmaps of the middleware: the type of every page
  emptied        \* history: for either flag, whether the line is drawn anew
                 \* after the address was last selected

vars == <<page, pmaps, emptied>>

-----------------------------------------------------------------------------
(* bignum.js *)

Low == Base ^ LowDigits
PageSize == Base ^ PageDigits

\* _fhex
Value(s) == FoldLeft(LAMBDA v, d : v * Base + d, 0, s)

\* toString(16)
Digits(n) ==
  LET len == Min({k \in 1..20 : n < Base ^ k})
  IN  [i \in 1..len |-> (n \div (Base ^ (len - i))) % Base]

\* hex: a negative number is taken to be one of LowDigits digits.
Hex(n) == Digits(IF n < 0 THEN n + Low ELSE n)

Zeros(n) == [i \in 1..n |-> 0]

BnRound(s, num) ==
  IF Len(s) <= num THEN <<0>> ELSE SubSeq(s, 1, Len(s) - num) \o Zeros(num)

BnMod(s, cnt) == Value(SubSeq(s, Max({1, Len(s) - cnt + 1}), Len(s)))

\* bn_add: & 0xFFFFFFFF and hex leave the low digits of a negative number.
MutantBnAddNoBorrow(s, num) ==
  LET top == Value(SubSeq(s, 1, Len(s) - LowDigits))
      ls == Value(SubSeq(s, Len(s) - LowDigits + 1, Len(s))) + num
      low == Digits(ls % Low)
  IN  IF Len(s) <= LowDigits THEN Hex(Value(s) + num)
      ELSE Hex(top + (IF ls < 0 THEN 0 ELSE ls \div Low)) \o Zeros(LowDigits - Len(low)) \o low
BnAdd(s, num) ==
  LET top == Value(SubSeq(s, 1, Len(s) - LowDigits))
      ls == Value(SubSeq(s, Len(s) - LowDigits + 1, Len(s))) + num
      low == Digits(ls % Low)
  IN  IF Len(s) <= LowDigits THEN Hex(Value(s) + num)
      ELSE Hex(top + (IF ls < 0 THEN -1 ELSE ls \div Low)) \o Zeros(LowDigits - Len(low)) \o low

\* bn_cmp: the rest of a short string is NaN, and no comparison with NaN holds.
BnCmp(a, b) ==
  LET Head1(s) == Value(SubSeq(s, 1, Min({HeadDigits, Len(s)})))
      Rest(s) == Value(SubSeq(s, HeadDigits + 1, Len(s)))
  IN  IF Len(a) # Len(b) THEN Len(a) - Len(b)
      ELSE IF Head1(a) # Head1(b) THEN Head1(a) - Head1(b)
      ELSE IF Len(a) <= HeadDigits THEN 0 ELSE Rest(a) - Rest(b)

BnCanonicalize(s) ==
  LET significant == {i \in DOMAIN s : s[i] # 0}
  IN  IF significant = {} THEN <<>> ELSE SubSeq(s, Min(significant), Len(s))

-----------------------------------------------------------------------------
(* haddrline.js *)

\* The pages that fill the hole from one page to the next, and the next.
Filled(caddr, next) ==
  LET hole == 1..((Value(next) - Value(caddr) - 1) \div PageSize)
      Step(seq, i) == Append(seq, BnAdd(IF seq = <<>> THEN caddr ELSE Last(seq), PageSize))
      steps == FoldLeft(Step, <<>>, [i \in hole |-> i])
  IN  Append(SelectSeq(steps, LAMBDA j : BnCmp(j, next) < 0), next)

\* A page goes to the last chunk if the hole is small enough.
AddPage(chunks, addr) ==
  LET last == Last(chunks)
      near == BnCmp(BnAdd(Last(last), PageSize * FillPages), addr) > 0
  IN  IF chunks # <<>> /\ near
        THEN [chunks EXCEPT ![Len(chunks)] = last \o Filled(Last(last), addr)]
        ELSE Append(chunks, <<addr>>)

Pchunks(m) ==
  LET addrs == {k \in DOMAIN m : m[k] # "romemory"}
  IN  FoldLeft(AddPage, <<>>, SetToSortSeq(addrs, LAMBDA a, b : BnCmp(a, b) < 0))

\* The autorun of pmaps: empty() removes the flags too.
DrawPchunks(p) ==
  IF p.s.pmaps = None THEN p
  ELSE [p EXCEPT !.chunks = Pchunks(p.s.pmaps), !.hflags = [k \in DOMAIN @ |-> None]]

Boxes(p) == UNION {ToSet(p.chunks[i]) : i \in DOMAIN p.chunks}

\* draw_hflag; without an address the autorun returns before it.
MutantDrawHflagKeep(p, name) ==
  LET box == BnRound(p.s[name], PageDigits)
  IN  IF p.s[name] = None \/ box \notin Boxes(p) THEN p ELSE [p EXCEPT !.hflags[name] = box]
DrawHflag(p, name) ==
  LET box == BnRound(p.s[name], PageDigits)
  IN  IF p.s[name] = None THEN p
      ELSE [p EXCEPT !.hflags[name] = IF box \in Boxes(p) THEN box ELSE None]

Run(p, fxn) == IF fxn = "pmaps" THEN DrawPchunks(p) ELSE DrawHflag(p, fxn)

HaddrlineScript(defaults) ==
  LET fresh == FreshSession(defaults) @@
               [chunks |-> <<>>, hflags |-> [k \in {"iaddr", "daddr"} |-> None]]
      Start(p, fxn) == Autorun(Run(p, fxn), fxn, {fxn})
  IN  FoldLeft(Start, fresh, <<"pmaps", "iaddr", "daddr">>)

\* The click handlers: get_addr is the address under the mouse; update_dview
\* and the context menu set it.  dview and dirtyiaddr, which they set as well,
\* are module WebClient's: nothing here reads them.
GetAddr(box, offset) == BnAdd(box, offset)

-----------------------------------------------------------------------------

Init ==
  /\ page = HaddrlineScript([pmaps |-> None, iaddr |-> None, daddr |-> None])
  /\ pmaps = <<>>
  /\ emptied = [k \in {"iaddr", "daddr"} |-> FALSE]

\* The program touches a page, for the first time or as data that is written.
Touch(k, type) ==
  /\ Cardinality(DOMAIN pmaps \cup {k}) <= MaxPages
  /\ k \in DOMAIN pmaps => pmaps[k] = "romemory"
  /\ pmaps' = (k :> type) @@ pmaps
  /\ page' = Set(page, "pmaps", pmaps')
  /\ emptied' = IF Contains(page.pend, "pmaps") THEN emptied ELSE [f \in DOMAIN emptied |-> TRUE]

ProcessTimeout ==
  /\ page.pend # <<>>
  /\ page' = FoldLeft(Run, TakePend(page), page.pend)
  /\ UNCHANGED <<pmaps, emptied>>

\* The flag of an address that waits to be drawn keeps its place in the queue.
Select(name, addr) ==
  /\ page' = Set(page, name, addr)
  /\ emptied' = [emptied EXCEPT ![name] = @ /\ Contains(page.pend, name)]
  /\ UNCHANGED pmaps

Click(box, offset) == Select("daddr", GetAddr(box, offset))

ContextMenu(box, offset) == Select("iaddr", GetAddr(box, offset))

\* The address is selected elsewhere, or cleared in the controls.
SelectData(addr) == Select("daddr", addr)

Next ==
  \/ ProcessTimeout
  \/ \E k \in Pages, type \in {"memory", "romemory"} : Touch(k, type)
  \/ \E box \in Boxes(page), o \in Offsets : Click(box, o) \/ ContextMenu(box, o)
  \/ \E addr \in Selected \cup {None} : SelectData(addr)

Spec == Init /\ [][Next]_vars

-----------------------------------------------------------------------------
(* Properties *)

Drawn == page.s.pmaps # None /\ ~Contains(page.pend, "pmaps")

\* The pages the line must show.
Used == {k \in DOMAIN page.s.pmaps : page.s.pmaps[k] # "romemory"}

\* Every page of instructions or written memory has exactly one box, the boxes
\* go up without repetition, those of a chunk are adjacent pages and those of
\* two chunks are not (the autorun of pmaps, over bn_cmp and bn_add).
ChunksCoverPages ==
  Drawn =>
    LET boxes == FlattenSeq(page.chunks)
        Adjacent(a, b) == Value(b) = Value(a) + PageSize
    IN  /\ Used \subseteq ToSet(boxes)
        /\ \A i \in 1..(Len(boxes) - 1) : Value(boxes[i]) < Value(boxes[i + 1])
        /\ \A c \in ToSet(page.chunks) : \A i \in 1..(Len(c) - 1) : Adjacent(c[i], c[i + 1])
        /\ \A i \in 1..(Len(page.chunks) - 1) :
             ~Adjacent(Last(page.chunks[i]), Head(page.chunks[i + 1]))

\* The flag of a selected address is in the box of its page, is drawn if there is
\* such a box, and is on no other, though pages are redrawn and addresses
\* selected in any order; a line that is drawn anew after the selection has
\* lost the flag (empty() of the pmaps autorun; no autorun draws it again).  Of
\* an address that was cleared nothing is said but that its flag, which stays
\* where it was (the autorun returns early), is in a box that is drawn.
FlagsAtAddress ==
  page.pend = <<>> =>
    \A k \in {"iaddr", "daddr"} :
      LET addr == page.s[k]
          here == {b \in Boxes(page) : Value(b) = Value(addr) - BnMod(addr, PageDigits)}
      IN  IF addr = None THEN page.hflags[k] \in Boxes(page) \cup {None}
          ELSE IF here = {} \/ emptied[k] THEN page.hflags[k] = None
          ELSE page.hflags[k] \in here

\* What the line shows: the pages, and the flags on the pages of their addresses.
HaddrlineShown == ChunksCoverPages /\ FlagsAtAddress

\* bn_add is addition, digits beyond the ones it adds to included, unless the
\* result is negative; bn_cmp orders the strings without leading zeros as the
\* numbers, and bn_canonicalize keeps the number (bignum.js).
BignumsAreNumbers ==
  \A k \in DOMAIN pmaps, o \in 0..(PageSize * FillPages) :
    LET a == BnAdd(k, o)
        b == BnAdd(a, -o)
        n == BnAdd(k, -o)
    IN  /\ Value(a) = Value(k) + o
        /\ Value(b) = Value(k) /\ BnCanonicalize(b) = BnCanonicalize(k)
        /\ Value(k) >= o => Value(n) = Value(k) - o
        /\ \A j \in DOMAIN pmaps : (BnCmp(k, j) < 0) = (Value(k) < Value(j))
        /\ Value(BnRound(a, PageDigits)) + BnMod(a, PageDigits) = Value(a)
==============================================================================
