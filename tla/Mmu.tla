--------------------------------- MODULE Mmu ---------------------------------
(***************************************************************************)
(* Page tables of the aarch64 port (sys/kernel/aarch64/mm/mmu.c), and the  *)
(* processor that walks them.                                              *)
(*                                                                         *)
(* aarch64_map_page and aarch64_unmap_page descend from the root to the    *)
(* last table, one next_level a step; the processor may look up any page   *)
(* between two steps and keep what it found in its TLB.  Tables are read   *)
(* and written through the higher half, which is taken to stay mapped; but *)
(* a new table is cleared through its physical address used as a virtual   *)
(* one, and that address is translated like any other.                     *)
(*                                                                         *)
(* A virtual page is the half it lies in and its index at each level; the  *)
(* physical memory is numbered in pages.                                   *)
(*                                                                         *)
(* pmm_alloc does not mark what it grants, so that the second table that   *)
(* is allocated since boot is the frame of the first.  What is promised    *)
(* here is promised until then (Once).                                     *)
(***************************************************************************)
EXTENDS Integers, FiniteSetsExt

CONSTANTS
  Index,       \* indices into a table (0 .. 511)
  NearLimit,   \* the level 1 index that has bit 37 or 38 set (128)
  Frames,      \* the frames of memory, 0 among them
  Root,        \* ttbr0_el1 and ttbr1_el1, as aarch64_get_pagemap reads them
  BootTables,  \* what the other frames hold at boot, the bootloader's tables among them
  Pools,       \* the sets of frames pmm.c may have free at boot
  Junk,        \* what a frame of the pool may hold before it is cleared
  Identity,    \* by frame of the pool, and 0: the page whose address it equals
  Targets,     \* the virtual pages callers map and unmap
  Pages,       \* the physical pages they map them to
  Rights,      \* the rights they ask for: sets of "W", "X", "U"
  Cached,      \* bound: the virtual pages the TLB is modelled for
  NULL

Pool == UNION Pools

\* The levels of tables; level0_index of the source is idx[1].
Levels == 4

Addresses == [half : {0, 1}, idx : [1 .. Levels -> Index]]

\* A descriptor: absent, next table or page (PTE_P | PTE_TBL), or block (PTE_P).
Invalid     == [kind |-> "none", addr |-> 0, rights |-> {}]
Table(f)    == [kind |-> "table", addr |-> f, rights |-> {}]
Page(p, r)  == [kind |-> "table", addr |-> p, rights |-> r]
Block(p)    == [kind |-> "block", addr |-> p, rights |-> {}]
EmptyTable  == [x \in Index |-> Invalid]

Descriptor == [kind : {"none", "table", "block"}, addr : Frames,
               rights : SUBSET {"RO", "NX", "U"}]

\* Mutant: the flags of vmm.h taken for those of a descriptor.
Bug_RawFlags(r) == r

\* The descriptor bits aarch64_map_page sets for the rights asked for.
PteRights(r) == (IF "W" \in r THEN {} ELSE {"RO"})
                  \cup (IF "X" \in r THEN {} ELSE {"NX"})
                  \cup (IF "U" \in r THEN {"U"} ELSE {})

\* What a page is found, or asked, to be mapped to.
Results == [addr : Frames, rights : SUBSET {"RO", "NX", "U"}]

ASSUME ShapeAssumption ==
  Index \subseteq Nat /\ Frames \subseteq Nat /\ 0 \in Frames
ASSUME TableAssumption ==
  /\ Root \in [{0, 1} -> Frames]
  /\ BootTables \in [Frames \ Pool -> [Index -> Descriptor]]
  /\ Junk \subseteq [Index -> Descriptor]
  /\ Pool \subseteq Frames \ {0}
  /\ Identity \in [Pool \cup {0} -> Addresses]
ASSUME CallerAssumption ==
  /\ Targets \subseteq Addresses /\ Cached \subseteq Addresses
  /\ Pages \subseteq (Frames \ Pool) \ {0}
ASSUME NullAssumption ==
  /\ NULL \notin Frames /\ NULL \notin Results
  /\ NULL \notin [vaddr : Targets, to : Results \cup {NULL}]

VARIABLES
  mem,      \* the tables, by frame
  free,     \* the frames pmm.c has free
  tlb,      \* the translations the processor has kept, by page
  pc,       \* where the call in progress is
  op,       \* its arguments: the page and what it is to be mapped to, or NULL
  level,    \* the level it has reached
  table,    \* the table of that level
  next,     \* local of next_level: the frame pmm_alloc returned
  granted   \* history, read by no step: how often pmm_alloc has granted a
            \* frame for a table; 2 stands for any number above 1

call_vars == <<pc, op, level, table, next>>
vars == <<mem, free, tlb, call_vars, granted>>

\* The table that entry x of table t leads to in memory m, or NULL.
Linked(m, t, x) ==
  IF t # NULL /\ m[t][x].kind = "table" THEN m[t][x].addr ELSE NULL

\* The table of level l on the way to page v in memory m, or NULL.
TableOf(m, v, l) ==
  LET t1 == Root[v.half]
      t2 == Linked(m, t1, v.idx[1])
      t3 == Linked(m, t2, v.idx[2])
      t4 == Linked(m, t3, v.idx[3])
  IN  CASE l = 1 -> t1 [] l = 2 -> t2 [] l = 3 -> t3 [] l = 4 -> t4

\* The descriptor for v in that table.
EntryOf(m, v, l) == m[TableOf(m, v, l)][v.idx[l]]

\* Where page v lies in a block that is entered at level l.
Offset(v, l) == IF l = 3 THEN v.idx[4] ELSE v.idx[3] * Cardinality(Index) + v.idx[4]

\* The lookup the processor does: the last level has pages, levels 2 and 3 may
\* have blocks.
HwWalk(m, v) ==
  LET Holds(l, kind) == TableOf(m, v, l) # NULL /\ EntryOf(m, v, l).kind = kind
      Found(l, n)    == [addr   |-> EntryOf(m, v, l).addr + n,
                         rights |-> EntryOf(m, v, l).rights]
  IN  CASE Holds(4, "table") -> Found(4, 0)
        [] Holds(3, "block") -> Found(3, Offset(v, 3))
        [] Holds(2, "block") -> Found(2, Offset(v, 2))
        [] OTHER -> NULL

\* ttbr_index: is any bit above bit 36 set?
ttbr_index(v) ==
  IF v.half = 0 /\ v.idx[1] = 0 /\ v.idx[2] < NearLimit THEN 0 ELSE 1

\* next_level(t, x, 0): the next table, or 0.
next_level(t, x) == IF mem[t][x].kind = "table" THEN mem[t][x].addr ELSE 0

\* aarch64_translate_vaddr: 0 when a level is missing.
translate_vaddr(v) ==
  LET l0 == Root[ttbr_index(v)]
      l1 == next_level(l0, v.idx[1])
      l2 == next_level(l1, v.idx[2])
      l3 == next_level(l2, v.idx[3])
  IN  IF l1 = 0 \/ l2 = 0 \/ l3 = 0 THEN 0 ELSE mem[l3][v.idx[4]].addr

\* The descriptor the call in progress is looking at.
Current == mem[table][op.vaddr.idx[level]]

\* What a load or store at v reaches.
Access(v) == IF v \in Cached /\ tlb[v] # NULL THEN tlb[v] ELSE HwWalk(mem, v)

Writable(v) == Access(v) # NULL /\ "RO" \notin Access(v).rights

------------------------------------------------------------------------------

Init ==
  /\ mem \in {[f \in Frames |-> IF f \in Pool THEN j ELSE BootTables[f]] : j \in Junk}
  /\ free \in Pools
  /\ tlb = [v \in Cached |-> NULL]
  /\ pc = "idle" /\ op = NULL /\ level = 0 /\ table = 0 /\ next = 0
  /\ granted = 0

\* Entering aarch64_map_page or aarch64_unmap_page.
Call(v, to) ==
  /\ pc = "idle"
  /\ op' = [vaddr |-> v, to |-> to]
  /\ level' = 1
  /\ table' = Root[ttbr_index(v)]
  /\ pc' = "walk"
  /\ UNCHANGED <<mem, free, tlb, next, granted>>

\* aarch64_map_page; it does not look at the page size it is given.
Map(v, p, r) == Call(v, [addr |-> p, rights |-> PteRights(r)])
Unmap(v)     == Call(v, NULL)

Return == pc' = "idle" /\ op' = NULL /\ level' = 0 /\ table' = 0 /\ next' = 0

\* next_level finds the next table; aarch64_unmap_page does not go on to frame 0.
Descend ==
  /\ pc = "walk" /\ level < Levels
  /\ Current.kind = "table"
  /\ op.to = NULL => Current.addr # 0
  /\ table' = Current.addr
  /\ level' = level + 1
  /\ UNCHANGED <<mem, free, tlb, pc, op, next, granted>>

\* aarch64_unmap_page: a level is missing, there is nothing to unmap.
Missing ==
  /\ pc = "walk" /\ level < Levels
  /\ op.to = NULL
  /\ next_level(table, op.vaddr.idx[level]) = 0
  /\ Return
  /\ UNCHANGED <<mem, free, tlb, granted>>

\* pmm_alloc(1) grants the lowest free frame, or 0.  It sets no bit: the frame
\* stays free.
Pmm == INSTANCE FirstFit WITH Callers <- {}, Requests <- {1}, NULL <- 0,
                              open <- TRUE, request <- 0, held <- <<>>

pmm_alloc == IF Pmm!RunStarts(1) = {} THEN 0 ELSE Min(Pmm!RunStarts(1))

\* aarch64_map_page: next_level allocates the missing table.
AllocTable ==
  /\ pc = "walk" /\ level < Levels
  /\ Current.kind # "table"
  /\ op.to # NULL
  /\ next' = pmm_alloc
  /\ granted' = IF pmm_alloc = 0 \/ granted = 2 THEN granted ELSE granted + 1
  /\ pc' = "clear"
  /\ UNCHANGED <<mem, free, tlb, op, level, table>>

\* Mutant: the new table is not cleared.
Bug_NotCleared(f) == UNCHANGED mem

\* memset of one page.
Clear(f) == mem' = [mem EXCEPT ![f] = EmptyTable]

\* memset((void *)next, 0, 4096): at the virtual address next.
ClearTable ==
  /\ pc = "clear"
  /\ Writable(Identity[next])
  /\ Clear(Access(Identity[next]).addr)
  /\ pc' = "link"
  /\ UNCHANGED <<free, tlb, op, level, table, next, granted>>

\* The address is not mapped: a data abort.
ClearFaults ==
  /\ pc = "clear"
  /\ ~Writable(Identity[next])
  /\ pc' = "fault"
  /\ UNCHANGED <<mem, free, tlb, op, level, table, next, granted>>

\* Mutant: the address of the table above is entered for that of the new one.
Bug_OwnAddress == mem' = [mem EXCEPT ![table][op.vaddr.idx[level]] = Table(table)]

\* level_virt[index] = next | PTE_P | PTE_TBL
SetLink == mem' = [mem EXCEPT ![table][op.vaddr.idx[level]] = Table(next)]

\* Enter the new table in the one above.  The descriptor just written is not
\* 0, whatever pmm_alloc returned, so the panic that follows is never taken.
LinkTable ==
  /\ pc = "link"
  /\ SetLink
  /\ table' = next
  /\ level' = level + 1
  /\ pc' = "walk"
  /\ UNCHANGED <<free, tlb, op, next, granted>>

\* Mutant: the address without the rights.
Bug_AllRights == mem' = [mem EXCEPT ![table][op.vaddr.idx[level]] =
                   IF op.to = NULL THEN Invalid ELSE Page(op.to.addr, {})]

\* Mutant: PTE_TBL forgotten.
Bug_NoTableBit == mem' = [mem EXCEPT ![table][op.vaddr.idx[level]] =
                    IF op.to = NULL THEN Invalid ELSE Block(op.to.addr)]

\* pte[level3_index] = ...
SetEntry == mem' = [mem EXCEPT ![table][op.vaddr.idx[level]] =
              IF op.to = NULL THEN Invalid ELSE Page(op.to.addr, op.to.rights)]

\* The last table is reached: write the entry.
WriteEntry ==
  /\ pc = "walk" /\ level = Levels
  /\ SetEntry
  /\ pc' = "invalidate"
  /\ UNCHANGED <<free, tlb, op, level, table, next, granted>>

\* invalidate_page issues a data cache operation; the TLB keeps what it has.
Invalidate ==
  /\ pc = "invalidate"
  /\ Return
  /\ UNCHANGED <<mem, free, tlb, granted>>

\* The processor looks a page up, because of an access or speculatively.
TlbFill(v) ==
  /\ HwWalk(mem, v) # NULL
  /\ tlb' = [tlb EXCEPT ![v] = HwWalk(mem, v)]
  /\ UNCHANGED <<mem, free, call_vars, granted>>

TlbEvict(v) ==
  /\ tlb[v] # NULL
  /\ tlb' = [tlb EXCEPT ![v] = NULL]
  /\ UNCHANGED <<mem, free, call_vars, granted>>

Next == \/ \E v \in Targets, p \in Pages, r \in Rights : Map(v, p, r)
        \/ \E v \in Targets : Unmap(v)
        \/ Descend \/ Missing \/ AllocTable \/ ClearTable \/ ClearFaults
        \/ LinkTable \/ WriteEntry \/ Invalidate
        \/ \E v \in Cached : TlbFill(v) \/ TlbEvict(v)

Spec == Init /\ [][Next]_vars

------------------------------------------------------------------------------

\* What callers may ask a page to be mapped to.
Asked == {[addr |-> p, rights |-> PteRights(r)] : p \in Pages, r \in Rights}

TypeOK ==
  /\ mem \in [Frames -> [Index -> Descriptor]]
  /\ free \subseteq Pool
  /\ tlb \in [Cached -> Results \cup {NULL}]
  /\ pc \in {"idle", "walk", "clear", "link", "invalidate", "fault"}
  /\ op \in [vaddr : Targets, to : Results \cup {NULL}] \cup {NULL}
  /\ level \in 0 .. Levels
  /\ table \in Frames
  /\ next \in Frames
  /\ granted \in 0 .. 2

\* Up to now no frame has been granted for a second table.
Once == granted < 2

SamePath(v, w, l) == v.half = w.half /\ \A k \in 1 .. (l - 1) : v.idx[k] = w.idx[k]

\* The table of level l on the way to v is on the way to no other page but by the
\* same entries.
OnlyOn(m, v, l) ==
  \A w \in Addresses, k \in 1 .. Levels :
    TableOf(m, w, k) = TableOf(m, v, l) => k = l /\ SamePath(v, w, l)

\* The tables form a tree (mmu.c:61-82), until a frame is granted again: no frame
\* is a table at two places.
TablesApart ==
  Once => \A v \in Targets, l \in 1 .. Levels :
            TableOf(mem, v, l) # NULL => OnlyOn(mem, v, l)

\* Software and processor read the tables alike (mmu.c:105-139), until a frame is
\* granted again: a translation is found if and only if there is one.
TranslateAgrees ==
  (pc = "idle" /\ Once) => \A v \in Targets :
    LET hw == HwWalk(mem, v)
    IN  translate_vaddr(v) = IF hw = NULL THEN 0 ELSE hw.addr

\* At no moment, in the middle of a call included, can the processor pick up a
\* translation that nobody may have asked for, be it from memory that was not
\* a table yet (mmu.c:71-74); until a frame is granted again.
TlbKnown ==
  Once => \A v \in Cached : (tlb[v] # NULL /\ v \in Targets) => tlb[v] \in Asked

\* A call maps its page as asked, by the time it invalidates it (mmu.c:141-220):
\* "Maps a virtual address to a physical address" (mmu.h:73).
MapTakesEffect == pc = "invalidate" => HwWalk(mem, op.vaddr) = op.to

\* The promise of AddressSpace: a call changes what the processor finds for the
\* page it was given, in one step, and for no other page of either half
\* (mmu.c:141-220).  It is void once a frame has been granted again.
Promise == INSTANCE AddressSpace WITH
             Results <- Asked,
             mapping <- [v \in Addresses |-> HwWalk(mem, v)],
             request <- IF pc \in {"walk", "clear", "link", "fault"} THEN op ELSE NULL,
             void <- ~Once

AddressSpacePromise == Promise!SpaceSpec

\* invalidate_page is there so that no access uses the old translation:
\* "Invalidate the page" (mmu.c:52).
NoStaleTlb ==
  pc = "idle" => \A v \in Cached : tlb[v] # NULL => tlb[v] = HwWalk(mem, v)

\* Running out of memory is meant to end in a panic: "Could not allocate next
\* level" (mmu.c:77).
AllocFailurePanics == [][pc = "clear" /\ next = 0 => pc' = "panic"]_pc

------------------------------------------------------------------------------

(***************************************************************************)
(* What the theorems assume of the state the bootloader leaves.            *)
(***************************************************************************)

\* Its tables are no free memory, nor frame 0.
BootPlaced ==
  \A v \in Addresses, l \in 1 .. Levels :
    TableOf(BootTables, v, l) # NULL =>
      TableOf(BootTables, v, l) \in (Frames \ Pool) \ (IF l = 1 THEN {} ELSE {0})

\* The pages callers will map lie in the half their address is taken for, are
\* not mapped yet, by a page or a block, and the tables on the way to them form
\* a tree.
BootTargets ==
  \A v \in Targets :
    /\ ttbr_index(v) = v.half
    /\ \A l \in 1 .. Levels :
         TableOf(BootTables, v, l) # NULL =>
           /\ \/ EntryOf(BootTables, v, l) = Invalid
              \/ l < Levels /\ EntryOf(BootTables, v, l).kind = "table"
           /\ OnlyOn(BootTables, v, l)

\* Free memory is mapped at its own address, to be written; frame 0 is not
\* mapped at all; and no caller maps these pages anew.
BootIdentity ==
  /\ \A f \in Pool \cup {0} : Identity[f] \notin Targets
  /\ HwWalk(BootTables, Identity[0]) = NULL
  /\ \A f \in Pool : \E r \in SUBSET {"NX", "U"} :
       HwWalk(BootTables, Identity[f]) = [addr |-> f, rights |-> r]

BootSound == BootPlaced /\ BootTargets /\ BootIdentity

\* A block lies in memory, whichever level it is read at.
Fits(d) == d.kind = "block" =>
             \A v \in Addresses, l \in {2, 3} : d.addr + Offset(v, l) \in Frames

BootBlocks == \A x \in Index : /\ \A f \in Frames \ Pool : Fits(BootTables[f][x])
                               /\ \A j \in Junk : Fits(j[x])

------------------------------------------------------------------------------

\* What a step of a call may count on, however often frames have been granted.
PhaseInv ==
  /\ pc \in {"walk", "clear", "link", "invalidate"} => op # NULL /\ level # 0
  /\ pc \in {"clear", "link"} => op.to # NULL /\ level < Levels

BlocksInv == \A f \in Frames, x \in Index : Fits(mem[f][x])

TypedInv == TypeOK /\ PhaseInv /\ BlocksInv

\* The call in progress stands at the table of its level.
CallInv ==
  /\ op # NULL => op.to \in Asked \cup {NULL}
  /\ pc \in {"walk", "clear", "link"} => table = TableOf(mem, op.vaddr, level)
  /\ pc \in {"clear", "link"} => Current = Invalid

\* The frame it has been given is on no way yet, and is cleared before it is.
NextInv ==
  /\ pc \in {"clear", "link"} =>
       /\ next \in Pool \cup {0}
       /\ next # 0 => /\ granted = 1
                      /\ \A w \in Addresses, k \in 1 .. Levels : TableOf(mem, w, k) # next
  /\ pc = "link" => next # 0 /\ mem[next] = EmptyTable

\* Frame 0 is no table of a lower level, and the pool holds no table before the
\* first is granted.
PlacedInv ==
  \A w \in Addresses, k \in 1 .. Levels :
    TableOf(mem, w, k) # NULL =>
      /\ TableOf(mem, w, k) \in Frames \ (IF k = 1 THEN {} ELSE {0})
      /\ granted = 0 => TableOf(mem, w, k) \notin Pool

\* On the way to a page of the callers' every entry leads on or is absent, and
\* the last is what some caller has asked for.
TargetInv ==
  \A v \in Targets, l \in 1 .. Levels :
    TableOf(mem, v, l) # NULL =>
      LET d == EntryOf(mem, v, l)
      IN  \/ d = Invalid
          \/ d.kind = "table" /\ (l = Levels => [addr |-> d.addr, rights |-> d.rights] \in Asked)

\* The other pages are mapped as they were at boot.
OtherInv ==
  \A w \in Addresses \ Targets : HwWalk(mem, w) = HwWalk(BootTables, w)

\* The processor keeps nothing but what was there to be found.
TlbInv ==
  \A v \in Cached : tlb[v] # NULL =>
    IF v \in Targets THEN tlb[v] \in Asked ELSE tlb[v] = HwWalk(BootTables, v)

TreeInv == /\ CallInv /\ NextInv /\ PlacedInv /\ TargetInv /\ TablesApart
           /\ OtherInv /\ TlbInv

IInv == TypedInv /\ (Once => TreeInv)
==============================================================================
