--------------------------------- MODULE Pmm ---------------------------------
(***************************************************************************)
(* The physical memory manager (sys/kernel/mm/pmm.c): a bitmap with one    *)
(* bit per page frame, 0 meaning free.                                     *)
(*                                                                         *)
(* pmm_init walks the memory map of the bootloader, cuts the storage of    *)
(* the bitmap out of the first usable segment large enough for it, marks   *)
(* every frame used and then frees the frames of the usable segments.      *)
(* pmm_alloc scans the bitmap for a run of free frames, pmm_free clears    *)
(* the bits of a run.                                                      *)
(*                                                                         *)
(* The kernel runs on one processor with interrupts masked, so calls do    *)
(* not overlap; the loops are nevertheless modelled one iteration a step,  *)
(* because what they have established half-way is what makes them right.   *)
(*                                                                         *)
(* Addresses and lengths are counted in page frames: the bootloader aligns *)
(* usable segments to a page.  A bit is named by its index in the bitmap,  *)
(* which is the number of the frame it stands for.                         *)
(***************************************************************************)
EXTENDS Integers, Sequences

CONSTANTS
  BitsPerByte,   \* bits of a byte of the bitmap (8)
  PageSize,      \* bytes of a page frame (0x1000)
  MemoryMaps,    \* the memory maps the bootloader may hand over
  Garbage,       \* what RAM may hold at boot: the bits that happen to be 0
  Callers,       \* the users of the allocator
  Requests,      \* the numbers of frames they ask for
  NULL           \* the null pointer

Entry == [base : Nat, length : Nat, type : {"usable", "reserved"}]

\* The entries whose type is LIMINE_MEMMAP_USABLE.
Usable(m) == {k \in DOMAIN m : m[k].type = "usable"}

FramesOf(e) == e.base .. (e.base + e.length - 1)

UsableFrames(m) == UNION {FramesOf(m[k]) : k \in Usable(m)}

Disjoint(d, e) == \/ d.base + d.length <= e.base
                  \/ e.base + e.length <= d.base

(***************************************************************************)
(* What the boot protocol says of a memory map: usable entries overlap no  *)
(* other entry, are never empty, and never contain the page at address 0;  *)
(* the entries are sorted by address.                                      *)
(***************************************************************************)
ValidMap(m) ==
  /\ m \in Seq(Entry)
  /\ \A k \in Usable(m) : /\ m[k].base > 0
                          /\ m[k].length > 0
                          /\ \A j \in Usable(m) \ {k} : Disjoint(m[j], m[k])
                          /\ \A j \in Usable(m) : j < k => m[j].base <= m[k].base

ASSUME WidthAssumption == BitsPerByte \in Nat \ {0} /\ PageSize \in Nat \ {0}
ASSUME MapAssumption   == \A m \in MemoryMaps : ValidMap(m)
ASSUME BitsAssumption  == Garbage \subseteq SUBSET Nat
ASSUME CallAssumption  == Requests \subseteq Nat
ASSUME NullAssumption  == NULL \notin Nat /\ NULL \notin Callers
                          /\ NULL \notin [base : Nat, frames : Nat]
                          /\ NULL \notin [caller : Callers, frames : Nat]

VARIABLES
  pc,                \* where the kernel is in this file
  mmap,              \* mmap_resp->entries, which init_bitmap edits in place
  bitmap,            \* first frame of the bitmap's storage, or NULL
  zeros,             \* the bits that are 0, counted from the bitmap's start
  bitmap_start_bit,  \* where pmm_alloc starts to search
  bitmap_size,       \* local of init_bitmap, in frames
  i,                 \* loop index of init_bitmap
  frames,            \* argument of the pmm_alloc call in progress
  caller,            \* who made it, or NULL
  current_bit, bit, frames_found,   \* locals of pmm_alloc
  held,              \* per caller: the run pmm_alloc gave it, or NULL
  bootmap            \* history: the memory map as the bootloader wrote it

init_vars  == <<mmap, bitmap, bitmap_start_bit, bitmap_size, i>>
alloc_vars == <<frames, caller, current_bit, bit, frames_found>>
vars == <<pc, zeros, held, bootmap, init_vars, alloc_vars>>

------------------------------------------------------------------------------

\* find_highest_mmap_entry: the first usable entry with the greatest base.
IsHighest(m, k) ==
  /\ k \in Usable(m)
  /\ \A j \in Usable(m) : /\ m[j].base <= m[k].base
                          /\ m[j].base = m[k].base => k <= j

find_highest_mmap_entry(m) == CHOOSE k \in Usable(m) : IsHighest(m, k)

CeilDiv(a, b) == (a + b - 1) \div b

\* Mutant: rounded down.
Bug_RoundsDown(n) == (n \div BitsPerByte) \div PageSize

\* Bytes a map of n frames needs, n/8, rounded up to whole frames.
SizeFor(n) == CeilDiv(n \div BitsPerByte, PageSize)

\* get_bitmap_size, in frames.
get_bitmap_size(m) ==
  LET e == m[find_highest_mmap_entry(m)] IN SizeFor(e.base + e.length)

\* The number of bits in s frames of bitmap.
Bits(s) == s * PageSize * BitsPerByte

\* The bits that belong to the bitmap, and the frames that hold them.
Storage == 0 .. (Bits(bitmap_size) - 1)
StorageFrames == IF bitmap = NULL THEN {}
                 ELSE bitmap .. (bitmap + bitmap_size - 1)

------------------------------------------------------------------------------

Init ==
  /\ pc = "init"
  /\ mmap \in MemoryMaps
  /\ bootmap = mmap
  /\ zeros \in Garbage
  /\ bitmap = NULL
  /\ bitmap_start_bit = 0 /\ bitmap_size = 0 /\ i = 1
  /\ frames = 0 /\ caller = NULL
  /\ current_bit = 0 /\ bit = 0 /\ frames_found = 0
  /\ held = [c \in Callers |-> NULL]

\* init_bitmap asks for the size of the bitmap.
SizeBitmap ==
  /\ pc = "init"
  /\ Usable(mmap) # {}
  /\ bitmap_size' = get_bitmap_size(mmap)
  /\ pc' = "carve"
  /\ UNCHANGED <<zeros, held, bootmap, mmap, bitmap, bitmap_start_bit, i, alloc_vars>>

\* No usable entry at all: get_bitmap_size panics.
NoUsableMemory ==
  /\ pc = "init"
  /\ Usable(mmap) = {}
  /\ pc' = "panic"
  /\ UNCHANGED <<zeros, held, bootmap, init_vars, alloc_vars>>

\* Mutants: the length is not tested; the comparison is strict.
Bug_AnyLength(e)   == e.type = "usable"
Bug_StrictlyMore(e) == e.type = "usable" /\ e.length > bitmap_size

\* Can entry e pass the test of both loops of init_bitmap?
Fits(e) == e.type = "usable" /\ e.length >= bitmap_size

\* First loop: this entry is not usable or too short for the bitmap.
CarveNext ==
  /\ pc = "carve"
  /\ i \in DOMAIN mmap
  /\ ~Fits(mmap[i])
  /\ i' = i + 1
  /\ UNCHANGED <<pc, zeros, held, bootmap, mmap, bitmap, bitmap_start_bit, bitmap_size, alloc_vars>>

\* Mutant: the base of the entry is not moved.
Bug_KeepsBase(e) == [e EXCEPT !.length = e.length - bitmap_size]

\* What is left of entry e once the bitmap has been taken from its start.
Cut(e) == [base   |-> e.base + bitmap_size,
           length |-> e.length - bitmap_size,
           type   |-> e.type]

\* First loop: take the bitmap from the start of this entry, set all bits.
CarveTake ==
  /\ pc = "carve"
  /\ i \in DOMAIN mmap
  /\ Fits(mmap[i])
  /\ bitmap' = mmap[i].base
  /\ zeros' = zeros \ Storage
  /\ mmap' = [mmap EXCEPT ![i] = Cut(@)]
  /\ i' = 1
  /\ pc' = "release"
  /\ UNCHANGED <<held, bootmap, bitmap_start_bit, bitmap_size, alloc_vars>>

\* First loop ends without a place for the bitmap; nothing notices.
CarveNone ==
  /\ pc = "carve"
  /\ i \notin DOMAIN mmap
  /\ i' = 1
  /\ pc' = "release"
  /\ UNCHANGED <<zeros, held, bootmap, mmap, bitmap, bitmap_start_bit, bitmap_size, alloc_vars>>

\* Mutant: assigned for every frame, whatever it was.
Bug_LastFrame(e) == IF FramesOf(e) = {} THEN bitmap_start_bit ELSE e.base + e.length - 1

\* bitmap_start_bit after the frames of e have been released one by one:
\* it keeps being assigned for as long as it is 0.
StartAfter(e) ==
  LET candidates == FramesOf(e) \ {0}
  IN  IF bitmap_start_bit # 0 \/ candidates = {} THEN bitmap_start_bit
      ELSE IF e.base = 0 THEN 1 ELSE e.base

\* Second loop: free the frames of one usable entry.
ReleaseEntry ==
  /\ pc = "release"
  /\ i \in DOMAIN mmap
  /\ Fits(mmap[i])
  /\ zeros' = zeros \cup FramesOf(mmap[i])
  /\ bitmap_start_bit' = StartAfter(mmap[i])
  /\ i' = i + 1
  /\ UNCHANGED <<pc, held, bootmap, mmap, bitmap, bitmap_size, alloc_vars>>

\* Second loop: skip an entry that is not usable, or shorter than the bitmap.
ReleaseNext ==
  /\ pc = "release"
  /\ i \in DOMAIN mmap
  /\ ~Fits(mmap[i])
  /\ i' = i + 1
  /\ UNCHANGED <<pc, zeros, held, bootmap, mmap, bitmap, bitmap_start_bit, bitmap_size, alloc_vars>>

InitDone ==
  /\ pc = "release"
  /\ i \notin DOMAIN mmap
  /\ pc' = "idle"
  /\ UNCHANGED <<zeros, held, bootmap, init_vars, alloc_vars>>

------------------------------------------------------------------------------

\* A caller enters pmm_alloc(n).
AllocCall(c, n) ==
  /\ pc = "idle"
  /\ held[c] = NULL
  /\ pc' = "scan"
  /\ caller' = c
  /\ frames' = n
  /\ current_bit' = bitmap_start_bit
  /\ bit' = 0
  /\ frames_found' = 0
  /\ UNCHANGED <<zeros, held, bootmap, init_vars>>

\* Mutant: the last bit of the bitmap is not looked at.
Bug_OneShort == current_bit + 1 < Bits(get_bitmap_size(mmap))

\* The test of the loop, evaluated before every iteration.
InRange == current_bit < Bits(get_bitmap_size(mmap))

\* pmm_alloc returns; its locals are gone.
Return ==
  /\ pc' = "idle"
  /\ caller' = NULL
  /\ frames' = 0 /\ current_bit' = 0 /\ bit' = 0 /\ frames_found' = 0
  /\ UNCHANGED <<zeros, bootmap, init_vars>>

\* The start of the run that is growing; 0 stands for "none yet".
RunStart == IF bit = 0 THEN current_bit ELSE bit

\* One more free frame, and the run is still too short.
ScanGrow ==
  /\ pc = "scan" /\ InRange /\ bitmap # NULL
  /\ current_bit \in zeros
  /\ frames_found + 1 < frames
  /\ bit' = RunStart
  /\ frames_found' = frames_found + 1
  /\ current_bit' = current_bit + 1
  /\ UNCHANGED <<pc, zeros, held, bootmap, init_vars, frames, caller>>

\* One more free frame completes the run: return its address.  The bits of
\* the run are left as they are.  A run at frame 0 reads as a failure.
ScanFound ==
  /\ pc = "scan" /\ InRange /\ bitmap # NULL
  /\ current_bit \in zeros
  /\ frames_found + 1 >= frames
  /\ held' = IF RunStart = 0 THEN held
             ELSE [held EXCEPT ![caller] = [base |-> RunStart, frames |-> frames]]
  /\ Return

\* Mutants: frames_found survives the end of the run; the loop does not advance.
Bug_KeepsCount == bit' = 0 /\ current_bit' = current_bit + 1 /\ UNCHANGED frames_found
Bug_Stays      == bit' = 0 /\ frames_found' = 0 /\ UNCHANGED current_bit

\* Forget the run found so far and go on behind it.
StartOver == bit' = 0 /\ frames_found' = 0 /\ current_bit' = current_bit + 1

\* A used frame ends the run.
ScanReset ==
  /\ pc = "scan" /\ InRange /\ bitmap # NULL
  /\ current_bit \notin zeros
  /\ StartOver
  /\ UNCHANGED <<pc, zeros, held, bootmap, init_vars, frames, caller>>

\* The end of the bitmap: return 0.
ScanFail ==
  /\ pc = "scan" /\ ~InRange
  /\ UNCHANGED held
  /\ Return

\* The bitmap was never placed: the test reads through a null pointer, in the
\* page at address 0, which the bootloader does not map.
ScanNull ==
  /\ pc = "scan" /\ InRange /\ bitmap = NULL
  /\ pc' = "fault"
  /\ UNCHANGED <<zeros, held, bootmap, init_vars, alloc_vars>>

RunOf(r) == r.base .. (r.base + r.frames - 1)

\* pmm_free of a run that pmm_alloc returned.
Free(c) ==
  /\ pc = "idle"
  /\ held[c] # NULL
  /\ zeros' = zeros \cup RunOf(held[c])
  /\ held' = [held EXCEPT ![c] = NULL]
  /\ UNCHANGED <<pc, bootmap, init_vars, alloc_vars>>

------------------------------------------------------------------------------

init_bitmap == \/ SizeBitmap \/ NoUsableMemory
               \/ CarveNext \/ CarveTake \/ CarveNone
               \/ ReleaseEntry \/ ReleaseNext \/ InitDone

Scan == ScanGrow \/ ScanFound \/ ScanReset \/ ScanFail \/ ScanNull

Next == \/ init_bitmap
        \/ Scan
        \/ \E c \in Callers, n \in Requests : AllocCall(c, n)
        \/ \E c \in Callers : Free(c)

Spec == Init /\ [][Next]_vars

\* The processor keeps executing: neither loop stops half-way.  Callers may.
FairSpec == Spec /\ WF_vars(init_bitmap) /\ WF_vars(Scan)

------------------------------------------------------------------------------

Booted == pc \in {"idle", "scan", "fault"}

TypeOK ==
  /\ pc \in {"init", "carve", "release", "idle", "scan", "panic", "fault"}
  /\ mmap \in Seq(Entry)
  /\ bootmap \in MemoryMaps
  /\ bitmap \in Nat \cup {NULL}
  /\ zeros \in SUBSET Nat
  /\ bitmap_start_bit \in Nat
  /\ bitmap_size \in Nat
  /\ i \in Nat
  /\ frames \in Nat
  /\ caller \in Callers \cup {NULL}
  /\ current_bit \in Nat /\ bit \in Nat /\ frames_found \in Nat
  /\ held \in [Callers -> [base : Nat, frames : Nat] \cup {NULL}]

\* Memory the allocator may hand out: usable RAM that does not hold the bitmap.
Allocatable == UsableFrames(bootmap) \ StorageFrames

\* From the moment init_bitmap has placed the bitmap, a 0 in it (pmm.c:115-143)
\* always stands for usable RAM, never for a reserved frame, a hole of the
\* memory map or a frame of the bitmap itself.
FreeIsUsable == bitmap # NULL => zeros \cap Storage \subseteq Allocatable

\* Every frame of a run that pmm_alloc returned (pmm.c:152-173), not only its
\* first, is usable RAM outside the bitmap: the run never bridges a hole.
HeldIsUsable ==
  \A c \in Callers : held[c] # NULL => RunOf(held[c]) \subseteq Allocatable

\* "bitmap_start_bit points to the end of that gap" (pmm.c:45-52): everything
\* below it is in use, and it is itself the first free frame if there is one.
StartsAtFirstFree ==
  (Booted /\ bitmap # NULL) =>
    \A b \in zeros \cap Storage : bitmap_start_bit <= b /\ bitmap_start_bit \in zeros

\* init_bitmap loses no large segment (pmm.c:105-143): a usable segment of the
\* bootloader at least twice as long as the bitmap ends up free, as far as the
\* bitmap reaches and save for the frames that hold it.  (Of the segments that
\* are shorter, some stay marked as used for ever.)
LargeSegmentsKept ==
  Booted => \A k \in Usable(bootmap) :
              bootmap[k].length >= 2 * bitmap_size
                => FramesOf(bootmap[k]) \cap Storage \subseteq zeros \cup StorageFrames

\* pmm_alloc comes back to its caller (pmm.c:152): its scan ends, with a run,
\* with 0, or in the fault of a bitmap that was never placed.
AllocReturns == pc = "scan" ~> pc \in {"idle", "fault"}

\* The bits init_bitmap and pmm_free clear are bits of the storage that was
\* set aside for the bitmap: "Required bitmap size: %d bytes" (pmm.c:103).
ClearsInStorage ==
  [][\A b \in (zeros' \ zeros) \cup (zeros \ zeros') : b \in Storage']_zeros

\* Memory ends on a whole byte of the bitmap.
WholeBytes(m) ==
  Usable(m) # {} =>
    LET e == m[find_highest_mmap_entry(m)] IN (e.base + e.length) % BitsPerByte = 0

\* The same wherever it can be: the division by 8 in pmm.c:96 loses frames only
\* if memory does not end on a whole byte of the bitmap.
ClearsInWholeBytes ==
  [][WholeBytes(bootmap) =>
       \A b \in (zeros' \ zeros) \cup (zeros \ zeros') : b \in Storage']_zeros

\* pmm_alloc searches "for a free pageframe" (pmm.c:50): memory one caller was
\* given and has not returned is not given to another caller.
HeldApart ==
  \A c, d \in Callers :
    (c # d /\ held[c] # NULL /\ held[d] # NULL)
      => RunOf(held[c]) \cap RunOf(held[d]) = {}

\* The free frames are the 0 bits of the storage once the boot code is done; a
\* bitmap that was never placed has none.
FreeFrames == IF Booted /\ bitmap # NULL THEN zeros \cap Storage ELSE {}

\* The promise of FirstFit, kept by the bitmap and the scan (pmm.c:152-189).  The
\* fault of the first use of a bitmap that was never placed stands for a refusal.
Promise == INSTANCE FirstFit WITH
             open    <- Booted,
             free    <- FreeFrames,
             request <- IF pc = "scan" THEN [caller |-> caller, frames |-> frames]
                        ELSE NULL

FirstFitPromise == Promise!AbsSpec

------------------------------------------------------------------------------

\* Before the bitmap is placed the memory map is untouched; afterwards it
\* differs by the storage, which was cut off the start of one usable entry.
PlacedInv ==
  IF bitmap = NULL THEN mmap = bootmap
  ELSE \E e \in Usable(bootmap) :
         /\ bitmap = bootmap[e].base
         /\ bitmap_size <= bootmap[e].length
         /\ mmap = [bootmap EXCEPT ![e] = Cut(@)]

\* The size is that of the map as the bootloader wrote it.
SizeInv == pc \notin {"init", "panic"} =>
             Usable(bootmap) # {} /\ bitmap_size = get_bitmap_size(bootmap)

\* What each phase has not done yet.
PhaseInv ==
  /\ pc \in {"init", "carve", "panic"} => bitmap = NULL
  /\ ~Booted => \A c \in Callers : held[c] = NULL
  /\ pc = "scan" => caller \in Callers

\* The loop invariant of pmm_alloc: the frames_found frames below current_bit
\* are free, and they start at bit.
ScanInv ==
  (pc = "scan" /\ bitmap # NULL) =>
    IF bit = 0 THEN frames_found = 0
    ELSE /\ bit + frames_found = current_bit
         /\ bit .. (current_bit - 1) \subseteq zeros \cap Storage

\* The second loop has freed every entry it has passed that is as long as the
\* bitmap, and once it is done it has passed them all.
Released ==
  pc \in {"release", "idle", "scan", "fault"} =>
    /\ i > 0
    /\ \A k \in Usable(mmap) :
         (k < i /\ mmap[k].length >= bitmap_size) => FramesOf(mmap[k]) \subseteq zeros
    /\ Booted => \A k \in Usable(mmap) : k < i

\* The search starts at the first entry that has been released, and what is
\* given back had never ceased to be free, so that it lies above that, too.
StartInv ==
  /\ pc \in {"init", "carve"} => bitmap_start_bit = 0
  /\ bitmap # NULL =>
       /\ bitmap_start_bit = 0 => zeros \cap Storage = {}
       /\ bitmap_start_bit # 0 =>
            /\ bitmap_start_bit \in zeros
            /\ \A b \in zeros \cap Storage : bitmap_start_bit <= b
            /\ \E j \in Usable(mmap) : j < i /\ bitmap_start_bit = mmap[j].base
       /\ \A c \in Callers : held[c] # NULL => RunOf(held[c]) \subseteq zeros \cap Storage

\* The bitmap fills entry k of m, the first that is long enough for it, and
\* another usable entry starts where k ends.  Bootloaders merge such neighbours.
\* (An empty entry is then left at the base of the highest one, and pmm_alloc
\* takes it for the highest.)
FillsUp(m, k) ==
  /\ m[k].length = get_bitmap_size(m)
  /\ \A j \in Usable(m) : j < k => m[j].length < get_bitmap_size(m)
  /\ \E j \in Usable(m) : m[j].base = m[k].base + m[k].length

NoneUsedUp(m) == ~\E k \in Usable(m) : FillsUp(m, k)

\* The bitmap is cut from the first entry that is long enough; computed again
\* from what is left of the entries, its size is the one it has.
Passed ==
  /\ pc = "init" => i = 1
  /\ pc = "carve" => \A k \in Usable(mmap) : k < i => mmap[k].length < bitmap_size
  /\ pc \notin {"init", "carve", "panic"} => get_bitmap_size(mmap) = bitmap_size

\* The scan has not found enough frames yet, and no run that is long enough
\* starts below the one it is following; without a bitmap it finds none.
LowInv ==
  /\ bitmap = NULL => \A c \in Callers : held[c] = NULL
  /\ (pc = "scan" /\ bitmap # NULL) =>
       /\ frames_found < Promise!Need(frames)
       /\ \A b \in Promise!RunStarts(frames) : RunStart <= b

IInv == /\ TypeOK /\ PlacedInv /\ SizeInv /\ PhaseInv /\ ScanInv
        /\ FreeIsUsable /\ HeldIsUsable
==============================================================================
