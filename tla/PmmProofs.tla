------------------------------ MODULE PmmProofs -------------------------------
(***************************************************************************)
(* For every memory map the boot protocol allows, every content of RAM at  *)
(* boot, every page size and every sequence of calls: the frames that      *)
(* pmm_alloc hands out are usable RAM and never hold the bitmap.           *)
(*                                                                         *)
(* IInv of Pmm is inductive.  Its delicate part is the end of the scan:    *)
(* pmm_alloc computes the size of the bitmap again, from the memory map    *)
(* that init_bitmap has edited, and must not read past the storage.        *)
(* From it follow, with an invariant more each, that pmm_alloc starts its  *)
(* search at the first free frame and that no large segment is lost, and   *)
(* that no bit behind the storage is cleared.                              *)
(***************************************************************************)
EXTENDS Pmm, Arithmetic, TLAPS, SequenceTheorems

\* The elements of a memory map are entries.
LEMMA EntryOfMap ==
  ASSUME NEW m \in Seq(Entry)
  PROVE  \A k \in DOMAIN m : m[k] \in Entry
BY LenProperties, ElementOfSeq

\* The elements of an interval: its last one, and the others.
LEMMA BelowTop ==
  ASSUME NEW l \in Nat, NEW k \in 1 .. l
  PROVE  k = l \/ k \in 1 .. (l - 1)
OBVIOUS

\* A number below one of two summands is below the sum.
LEMMA BelowSum ==
  ASSUME NEW n \in Nat, NEW x \in Nat, NEW y \in Nat, y <= n \/ y = x
  PROVE  y <= n + x
OBVIOUS

\* A memory map has finitely many entries: their bases are bounded.
LEMMA BasesBounded ==
  ASSUME NEW m \in Seq(Entry)
  PROVE  \E n \in Nat : \A k \in DOMAIN m : m[k].base <= n
<1> DEFINE Ok(l) == \E n \in Nat : \A k \in 1 .. l : m[k].base <= n
           Unbounded == {l \in 0 .. Len(m) : ~Ok(l)}
<1>1. Len(m) \in Nat /\ DOMAIN m = 1 .. Len(m)
  BY LenProperties
<1>2. \A k \in 1 .. Len(m) : m[k].base \in Nat
  BY <1>1, EntryOfMap DEF Entry
<1>3. Unbounded = {}
  <2> SUFFICES ASSUME Unbounded # {} PROVE FALSE
    OBVIOUS
  <2>1. Unbounded \in SUBSET Nat
    BY <1>1
  <2>2. PICK l \in Unbounded : \A k \in Unbounded : l <= k
    <3> HIDE DEF Unbounded
    <3> QED  BY <2>1, LeastNatural
  <2>3. l \in 0 .. Len(m) /\ ~Ok(l)
    BY <2>2
  <2>4. Ok(0)
    <3>1. \A k \in 1 .. 0 : m[k].base <= 0  OBVIOUS
    <3>2. QED  BY <3>1
  <2>5. l # 0
    <3> HIDE DEF Ok
    <3> QED  BY <2>3, <2>4
  <2>6. l - 1 \in 0 .. Len(m) /\ l - 1 \notin Unbounded
    <3>1. l - 1 \in 0 .. Len(m)  BY <1>1, <2>3, <2>5
    <3>2. ~(l <= l - 1)  BY <2>3, <1>1
    <3> HIDE DEF Unbounded
    <3>3. QED  BY <3>1, <3>2, <2>2
  <2>7. Ok(l - 1)
    <3> HIDE DEF Ok
    <3> QED  BY <2>6
  <2>8. PICK n \in Nat : \A k \in 1 .. (l - 1) : m[k].base <= n
    BY <2>7
  <2>9. l \in 1 .. Len(m)
    BY <1>1, <2>3, <2>5
  <2>10. PICK x \in Nat : x = m[l].base
    BY <1>2, <2>9
  <2>11. n + x \in Nat /\ \A k \in 1 .. l : m[k].base <= n + x
    <3>1. n \in Nat  BY <2>8
    <3>2. x \in Nat  BY <2>10
    <3>3. n + x \in Nat  BY <3>1, <3>2
    <3>4. ASSUME NEW k \in 1 .. l PROVE m[k].base <= n + x
      <4>1. PICK y \in Nat : y = m[k].base
        <5>1. k \in 1 .. Len(m)  BY <1>1, <2>9
        <5>2. QED  BY <5>1, <1>2
      <4>2. y \in Nat  BY <4>1
      <4>3. y <= n \/ y = x
        <5>1. CASE k = l  BY <4>1, <5>1, <2>10
        <5>2. CASE k # l
          <6>1. l \in Nat  BY <1>1, <2>9
          <6>2. k \in 1 .. (l - 1)  BY <5>2, <6>1, BelowTop
          <6>3. QED  BY <6>2, <4>1, <2>8
        <5>3. QED  BY <5>1, <5>2
      <4>4. y <= n + x  BY <3>1, <3>2, <4>2, <4>3, BelowSum
      <4>5. QED  BY <4>1, <4>4
    <3>5. QED  BY <3>3, <3>4
  <2>12. Ok(l)
    BY <2>11
  <2>13. QED
    <3> HIDE DEF Ok
    <3> QED  BY <2>3, <2>12
<1>4. Ok(Len(m))
  <2>1. Len(m) \in 0 .. Len(m) /\ Len(m) \notin Unbounded
    <3>1. Len(m) \in 0 .. Len(m)  BY <1>1
    <3> HIDE DEF Unbounded
    <3>2. QED  BY <3>1, <1>3
  <2> HIDE DEF Ok
  <2>2. QED  BY <2>1
<1>5. QED
  BY <1>1, <1>4

\* find_highest_mmap_entry returns a usable entry with the greatest base,
\* whenever there is a usable entry at all.
LEMMA HighestExists ==
  ASSUME NEW m \in Seq(Entry), Usable(m) # {}
  PROVE  IsHighest(m, find_highest_mmap_entry(m))
<1> DEFINE Bounds == {n \in Nat : \A k \in Usable(m) : m[k].base <= n}
<1>1. Bounds # {}
  <2>1. PICK n \in Nat : \A k \in DOMAIN m : m[k].base <= n
    BY BasesBounded
  <2>2. n \in Bounds
    BY <2>1 DEF Usable
  <2>3. QED  BY <2>2
<1>2. PICK top \in Bounds : \A n \in Bounds : top <= n
  <2>1. Bounds \in SUBSET Nat  OBVIOUS
  <2> HIDE DEF Bounds
  <2>2. QED  BY <1>1, <2>1, LeastNatural
<1>3. top \in Nat /\ \A k \in Usable(m) : m[k].base <= top
  BY <1>2
<1>4. Usable(m) \in SUBSET Nat /\ \A k \in Usable(m) : m[k].base \in Nat
  <2>1. Usable(m) \subseteq DOMAIN m  BY DEF Usable
  <2>2. DOMAIN m \subseteq Nat  BY LenProperties
  <2>3. \A k \in DOMAIN m : m[k].base \in Nat  BY EntryOfMap DEF Entry
  <2>4. QED  BY <2>1, <2>2, <2>3
<1> DEFINE Tops == {k \in Usable(m) : m[k].base = top}
<1>5. Tops # {}
  <2> SUFFICES ASSUME Tops = {} PROVE FALSE
    OBVIOUS
  <2>1. \A k \in Usable(m) : m[k].base <= top - 1
    <3> TAKE k \in Usable(m)
    <3>1. m[k].base # top /\ m[k].base <= top /\ m[k].base \in Nat
      BY <1>3, <1>4
    <3>2. QED  BY <3>1, <1>3
  <2>2. top - 1 \in Nat
    <3>1. PICK k \in Usable(m) : TRUE  OBVIOUS
    <3>2. m[k].base <= top - 1 /\ m[k].base \in Nat  BY <1>4, <2>1
    <3>3. QED  BY <3>2, <1>3
  <2>3. top - 1 \in Bounds
    BY <2>1, <2>2
  <2>4. top <= top - 1
    <3> HIDE DEF Bounds
    <3> QED  BY <1>2, <2>3
  <2>5. QED  BY <2>4, <1>3
<1>6. PICK k \in Tops : \A j \in Tops : k <= j
  <2>1. Tops \in SUBSET Nat  BY <1>4
  <2> HIDE DEF Tops
  <2>2. QED  BY <1>5, <2>1, LeastNatural
<1>7. IsHighest(m, k)
  BY <1>3, <1>6 DEF IsHighest
<1>8. QED
  BY <1>6, <1>7 DEF find_highest_mmap_entry

------------------------------------------------------------------------------

\* The size of the bitmap grows with the memory it describes.
LEMMA SizeMonotonic ==
  ASSUME NEW a \in Nat, NEW b \in Nat, a <= b
  PROVE  SizeFor(a) \in Nat /\ SizeFor(b) \in Nat /\ SizeFor(a) <= SizeFor(b)
<1>1. BitsPerByte \in Nat \ {0} /\ PageSize \in Nat \ {0}
  BY WidthAssumption
<1>2. PICK x \in Nat : x = a \div BitsPerByte
  BY <1>1, DivBounds
<1>3. PICK y \in Nat : y = b \div BitsPerByte
  BY <1>1, DivBounds
<1>4. x <= y
  BY <1>1, <1>2, <1>3, DivMonotonic
<1>5. x + PageSize - 1 \in Nat /\ y + PageSize - 1 \in Nat
      /\ x + PageSize - 1 <= y + PageSize - 1
  BY <1>1, <1>4
<1>6. /\ (x + PageSize - 1) \div PageSize \in Nat
      /\ (y + PageSize - 1) \div PageSize \in Nat
      /\ (x + PageSize - 1) \div PageSize <= (y + PageSize - 1) \div PageSize
  BY <1>1, <1>5, DivBounds, DivMonotonic
<1>7. QED
  BY <1>2, <1>3, <1>6 DEF SizeFor, CeilDiv

------------------------------------------------------------------------------

\* No usable entry ends above the one with the greatest base.
LEMMA HighestEnds ==
  ASSUME NEW m, ValidMap(m), NEW k \in Usable(m)
  PROVE  LET e == m[find_highest_mmap_entry(m)]
         IN  m[k].base + m[k].length <= e.base + e.length
<1> DEFINE h == find_highest_mmap_entry(m)
<1>1. m \in Seq(Entry)
  BY DEF ValidMap
<1>2. IsHighest(m, h)
  BY <1>1, HighestExists
<1>3. h \in Usable(m) /\ m[k].base <= m[h].base
  BY <1>2 DEF IsHighest
<1> HIDE DEF h
<1>4. m[k] \in Entry /\ m[h] \in Entry
  BY <1>1, <1>3, EntryOfMap DEF Usable
<1>5. m[k].base \in Nat /\ m[k].length \in Nat /\ m[h].base \in Nat /\ m[h].length \in Nat
  BY <1>4 DEF Entry
<1>6. m[k].length > 0 /\ m[h].length > 0
  BY <1>3 DEF ValidMap
<1>7. CASE k = h
  BY <1>5, <1>7 DEF h
<1>8. CASE k # h
  <2>1. Disjoint(m[k], m[h])
    BY <1>3, <1>8 DEF ValidMap
  <2>2. m[k].base + m[k].length <= m[h].base
    BY <2>1, <1>3, <1>5, <1>6 DEF Disjoint
  <2>3. m[k].base + m[k].length <= m[h].base + m[h].length
    BY <2>2, <1>5
  <2>4. QED  BY <2>3 DEF h
<1>9. QED
  BY <1>7, <1>8

\* The memory map the bootloader wrote is one the boot protocol allows.
LEMMA BootmapValid ==
  ASSUME TypeOK
  PROVE  /\ ValidMap(bootmap) /\ bootmap \in Seq(Entry)
         /\ \A k \in Usable(bootmap) : /\ k \in DOMAIN bootmap
                                       /\ bootmap[k] \in Entry
                                       /\ bootmap[k].base \in Nat
                                       /\ bootmap[k].length \in Nat
<1>1. ValidMap(bootmap)
  BY MapAssumption DEF TypeOK
<1>2. bootmap \in Seq(Entry)
  BY <1>1 DEF ValidMap
<1>3. \A k \in Usable(bootmap) : k \in DOMAIN bootmap /\ bootmap[k] \in Entry
  BY <1>2, EntryOfMap DEF Usable
<1>4. QED
  BY <1>1, <1>2, <1>3 DEF Entry

\* The size computed from a memory map is a number of frames.
LEMMA SizeIsNat ==
  ASSUME NEW m \in Seq(Entry), Usable(m) # {}
  PROVE  get_bitmap_size(m) \in Nat
<1> DEFINE h == find_highest_mmap_entry(m)
<1>1. h \in DOMAIN m
  BY HighestExists DEF IsHighest, Usable
<1> HIDE DEF h
<1>2. m[h] \in Entry
  BY <1>1, EntryOfMap
<1>3. PICK b \in Nat : b = m[h].base
  BY <1>2 DEF Entry
<1>4. PICK l \in Nat : l = m[h].length
  BY <1>2 DEF Entry
<1>5. b + l \in Nat
  BY <1>3, <1>4
<1>6. SizeFor(b + l) \in Nat
  BY <1>5, SizeMonotonic
<1>7. QED
  BY <1>3, <1>4, <1>6 DEF get_bitmap_size, h

\* Cutting the bitmap out of an entry changes no entry's type and no end.
LEMMA CutKeepsEnds ==
  ASSUME TypeOK, PlacedInv
  PROVE  /\ DOMAIN mmap = DOMAIN bootmap
         /\ Usable(mmap) = Usable(bootmap)
         /\ \A k \in Usable(bootmap) :
              mmap[k].base + mmap[k].length = bootmap[k].base + bootmap[k].length
<1>1. CASE bitmap = NULL
  BY <1>1 DEF PlacedInv
<1>2. CASE bitmap # NULL
  <2>1. PICK e \in Usable(bootmap) :
          mmap = [bootmap EXCEPT ![e] = Cut(bootmap[e])]
    BY <1>2 DEF PlacedInv
  <2>2. e \in DOMAIN bootmap /\ bootmap[e].type = "usable"
        /\ bootmap[e].base \in Nat /\ bootmap[e].length \in Nat
    BY BootmapValid DEF Usable
  <2>3. /\ DOMAIN mmap = DOMAIN bootmap
        /\ \A k \in DOMAIN bootmap : k # e => mmap[k] = bootmap[k]
        /\ mmap[e] = [base   |-> bootmap[e].base + bitmap_size,
                      length |-> bootmap[e].length - bitmap_size,
                      type   |-> "usable"]
    BY <2>1, <2>2, BootmapValid DEF Cut
  <2>4. Usable(mmap) = Usable(bootmap)
    BY <2>2, <2>3 DEF Usable
  <2>5. mmap[e].base + mmap[e].length = bootmap[e].base + bootmap[e].length
    <3>1. bitmap_size \in Nat  BY DEF TypeOK
    <3>2. mmap[e].base = bootmap[e].base + bitmap_size
          /\ mmap[e].length = bootmap[e].length - bitmap_size
      BY <2>3
    <3>3. QED  BY <3>1, <3>2, <2>2
  <2>6. \A k \in Usable(bootmap) : k # e => mmap[k] = bootmap[k]
    BY <2>3, BootmapValid
  <2>7. QED
    BY <2>3, <2>4, <2>5, <2>6
<1>3. QED
  BY <1>1, <1>2

\* Computed again from the edited map, the size is at most the real one.
LEMMA SizeOfCutMap ==
  ASSUME TypeOK, PlacedInv, SizeInv, pc \notin {"init", "panic"}
  PROVE  get_bitmap_size(mmap) \in Nat /\ get_bitmap_size(mmap) <= bitmap_size
<1> DEFINE h == find_highest_mmap_entry(mmap)
           H == find_highest_mmap_entry(bootmap)
<1>1. Usable(bootmap) # {} /\ bitmap_size = get_bitmap_size(bootmap)
  BY DEF SizeInv
<1>2. mmap \in Seq(Entry) /\ Usable(mmap) # {}
  BY <1>1, CutKeepsEnds DEF TypeOK
<1>3. h \in Usable(bootmap)
  BY <1>2, HighestExists, CutKeepsEnds DEF IsHighest
<1>4. H \in Usable(bootmap)
  BY <1>1, HighestExists, BootmapValid DEF IsHighest
<1>5. bootmap[h].base + bootmap[h].length <= bootmap[H].base + bootmap[H].length
  BY <1>3, BootmapValid, HighestEnds
<1> HIDE DEF h, H
<1>6. PICK a \in Nat : a = bootmap[h].base + bootmap[h].length
  BY <1>3, BootmapValid
<1>7. PICK b \in Nat : b = bootmap[H].base + bootmap[H].length
  BY <1>4, BootmapValid
<1>8. mmap[h].base + mmap[h].length = a
  BY <1>3, <1>6, CutKeepsEnds
<1>9. SizeFor(a) \in Nat /\ SizeFor(a) <= SizeFor(b)
  BY <1>5, <1>6, <1>7, SizeMonotonic
<1>10. get_bitmap_size(mmap) = SizeFor(a)
  BY <1>8 DEF get_bitmap_size, h
<1>11. bitmap_size = SizeFor(b)
  BY <1>1, <1>7 DEF get_bitmap_size, H
<1>12. QED
  BY <1>9, <1>10, <1>11

\* The scan of pmm_alloc stays inside the storage of the bitmap.
LEMMA ScanStaysInside ==
  ASSUME TypeOK, PlacedInv, SizeInv, pc \notin {"init", "panic"}, InRange
  PROVE  current_bit \in Storage
<1>1. PICK s \in Nat : s = get_bitmap_size(mmap) /\ s <= bitmap_size
  BY SizeOfCutMap
<1>2. bitmap_size \in Nat /\ current_bit \in Nat
  BY DEF TypeOK
<1>3. PageSize * BitsPerByte \in Nat
  BY WidthAssumption
<1>4. s * PageSize * BitsPerByte <= bitmap_size * PageSize * BitsPerByte
      /\ bitmap_size * PageSize * BitsPerByte \in Nat
      /\ s * PageSize * BitsPerByte \in Nat
  BY <1>1, <1>2, <1>3, WidthAssumption, Z3
<1>5. current_bit < s * PageSize * BitsPerByte
  BY <1>1 DEF InRange, Bits
<1>6. QED
  BY <1>2, <1>4, <1>5 DEF Storage, Bits

------------------------------------------------------------------------------

\* What a caller may be given is usable memory, and never the frame at 0.
LEMMA AllocatableFrames ==
  ASSUME TypeOK
  PROVE  Allocatable \subseteq Nat \ {0}
<1> SUFFICES ASSUME NEW k \in Usable(bootmap), NEW f \in FramesOf(bootmap[k])
             PROVE  f \in Nat \ {0}
  BY DEF Allocatable, UsableFrames
<1>1. bootmap[k].base \in Nat /\ bootmap[k].length \in Nat /\ bootmap[k].base > 0
  BY BootmapValid DEF ValidMap
<1>2. QED
  BY <1>1 DEF FramesOf

\* Intervals that do not overlap, the second one shortened at its end.
LEMMA IntervalsApart ==
  ASSUME NEW b \in Nat, NEW l \in Nat, NEW s \in Nat, NEW c \in Nat, NEW n \in Nat,
         s <= l, b + l <= c \/ c + n <= b
  PROVE  (c .. (c + n - 1)) \cap (b .. (b + s - 1)) = {}
OBVIOUS

\* The frames of an entry that survive the cut are allocatable.
LEMMA CutFramesAllocatable ==
  ASSUME TypeOK, PlacedInv, bitmap # NULL, NEW k \in Usable(mmap)
  PROVE  FramesOf(mmap[k]) \subseteq Allocatable
<1>1. PICK e \in Usable(bootmap) :
        /\ bitmap = bootmap[e].base
        /\ bitmap_size <= bootmap[e].length
        /\ mmap = [bootmap EXCEPT ![e] = Cut(bootmap[e])]
  BY DEF PlacedInv
<1>2. k \in Usable(bootmap)
  BY CutKeepsEnds
<1>3. PICK b \in Nat : b = bootmap[e].base
  BY BootmapValid
<1>4. PICK l \in Nat : l = bootmap[e].length
  BY BootmapValid
<1>5. PICK s \in Nat : s = bitmap_size
  BY DEF TypeOK
<1>6. StorageFrames = b .. (b + s - 1) /\ s <= l
  BY <1>1, <1>3, <1>4, <1>5 DEF StorageFrames
<1>7. CASE k = e
  <2>1. e \in DOMAIN bootmap /\ bootmap \in Seq(Entry) /\ bootmap[e].type = "usable"
    BY BootmapValid DEF Usable
  <2>2. mmap[k] = [base |-> b + s, length |-> l - s, type |-> "usable"]
    BY <1>1, <1>3, <1>4, <1>5, <1>7, <2>1 DEF Cut
  <2>3. FramesOf(mmap[k]) = (b + s) .. ((b + s) + (l - s) - 1)
    BY <2>2 DEF FramesOf
  <2>4. FramesOf(bootmap[e]) = b .. (b + l - 1)
    BY <1>3, <1>4 DEF FramesOf
  <2>5. FramesOf(mmap[k]) \subseteq FramesOf(bootmap[e]) \ StorageFrames
    <3>1. (b + s) .. ((b + s) + (l - s) - 1) \subseteq (b .. (b + l - 1)) \ (b .. (b + s - 1))
      OBVIOUS
    <3>2. QED  BY <1>6, <2>3, <2>4, <3>1
  <2>6. QED
    BY <2>5 DEF Allocatable, UsableFrames
<1>8. CASE k # e
  <2>1. mmap[k] = bootmap[k]
    BY <1>1, <1>2, <1>8, BootmapValid
  <2>2. Disjoint(bootmap[e], bootmap[k])
    BY <1>2, <1>8, BootmapValid DEF ValidMap
  <2>3. PICK c \in Nat : c = bootmap[k].base
    BY <1>2, BootmapValid
  <2>4. PICK n \in Nat : n = bootmap[k].length
    BY <1>2, BootmapValid
  <2>5. b + l <= c \/ c + n <= b
    BY <2>2, <2>3, <2>4, <1>3, <1>4 DEF Disjoint
  <2>6. FramesOf(bootmap[k]) = c .. (c + n - 1)
    BY <2>3, <2>4 DEF FramesOf
  <2>7. FramesOf(bootmap[k]) \cap StorageFrames = {}
    BY <2>5, <2>6, <1>6, IntervalsApart
  <2>8. QED
    BY <2>1, <2>7, <1>2 DEF Allocatable, UsableFrames
<1>9. QED
  BY <1>7, <1>8

LEMMA InitInv == Init => IInv
<1> SUFFICES ASSUME Init PROVE IInv
  OBVIOUS
<1>1. mmap \in Seq(Entry)
  BY MapAssumption DEF Init, ValidMap
<1>2. TypeOK
  BY <1>1, BitsAssumption DEF Init, TypeOK
<1>3. PlacedInv /\ SizeInv
  BY DEF Init, PlacedInv, SizeInv
<1>4. PhaseInv /\ ScanInv
  BY DEF Init, PhaseInv, ScanInv, Booted
<1>5. FreeIsUsable /\ HeldIsUsable
  BY DEF Init, FreeIsUsable, HeldIsUsable
<1>6. QED
  BY <1>2, <1>3, <1>4, <1>5 DEF IInv

LEMMA SizeBitmapInv == IInv /\ SizeBitmap => IInv'
<1> SUFFICES ASSUME IInv, SizeBitmap PROVE IInv'
  OBVIOUS
<1> USE DEF IInv
<1>1. bitmap = NULL /\ mmap = bootmap /\ ~Booted
  BY DEF SizeBitmap, PhaseInv, PlacedInv, Booted
<1>2. TypeOK'
  <2>1. bitmap_size' \in Nat
    BY SizeIsNat DEF SizeBitmap, TypeOK
  <2>2. QED  BY <2>1 DEF SizeBitmap, TypeOK, alloc_vars
<1>3. PlacedInv'
  BY <1>1 DEF SizeBitmap, PlacedInv
<1>4. SizeInv'
  BY <1>1 DEF SizeBitmap, SizeInv
<1>5. PhaseInv'
  BY <1>1 DEF SizeBitmap, PhaseInv, Booted
<1>6. ScanInv' /\ FreeIsUsable'
  BY <1>1 DEF SizeBitmap, ScanInv, FreeIsUsable
<1>7. HeldIsUsable'
  BY <1>1 DEF SizeBitmap, PhaseInv, HeldIsUsable
<1>8. QED
  BY <1>2, <1>3, <1>4, <1>5, <1>6, <1>7

\* What concerns the memory map is kept by every step that leaves it alone.
LEMMA MapInvKept ==
  ASSUME PlacedInv, SizeInv, pc \notin {"init", "panic"},
         UNCHANGED <<mmap, bootmap, bitmap, bitmap_size>>
  PROVE  PlacedInv' /\ SizeInv'
<1>1. PlacedInv'
  BY DEF PlacedInv, Cut, Usable
<1>2. SizeInv'
  BY DEF SizeInv, Usable
<1>3. QED
  BY <1>1, <1>2

LEMMA NoUsableMemoryInv == IInv /\ NoUsableMemory => IInv'
<1> SUFFICES ASSUME IInv, NoUsableMemory PROVE IInv'
  OBVIOUS
<1> USE DEF IInv
<1>1. UNCHANGED <<mmap, bitmap, bitmap_start_bit, bitmap_size, i, zeros, held, bootmap,
                  frames, caller, current_bit, bit, frames_found>>
      /\ pc = "init" /\ pc' = "panic"
  BY DEF NoUsableMemory, init_vars, alloc_vars
<1>2. bitmap = NULL /\ \A c \in Callers : held[c] = NULL
  BY <1>1 DEF PhaseInv, Booted
<1>3. TypeOK' /\ PlacedInv' /\ SizeInv'
  BY <1>1, <1>2 DEF TypeOK, PlacedInv, SizeInv
<1>4. PhaseInv' /\ ScanInv'
  BY <1>1, <1>2 DEF PhaseInv, Booted, ScanInv
<1>5. FreeIsUsable' /\ HeldIsUsable'
  BY <1>1, <1>2 DEF FreeIsUsable, HeldIsUsable
<1>6. QED
  BY <1>3, <1>4, <1>5

\* The steps of the two loops that only move on to another entry.
LEMMA LoopStepInv ==
  ASSUME IInv, pc \in {"carve", "release"},
         pc' = pc \/ (pc = "carve" /\ pc' = "release") \/ (pc = "release" /\ pc' = "idle"),
         i' \in Nat,
         UNCHANGED <<zeros, held, bootmap, mmap, bitmap, bitmap_start_bit, bitmap_size,
                     frames, caller, current_bit, bit, frames_found>>
  PROVE  IInv'
<1> USE DEF IInv
<1>1. \A c \in Callers : held[c] = NULL
  BY DEF PhaseInv, Booted
<1>2. pc' \in {"carve", "release", "idle"} /\ (pc' = "carve" => pc = "carve")
  OBVIOUS
<1>3. TypeOK'
  BY <1>2 DEF TypeOK
<1>4. PlacedInv' /\ SizeInv'
  BY MapInvKept
<1>5. PhaseInv'
  BY <1>1, <1>2 DEF PhaseInv, Booted
<1>6. ScanInv'
  BY <1>2 DEF ScanInv
<1>7. FreeIsUsable'
  BY DEF FreeIsUsable, Storage, Allocatable, StorageFrames
<1>8. HeldIsUsable'
  BY <1>1 DEF HeldIsUsable
<1>9. QED
  BY <1>3, <1>4, <1>5, <1>6, <1>7, <1>8

LEMMA CarveNextInv == IInv /\ CarveNext => IInv'
<1> SUFFICES ASSUME IInv, CarveNext PROVE IInv'
  OBVIOUS
<1>1. i' \in Nat
  BY DEF CarveNext, IInv, TypeOK
<1>2. QED
  BY <1>1, LoopStepInv DEF CarveNext, alloc_vars

LEMMA CarveNoneInv == IInv /\ CarveNone => IInv'
<1> SUFFICES ASSUME IInv, CarveNone PROVE IInv'
  OBVIOUS
<1>1. QED
  BY LoopStepInv DEF CarveNone, alloc_vars

LEMMA ReleaseNextInv == IInv /\ ReleaseNext => IInv'
<1> SUFFICES ASSUME IInv, ReleaseNext PROVE IInv'
  OBVIOUS
<1>1. i' \in Nat
  BY DEF ReleaseNext, IInv, TypeOK
<1>2. QED
  BY <1>1, LoopStepInv DEF ReleaseNext, alloc_vars

LEMMA InitDoneInv == IInv /\ InitDone => IInv'
<1> SUFFICES ASSUME IInv, InitDone PROVE IInv'
  OBVIOUS
<1>1. i' \in Nat
  BY DEF InitDone, IInv, TypeOK, init_vars
<1>2. QED
  BY <1>1, LoopStepInv DEF InitDone, init_vars, alloc_vars

LEMMA CarveTakeInv == IInv /\ CarveTake => IInv'
<1> SUFFICES ASSUME IInv, CarveTake PROVE IInv'
  OBVIOUS
<1> USE DEF IInv
<1>1. bitmap = NULL /\ mmap = bootmap /\ \A c \in Callers : held[c] = NULL
  BY DEF CarveTake, PhaseInv, PlacedInv, Booted
<1>2. i \in Usable(bootmap) /\ bitmap_size <= bootmap[i].length
  BY <1>1 DEF CarveTake, Fits, Usable
<1>3. PICK b \in Nat : b = bootmap[i].base
  BY <1>2, BootmapValid
<1>4. PICK l \in Nat : l = bootmap[i].length
  BY <1>2, BootmapValid
<1>5. PICK s \in Nat : s = bitmap_size
  BY DEF TypeOK
<1>6. bootmap[i] = [base |-> b, length |-> l, type |-> "usable"]
  BY <1>2, <1>3, <1>4, BootmapValid DEF Entry, Usable
<1>7. mmap' = [bootmap EXCEPT ![i] = [base |-> b + s, length |-> l - s, type |-> "usable"]]
  <2>1. mmap' = [bootmap EXCEPT ![i] = Cut(bootmap[i])]
    BY <1>1 DEF CarveTake
  <2>2. Cut(bootmap[i]) = [base |-> b + s, length |-> l - s, type |-> "usable"]
    BY <1>5, <1>6 DEF Cut
  <2>3. QED  BY <2>1, <2>2
<1>8. UNCHANGED <<bitmap_size, bootmap, held, bitmap_start_bit, frames, caller,
                  current_bit, bit, frames_found>>
      /\ bitmap' = b /\ i' = 1 /\ pc = "carve" /\ pc' = "release" /\ zeros' = zeros \ Storage
  BY <1>1, <1>3 DEF CarveTake, alloc_vars
<1>9. TypeOK'
  <2>1. b + s \in Nat /\ l - s \in Nat
    BY <1>2, <1>4, <1>5
  <2>2. [base |-> b + s, length |-> l - s, type |-> "usable"] \in Entry
    BY <2>1 DEF Entry
  <2>3. mmap' \in Seq(Entry)
    BY <2>2, <1>2, <1>7, BootmapValid, ExceptSeq
  <2>4. QED  BY <2>3, <1>8 DEF TypeOK
<1>10. PlacedInv'
  <2> SUFFICES \E e \in Usable(bootmap) :
                 /\ bitmap' = bootmap[e].base
                 /\ bitmap_size <= bootmap[e].length
                 /\ mmap' = [bootmap EXCEPT ![e] = Cut(bootmap[e])]
    <3>1. bitmap' # NULL  BY <1>8, NullAssumption
    <3>2. QED  BY <3>1, <1>8 DEF PlacedInv, Cut, Usable
  <2>1. bitmap' = bootmap[i].base
    BY <1>3, <1>8
  <2>2. mmap' = [bootmap EXCEPT ![i] = Cut(bootmap[i])]
    BY <1>1 DEF CarveTake
  <2>3. QED  BY <1>2, <2>1, <2>2
<1>11. SizeInv'
  BY <1>8 DEF SizeInv, get_bitmap_size, find_highest_mmap_entry, IsHighest, Usable
<1>12. PhaseInv' /\ ScanInv'
  BY <1>1, <1>8 DEF PhaseInv, Booted, ScanInv
<1>13. FreeIsUsable'
  BY <1>8 DEF FreeIsUsable, Storage
<1>14. HeldIsUsable'
  BY <1>1, <1>8 DEF HeldIsUsable
<1>15. QED
  BY <1>9, <1>10, <1>11, <1>12, <1>13, <1>14

LEMMA ReleaseEntryInv == IInv /\ ReleaseEntry => IInv'
<1> SUFFICES ASSUME IInv, ReleaseEntry PROVE IInv'
  OBVIOUS
<1> USE DEF IInv
<1>1. UNCHANGED <<pc, held, bootmap, mmap, bitmap, bitmap_size, frames, caller,
                  current_bit, bit, frames_found>>
      /\ pc = "release" /\ zeros' = zeros \cup FramesOf(mmap[i])
      /\ bitmap_start_bit' = StartAfter(mmap[i]) /\ i' = i + 1
  BY DEF ReleaseEntry, alloc_vars
<1>2. i \in Usable(mmap) /\ mmap[i] \in Entry
  BY EntryOfMap DEF ReleaseEntry, Fits, Usable, TypeOK
<1>3. mmap[i].base \in Nat /\ mmap[i].length \in Nat
  BY <1>2 DEF Entry
<1>4. \A c \in Callers : held[c] = NULL
  BY <1>1 DEF PhaseInv, Booted
<1>5. TypeOK'
  <2>1. FramesOf(mmap[i]) \subseteq Nat
    BY <1>3 DEF FramesOf
  <2>2. StartAfter(mmap[i]) \in Nat
    BY <1>3 DEF StartAfter, TypeOK
  <2>3. i' \in Nat
    BY <1>1 DEF TypeOK
  <2>4. zeros' \in SUBSET Nat
    BY <1>1, <2>1 DEF TypeOK
  <2>5. QED  BY <2>2, <2>3, <2>4, <1>1 DEF TypeOK
<1>6. PlacedInv' /\ SizeInv'
  BY <1>1, MapInvKept
<1>7. PhaseInv' /\ ScanInv'
  BY <1>1, <1>4 DEF PhaseInv, Booted, ScanInv
<1>8. FreeIsUsable'
  <2> SUFFICES ASSUME bitmap # NULL PROVE zeros' \cap Storage \subseteq Allocatable
    BY <1>1 DEF FreeIsUsable, Storage, Allocatable, StorageFrames
  <2>1. FramesOf(mmap[i]) \subseteq Allocatable
    BY <1>2, CutFramesAllocatable
  <2>2. QED  BY <2>1, <1>1 DEF FreeIsUsable
<1>9. HeldIsUsable'
  BY <1>1, <1>4 DEF HeldIsUsable
<1>10. QED
  BY <1>5, <1>6, <1>7, <1>8, <1>9

LEMMA AllocCallInv ==
  ASSUME NEW c \in Callers, NEW n \in Requests
  PROVE  IInv /\ AllocCall(c, n) => IInv'
<1> SUFFICES ASSUME IInv, AllocCall(c, n) PROVE IInv'
  OBVIOUS
<1> USE DEF IInv
<1>1. UNCHANGED <<zeros, held, bootmap, mmap, bitmap, bitmap_start_bit, bitmap_size, i>>
      /\ pc = "idle" /\ pc' = "scan" /\ caller' = c /\ frames' = n
      /\ current_bit' = bitmap_start_bit /\ bit' = 0 /\ frames_found' = 0
  BY DEF AllocCall, init_vars
<1>2. TypeOK'
  BY <1>1, CallAssumption DEF TypeOK
<1>3. PlacedInv' /\ SizeInv'
  BY <1>1, MapInvKept
<1>4. PhaseInv' /\ ScanInv'
  BY <1>1 DEF PhaseInv, Booted, ScanInv
<1>5. FreeIsUsable' /\ HeldIsUsable'
  BY <1>1 DEF FreeIsUsable, HeldIsUsable, Storage, Allocatable, StorageFrames
<1>6. QED
  BY <1>2, <1>3, <1>4, <1>5

LEMMA ScanGrowInv == IInv /\ ScanGrow => IInv'
<1> SUFFICES ASSUME IInv, ScanGrow PROVE IInv'
  OBVIOUS
<1> USE DEF IInv
<1>1. UNCHANGED <<pc, zeros, held, bootmap, mmap, bitmap, bitmap_start_bit, bitmap_size,
                  i, frames, caller>>
      /\ pc = "scan" /\ bitmap # NULL /\ current_bit \in zeros
      /\ bit' = RunStart /\ frames_found' = frames_found + 1 /\ current_bit' = current_bit + 1
  BY DEF ScanGrow, init_vars
<1>2. current_bit \in zeros \cap Storage
  BY <1>1, ScanStaysInside DEF ScanGrow
<1>3. current_bit # 0
  BY <1>1, <1>2, AllocatableFrames DEF FreeIsUsable
<1>4. bit \in Nat /\ frames_found \in Nat /\ current_bit \in Nat
  BY DEF TypeOK
<1>5. RunStart \in Nat
  BY <1>4 DEF RunStart
<1>6. TypeOK'
  <2>1. bit' \in Nat /\ frames_found' \in Nat /\ current_bit' \in Nat
    BY <1>1, <1>4, <1>5
  <2>2. QED  BY <1>1, <2>1 DEF TypeOK
<1>7. PlacedInv' /\ SizeInv'
  BY <1>1, MapInvKept
<1>8. PhaseInv'
  BY <1>1 DEF PhaseInv, Booted
<1>9. RunStart # 0 /\ RunStart + (frames_found + 1) = current_bit + 1
      /\ RunStart .. current_bit \subseteq zeros \cap Storage
  BY <1>1, <1>2, <1>3, <1>4 DEF RunStart, ScanInv
<1>10. ScanInv'
  <2>1. (current_bit + 1) - 1 = current_bit
    BY <1>4
  <2>2. Storage' = Storage
    BY <1>1 DEF Storage
  <2>3. QED  BY <1>1, <1>9, <2>1, <2>2 DEF ScanInv
<1>11. FreeIsUsable' /\ HeldIsUsable'
  BY <1>1 DEF FreeIsUsable, HeldIsUsable, Storage, Allocatable, StorageFrames
<1>12. QED
  BY <1>6, <1>7, <1>8, <1>10, <1>11

LEMMA ScanResetInv == IInv /\ ScanReset => IInv'
<1> SUFFICES ASSUME IInv, ScanReset PROVE IInv'
  OBVIOUS
<1> USE DEF IInv
<1>1. UNCHANGED <<pc, zeros, held, bootmap, mmap, bitmap, bitmap_start_bit, bitmap_size,
                  i, frames, caller>>
      /\ pc = "scan" /\ bit' = 0 /\ frames_found' = 0 /\ current_bit' = current_bit + 1
  BY DEF ScanReset, StartOver, init_vars
<1>2. current_bit' \in Nat
  BY <1>1 DEF TypeOK
<1>3. TypeOK'
  BY <1>1, <1>2 DEF TypeOK
<1>4. PlacedInv' /\ SizeInv'
  BY <1>1, MapInvKept
<1>5. PhaseInv' /\ ScanInv'
  BY <1>1 DEF PhaseInv, Booted, ScanInv
<1>6. FreeIsUsable' /\ HeldIsUsable'
  BY <1>1 DEF FreeIsUsable, HeldIsUsable, Storage, Allocatable, StorageFrames
<1>7. QED
  BY <1>3, <1>4, <1>5, <1>6

\* Returning from pmm_alloc, whatever was held before or is held now.
LEMMA ReturnInv ==
  ASSUME IInv, pc = "scan", Return, TypeOK', HeldIsUsable'
  PROVE  IInv'
<1> USE DEF IInv
<1>1. UNCHANGED <<zeros, bootmap, mmap, bitmap, bitmap_start_bit, bitmap_size, i>>
      /\ pc' = "idle"
  BY DEF Return, init_vars
<1>2. PlacedInv' /\ SizeInv'
  BY <1>1, MapInvKept
<1>3. PhaseInv' /\ ScanInv'
  BY <1>1 DEF PhaseInv, Booted, ScanInv
<1>4. FreeIsUsable'
  BY <1>1 DEF FreeIsUsable, Storage, Allocatable, StorageFrames
<1>5. QED
  BY <1>2, <1>3, <1>4

\* The run that pmm_alloc returns is free, from its first frame to its last.
LEMMA FoundRun ==
  ASSUME IInv, ScanFound
  PROVE  LET run == [base |-> RunStart, frames |-> frames]
         IN  run \in [base : Nat, frames : Nat] /\ RunOf(run) \subseteq zeros \cap Storage
<1> USE DEF IInv
<1>1. current_bit \in zeros \cap Storage
  BY ScanStaysInside DEF ScanFound
<1>2. bit \in Nat /\ frames_found \in Nat /\ current_bit \in Nat /\ frames \in Nat
      /\ frames_found + 1 >= frames
  BY DEF TypeOK, ScanFound
<1>3. RunStart \in Nat
  BY <1>2 DEF RunStart
<1>4. RunStart + frames_found = current_bit
      /\ RunStart .. current_bit \subseteq zeros \cap Storage
  BY <1>1, <1>2 DEF ScanFound, RunStart, ScanInv
<1> DEFINE run == [base |-> RunStart, frames |-> frames]
<1>5. run \in [base : Nat, frames : Nat]
  BY <1>2, <1>3
<1>6. RunOf(run) = RunStart .. (RunStart + frames - 1)
  BY DEF RunOf
<1>7. RunStart + frames - 1 <= current_bit
  BY <1>2, <1>3, <1>4
<1>8. RunOf(run) \subseteq zeros \cap Storage
  BY <1>2, <1>3, <1>4, <1>6, <1>7
<1>9. QED  BY <1>5, <1>8

LEMMA ScanFoundInv == IInv /\ ScanFound => IInv'
<1> SUFFICES ASSUME IInv, ScanFound PROVE IInv'
  OBVIOUS
<1> USE DEF IInv
<1>1. UNCHANGED <<zeros, bootmap, mmap, bitmap, bitmap_start_bit, bitmap_size, i>>
      /\ pc = "scan" /\ pc' = "idle" /\ bitmap # NULL /\ current_bit \in zeros
      /\ caller' = NULL /\ frames' = 0 /\ current_bit' = 0 /\ bit' = 0 /\ frames_found' = 0
  BY DEF ScanFound, Return, init_vars
<1> DEFINE run == [base |-> RunStart, frames |-> frames]
<1>6. run \in [base : Nat, frames : Nat] /\ RunOf(run) \subseteq zeros \cap Storage
  BY FoundRun
<1>8. RunOf(run) \subseteq Allocatable
  BY <1>1, <1>6 DEF FreeIsUsable
<1> HIDE DEF run
<1>9. held' = held \/ held' = [held EXCEPT ![caller] = run]
  BY DEF ScanFound, run
<1>10. caller \in Callers /\ held \in [Callers -> [base : Nat, frames : Nat] \cup {NULL}]
  BY <1>1 DEF PhaseInv, TypeOK
<1>11. TypeOK'
  <2>1. held' \in [Callers -> [base : Nat, frames : Nat] \cup {NULL}]
    BY <1>6, <1>9, <1>10
  <2>2. QED  BY <1>1, <2>1 DEF TypeOK
<1>12. HeldIsUsable'
  <2> SUFFICES ASSUME NEW c \in Callers, held'[c] # NULL
               PROVE  RunOf(held'[c]) \subseteq Allocatable
    BY <1>1 DEF HeldIsUsable, Allocatable, StorageFrames
  <2>1. held'[c] = held[c] \/ held'[c] = run
    BY <1>9, <1>10
  <2>2. QED  BY <2>1, <1>8 DEF HeldIsUsable
<1>13. QED
  BY <1>1, <1>11, <1>12, ReturnInv DEF ScanFound

LEMMA ScanFailInv == IInv /\ ScanFail => IInv'
<1> SUFFICES ASSUME IInv, ScanFail PROVE IInv'
  OBVIOUS
<1> USE DEF IInv
<1>1. UNCHANGED <<zeros, held, bootmap, mmap, bitmap, bitmap_start_bit, bitmap_size, i>>
      /\ pc' = "idle"
      /\ caller' = NULL /\ frames' = 0 /\ current_bit' = 0 /\ bit' = 0 /\ frames_found' = 0
  BY DEF ScanFail, Return, init_vars
<1>2. TypeOK'
  BY <1>1 DEF TypeOK
<1>3. HeldIsUsable'
  BY <1>1 DEF HeldIsUsable, Allocatable, StorageFrames
<1>4. QED
  BY <1>2, <1>3, ReturnInv DEF ScanFail

LEMMA ScanNullInv == IInv /\ ScanNull => IInv'
<1> SUFFICES ASSUME IInv, ScanNull PROVE IInv'
  OBVIOUS
<1> USE DEF IInv
<1>1. UNCHANGED <<zeros, held, bootmap, mmap, bitmap, bitmap_start_bit, bitmap_size, i,
                  frames, caller, current_bit, bit, frames_found>>
      /\ pc = "scan" /\ pc' = "fault" /\ bitmap = NULL
  BY DEF ScanNull, init_vars, alloc_vars
<1>2. TypeOK'
  BY <1>1 DEF TypeOK
<1>3. PlacedInv' /\ SizeInv'
  BY <1>1, MapInvKept
<1>4. PhaseInv' /\ ScanInv'
  BY <1>1 DEF PhaseInv, Booted, ScanInv
<1>5. FreeIsUsable' /\ HeldIsUsable'
  BY <1>1 DEF FreeIsUsable, HeldIsUsable, Storage, Allocatable, StorageFrames
<1>6. QED
  BY <1>2, <1>3, <1>4, <1>5

LEMMA FreeInv ==
  ASSUME NEW c \in Callers
  PROVE  IInv /\ Free(c) => IInv'
<1> SUFFICES ASSUME IInv, Free(c) PROVE IInv'
  OBVIOUS
<1> USE DEF IInv
<1>1. UNCHANGED <<pc, bootmap, mmap, bitmap, bitmap_start_bit, bitmap_size, i,
                  frames, caller, current_bit, bit, frames_found>>
      /\ pc = "idle" /\ held[c] # NULL
      /\ zeros' = zeros \cup RunOf(held[c]) /\ held' = [held EXCEPT ![c] = NULL]
  BY DEF Free, init_vars, alloc_vars
<1>2. held \in [Callers -> [base : Nat, frames : Nat] \cup {NULL}]
  BY DEF TypeOK
<1>3. RunOf(held[c]) \subseteq Allocatable
  BY <1>1 DEF HeldIsUsable
<1>4. TypeOK'
  <2>1. RunOf(held[c]) \subseteq Nat
    BY <1>3, AllocatableFrames
  <2>2. zeros' \in SUBSET Nat
    BY <1>1, <2>1 DEF TypeOK
  <2>3. held' \in [Callers -> [base : Nat, frames : Nat] \cup {NULL}]
    BY <1>1, <1>2
  <2>4. QED  BY <1>1, <2>2, <2>3 DEF TypeOK
<1>5. PlacedInv' /\ SizeInv'
  BY <1>1, MapInvKept
<1>6. PhaseInv' /\ ScanInv'
  BY <1>1 DEF PhaseInv, Booted, ScanInv
<1>7. FreeIsUsable'
  BY <1>1, <1>3 DEF FreeIsUsable, Storage, Allocatable, StorageFrames
<1>8. HeldIsUsable'
  <2> SUFFICES ASSUME NEW d \in Callers, held'[d] # NULL
               PROVE  RunOf(held'[d]) \subseteq Allocatable
    BY <1>1 DEF HeldIsUsable, Allocatable, StorageFrames
  <2>1. held'[d] = held[d]
    BY <1>1, <1>2
  <2>2. QED  BY <2>1 DEF HeldIsUsable
<1>9. QED
  BY <1>4, <1>5, <1>6, <1>7, <1>8

LEMMA StutterInv == IInv /\ UNCHANGED vars => IInv'
BY DEF vars, init_vars, alloc_vars, IInv, TypeOK, PlacedInv, Cut, SizeInv, PhaseInv, Booted,
       ScanInv, FreeIsUsable, HeldIsUsable, Storage, Allocatable, StorageFrames, Usable

\* One step of the kernel or of its callers keeps the invariant.
LEMMA NextInv == IInv /\ [Next]_vars => IInv'
<1> SUFFICES ASSUME IInv, [Next]_vars PROVE IInv'
  OBVIOUS
<1>1. CASE init_bitmap
  BY <1>1, SizeBitmapInv, NoUsableMemoryInv, CarveNextInv, CarveTakeInv, CarveNoneInv,
     ReleaseEntryInv, ReleaseNextInv, InitDoneInv DEF init_bitmap
<1>2. CASE Scan
  BY <1>2, ScanGrowInv, ScanFoundInv, ScanResetInv, ScanFailInv, ScanNullInv DEF Scan
<1>3. CASE \E c \in Callers, n \in Requests : AllocCall(c, n)
  BY <1>3, AllocCallInv
<1>4. CASE \E c \in Callers : Free(c)
  BY <1>4, FreeInv
<1>5. CASE UNCHANGED vars
  BY <1>5, StutterInv
<1>6. QED
  BY <1>1, <1>2, <1>3, <1>4, <1>5 DEF Next

\* IInv is inductive, and so it always holds.
THEOREM Inductive == Spec => []IInv
BY InitInv, NextInv, PTL DEF Spec

\* The state of pmm.c keeps its types: no length wraps below 0, no size is
\* taken of an empty map, no scan leaves its range (pmm.c:100-176).
THEOREM TypeCorrect == Spec => []TypeOK
<1>1. IInv => TypeOK
  BY DEF IInv
<1>2. QED
  BY <1>1, Inductive, PTL

\* Whatever the memory map and whatever RAM held at boot, a 0 bit of the
\* placed bitmap stands for usable RAM outside the bitmap (pmm.c:115-143).
THEOREM FreeFramesAreUsable == Spec => []FreeIsUsable
<1>1. IInv => FreeIsUsable
  BY DEF IInv
<1>2. QED
  BY <1>1, Inductive, PTL

\* Every frame of every run pmm_alloc returns is usable RAM outside the
\* bitmap (pmm.c:152-176), for every request, as long as runs that are given
\* back were given out.
THEOREM HeldFramesAreUsable == Spec => []HeldIsUsable
<1>1. IInv => HeldIsUsable
  BY DEF IInv
<1>2. QED
  BY <1>1, Inductive, PTL

------------------------------------------------------------------------------

\* What is left of a usable entry is usable memory, placed bitmap or not.
LEMMA CutFramesUsable ==
  ASSUME TypeOK, PlacedInv, NEW k \in Usable(mmap)
  PROVE  FramesOf(mmap[k]) \subseteq UsableFrames(bootmap)
<1>1. CASE bitmap = NULL
  BY <1>1 DEF PlacedInv, UsableFrames
<1>2. CASE bitmap # NULL
  BY <1>2, CutFramesAllocatable DEF Allocatable
<1>3. QED
  BY <1>1, <1>2

\* A bitmap has a bit for every frame of a memory of whole bytes.
LEMMA BitsEnough ==
  ASSUME NEW n \in Nat, n % BitsPerByte = 0
  PROVE  n <= Bits(SizeFor(n)) /\ Bits(SizeFor(n)) \in Nat
<1>1. BitsPerByte \in Nat \ {0} /\ PageSize \in Nat \ {0}
  BY WidthAssumption
<1>2. PICK x \in Nat : x = n \div BitsPerByte /\ BitsPerByte * x = n
  <2>1. n = BitsPerByte * (n \div BitsPerByte) + (n % BitsPerByte)
    BY <1>1, Z3
  <2>2. n \div BitsPerByte \in Nat
    BY <1>1, DivBounds
  <2>3. QED  BY <2>1, <2>2, <1>1
<1>3. PICK s \in Nat : s = (x + PageSize - 1) \div PageSize
                        /\ x + PageSize - 1 < PageSize * s + PageSize
  <2>1. x + PageSize - 1 \in Nat
    BY <1>1
  <2>2. QED  BY <2>1, <1>1, DivBounds
<1>4. PICK y \in Nat : y = s * PageSize
  BY <1>1
<1>5. x <= y
  <2>1. PageSize * s = y
    BY <1>1, <1>4, Z3
  <2>2. QED  BY <2>1, <1>3, <1>4, <1>1
<1>6. BitsPerByte * x <= y * BitsPerByte /\ y * BitsPerByte \in Nat
  BY <1>1, <1>5, Z3
<1>7. Bits(SizeFor(n)) = y * BitsPerByte
  BY <1>2, <1>3, <1>4 DEF Bits, SizeFor, CeilDiv
<1>8. QED
  BY <1>2, <1>6, <1>7

\* Where memory ends on a whole byte, every usable frame has its bit.
LEMMA MemoryInStorage ==
  ASSUME TypeOK, SizeInv, pc \notin {"init", "panic"}, WholeBytes(bootmap)
  PROVE  UsableFrames(bootmap) \subseteq Storage
<1> DEFINE H == find_highest_mmap_entry(bootmap)
<1>1. Usable(bootmap) # {} /\ bitmap_size = get_bitmap_size(bootmap)
  BY DEF SizeInv
<1>2. H \in Usable(bootmap)
  BY <1>1, HighestExists, BootmapValid DEF IsHighest
<1>3. (bootmap[H].base + bootmap[H].length) % BitsPerByte = 0
  BY <1>1 DEF WholeBytes
<1>4. bitmap_size = SizeFor(bootmap[H].base + bootmap[H].length)
  BY <1>1 DEF get_bitmap_size
<1>5. \A k \in Usable(bootmap) : bootmap[k].base + bootmap[k].length
                                   <= bootmap[H].base + bootmap[H].length
  BY BootmapValid, HighestEnds
<1> HIDE DEF H
<1>6. PICK n \in Nat : n = bootmap[H].base + bootmap[H].length
  BY <1>2, BootmapValid
<1>7. PICK z \in Nat : z = Bits(bitmap_size) /\ n <= z
  BY <1>3, <1>4, <1>6, BitsEnough
<1> SUFFICES ASSUME NEW k \in Usable(bootmap), NEW f \in FramesOf(bootmap[k])
             PROVE  f \in Storage
  BY DEF UsableFrames
<1>8. bootmap[k].base \in Nat /\ bootmap[k].length \in Nat
  BY BootmapValid
<1>9. bootmap[k].base + bootmap[k].length <= n
  BY <1>5, <1>6
<1>10. f \in Nat /\ f < n
  BY <1>8, <1>9 DEF FramesOf
<1>11. QED
  BY <1>7, <1>10 DEF Storage

\* Where memory ends on a whole byte of the bitmap, neither init_bitmap nor
\* pmm_free touches a bit behind the storage (pmm.c:96, 117-118, 133-135,
\* 178-185): the rounding of get_bitmap_size is the only way to get there.
THEOREM ClearsOnlyStorage == Spec => ClearsInWholeBytes
<1> DEFINE Changed == (zeros' \ zeros) \cup (zeros \ zeros')
           Safe == WholeBytes(bootmap) => \A b \in Changed : b \in Storage'
<1>1. IInv /\ [Next]_vars => [Safe]_zeros
  <2> SUFFICES ASSUME IInv, [Next]_vars, zeros' # zeros, WholeBytes(bootmap)
               PROVE  Changed \subseteq Storage'
    OBVIOUS
  <2> USE DEF IInv
  <2>1. CASE CarveTake
    <3>1. zeros' = zeros \ Storage /\ bitmap_size' = bitmap_size
      BY <2>1 DEF CarveTake
    <3>2. QED  BY <3>1 DEF Storage
  <2>2. CASE ReleaseEntry
    <3>1. zeros' = zeros \cup FramesOf(mmap[i]) /\ bitmap_size' = bitmap_size
          /\ pc = "release" /\ i \in Usable(mmap)
      BY <2>2 DEF ReleaseEntry, Fits, Usable
    <3>2. FramesOf(mmap[i]) \subseteq Storage
      BY <3>1, CutFramesUsable, MemoryInStorage
    <3>3. QED  BY <3>1, <3>2 DEF Storage
  <2>3. ASSUME NEW c \in Callers, Free(c) PROVE Changed \subseteq Storage'
    <3>1. zeros' = zeros \cup RunOf(held[c]) /\ bitmap_size' = bitmap_size
          /\ pc = "idle" /\ held[c] # NULL
      BY <2>3 DEF Free, init_vars
    <3>2. RunOf(held[c]) \subseteq Storage
      BY <3>1, MemoryInStorage DEF HeldIsUsable, Allocatable
    <3>3. QED  BY <3>1, <3>2 DEF Storage
  <2>4. QED
    BY <2>1, <2>2, <2>3 DEF Next, init_bitmap, Scan, SizeBitmap, NoUsableMemory, CarveNext,
       CarveNone, ReleaseNext, InitDone, AllocCall, ScanGrow, ScanFound, ScanReset, ScanFail,
       ScanNull, Return, vars
<1>2. QED
  BY <1>1, Inductive, PTL DEF Spec, ClearsInWholeBytes

------------------------------------------------------------------------------

\* The steps of the two loops keep what has been released.
LEMMA LoopReleased ==
  ASSUME IInv, Released, init_bitmap
  PROVE  Released'
<1> USE DEF IInv
<1>1. mmap \in Seq(Entry) /\ DOMAIN mmap = 1 .. Len(mmap) /\ Len(mmap) \in Nat
      /\ i \in Nat /\ bitmap_size \in Nat
  BY LenProperties DEF TypeOK
<1>2. \A k \in Usable(mmap) : k \in 1 .. Len(mmap) /\ mmap[k].length \in Nat
  BY <1>1, EntryOfMap DEF Usable, Entry
<1>3. CASE SizeBitmap \/ NoUsableMemory \/ CarveNext
  BY <1>3 DEF SizeBitmap, NoUsableMemory, CarveNext, Released
<1>4. CASE CarveNone
  <2>1. i' = 1 /\ pc' = "release" /\ mmap' = mmap
    BY <1>4 DEF CarveNone
  <2>2. \A k \in Usable(mmap)' : ~(k < 1)
    BY <1>2, <2>1 DEF Usable
  <2>3. QED  BY <2>1, <2>2 DEF Released, Booted
<1>5. CASE CarveTake
  <2>1. i' = 1 /\ pc' = "release" /\ DOMAIN mmap' = DOMAIN mmap
    BY <1>5 DEF CarveTake
  <2>2. \A k \in Usable(mmap)' : ~(k < 1)
    BY <1>1, <2>1 DEF Usable
  <2>3. QED  BY <2>1, <2>2 DEF Released, Booted
<1>6. CASE ReleaseEntry
  <2>1. /\ pc = "release" /\ pc' = "release" /\ mmap' = mmap /\ bitmap_size' = bitmap_size
        /\ i' = i + 1 /\ zeros' = zeros \cup FramesOf(mmap[i])
    BY <1>6 DEF ReleaseEntry
  <2>2. ASSUME NEW k \in Usable(mmap), k < i + 1, mmap[k].length >= bitmap_size
        PROVE  FramesOf(mmap[k]) \subseteq zeros'
    <3>1. k < i \/ k = i
      BY <1>1, <1>2, <2>2
    <3>2. QED  BY <2>1, <2>2, <3>1 DEF Released
  <2>3. QED  BY <1>1, <2>1, <2>2 DEF Released, Booted, Usable, FramesOf
<1>7. CASE ReleaseNext
  <2>1. /\ pc = "release" /\ pc' = "release" /\ mmap' = mmap /\ bitmap_size' = bitmap_size
        /\ i' = i + 1 /\ zeros' = zeros /\ ~Fits(mmap[i])
    BY <1>7 DEF ReleaseNext
  <2>2. ASSUME NEW k \in Usable(mmap), k < i + 1, mmap[k].length >= bitmap_size
        PROVE  FramesOf(mmap[k]) \subseteq zeros
    <3>1. k < i \/ k = i
      BY <1>1, <1>2, <2>2
    <3>2. k # i
      BY <2>1, <2>2 DEF Fits, Usable
    <3>3. QED  BY <2>1, <2>2, <3>1, <3>2 DEF Released
  <2>3. QED  BY <1>1, <2>1, <2>2 DEF Released, Booted, Usable, FramesOf
<1>8. CASE InitDone
  <2>1. /\ pc = "release" /\ pc' = "idle" /\ mmap' = mmap /\ bitmap_size' = bitmap_size
        /\ i' = i /\ zeros' = zeros /\ i \notin DOMAIN mmap
    BY <1>8 DEF InitDone, init_vars
  <2>2. i > 0
    BY <2>1 DEF Released
  <2>3. \A k \in Usable(mmap) : k < i
    BY <1>1, <1>2, <2>1, <2>2
  <2>4. QED  BY <2>1, <2>2, <2>3 DEF Released, Usable, FramesOf
<1>9. QED
  BY <1>3, <1>4, <1>5, <1>6, <1>7, <1>8 DEF init_bitmap

\* So does every step after them: no bit is ever set again.
LEMMA LaterReleased ==
  ASSUME Released, UNCHANGED <<mmap, bitmap_size, i>>, zeros \subseteq zeros',
         (Booted /\ Booted') \/ pc' = pc
  PROVE  Released'
<1>1. pc' \in {"release", "idle", "scan", "fault"} => pc \in {"release", "idle", "scan", "fault"}
      /\ (Booted' => Booted)
  BY DEF Booted
<1>2. QED
  BY <1>1 DEF Released, Usable, FramesOf

LEMMA ReleasedStep == IInv /\ Released /\ [Next]_vars => Released'
<1> SUFFICES ASSUME IInv, Released, [Next]_vars PROVE Released'
  OBVIOUS
<1>1. CASE init_bitmap
  BY <1>1, LoopReleased
<1>2. CASE Scan
  BY <1>2, LaterReleased DEF Scan, ScanGrow, ScanFound, ScanReset, ScanFail, ScanNull, Return,
     StartOver, init_vars, Booted
<1>3. ASSUME NEW c \in Callers, NEW n \in Requests, AllocCall(c, n) PROVE Released'
  BY <1>3, LaterReleased DEF AllocCall, init_vars, Booted
<1>4. ASSUME NEW c \in Callers, Free(c) PROVE Released'
  BY <1>4, LaterReleased DEF Free, init_vars
<1>5. CASE UNCHANGED vars
  BY <1>5, LaterReleased DEF vars, init_vars
<1>6. QED
  BY <1>1, <1>2, <1>3, <1>4, <1>5 DEF Next

\* A segment twice as long as the bitmap is still as long as the bitmap when
\* the bitmap has been cut from it, and only the storage is missing from it.
LEMMA LargeSurvivesCut ==
  ASSUME TypeOK, PlacedInv, NEW k \in Usable(bootmap),
         bootmap[k].length >= 2 * bitmap_size
  PROVE  /\ mmap[k].length >= bitmap_size
         /\ FramesOf(bootmap[k]) \subseteq FramesOf(mmap[k]) \cup StorageFrames
<1>1. PICK s \in Nat : s = bitmap_size
  BY DEF TypeOK
<1>2. PICK b \in Nat : b = bootmap[k].base
  BY BootmapValid
<1>3. PICK l \in Nat : l = bootmap[k].length /\ l >= 2 * s
  BY <1>1, BootmapValid
<1>4. CASE mmap[k] = bootmap[k]
  BY <1>1, <1>3, <1>4
<1>5. CASE mmap[k] # bootmap[k]
  <2>1. PICK e \in Usable(bootmap) :
          /\ bitmap # NULL /\ bitmap = bootmap[e].base
          /\ mmap = [bootmap EXCEPT ![e] = Cut(bootmap[e])]
    BY <1>5 DEF PlacedInv
  <2>2. k = e
    BY <2>1, <1>5, BootmapValid
  <2>3. mmap[k].base = b + s /\ mmap[k].length = l - s
    BY <2>1, <2>2, <1>1, <1>2, <1>3, BootmapValid DEF Cut
  <2>4. StorageFrames = b .. (b + s - 1)
    BY <2>1, <2>2, <1>1, <1>2 DEF StorageFrames
  <2>5. FramesOf(mmap[k]) = (b + s) .. ((b + s) + (l - s) - 1)
        /\ FramesOf(bootmap[k]) = b .. (b + l - 1)
    BY <2>3, <1>2, <1>3 DEF FramesOf
  <2>6. l - s >= s
    BY <1>1, <1>3
  <2>7. b .. (b + l - 1) \subseteq ((b + s) .. ((b + s) + (l - s) - 1)) \cup (b .. (b + s - 1))
    BY <1>1, <1>2, <1>3
  <2>8. QED
    BY <2>3, <2>4, <2>5, <2>6, <2>7, <1>1
<1>6. QED
  BY <1>4, <1>5

\* For every memory map, a usable segment at least twice as long as the bitmap
\* is free once init_bitmap is done, and stays so whatever is allocated, save
\* for the frames of the bitmap (pmm.c:105-143).
THEOREM LargeSegmentsAreKept == Spec => []LargeSegmentsKept
<1>1. Init => Released
  BY DEF Init, Released
<1>2. IInv /\ Released => LargeSegmentsKept
  <2> SUFFICES ASSUME IInv, Released, Booted, NEW k \in Usable(bootmap),
                      bootmap[k].length >= 2 * bitmap_size
               PROVE  FramesOf(bootmap[k]) \subseteq zeros \cup StorageFrames
    BY DEF LargeSegmentsKept
  <2> USE DEF IInv
  <2>1. k \in Usable(mmap)
    BY CutKeepsEnds
  <2>2. k < i
    BY <2>1 DEF Released, Booted
  <2>3. FramesOf(mmap[k]) \subseteq zeros
    BY <2>1, <2>2, LargeSurvivesCut DEF Released, Booted
  <2>4. QED  BY <2>3, LargeSurvivesCut
<1>3. QED
  BY <1>1, <1>2, ReleasedStep, Inductive, PTL DEF Spec

------------------------------------------------------------------------------

\* The entries stay sorted when the bitmap is cut from one of them.
LEMMA StillSorted ==
  ASSUME TypeOK, PlacedInv, NEW j \in Usable(mmap), NEW k \in Usable(mmap), j < k
  PROVE  mmap[j].base <= mmap[k].base
<1>1. j \in Usable(bootmap) /\ k \in Usable(bootmap)
  BY CutKeepsEnds
<1>2. PICK a \in Nat : a = bootmap[j].base
  BY <1>1, BootmapValid
<1>3. PICK l \in Nat : l = bootmap[j].length /\ l > 0
  BY <1>1, BootmapValid DEF ValidMap
<1>4. PICK c \in Nat : c = bootmap[k].base
  BY <1>1, BootmapValid
<1>5. PICK n \in Nat : n = bootmap[k].length /\ n > 0
  BY <1>1, BootmapValid DEF ValidMap
<1>6. j # k
  <2>1. j \in Nat
    BY <1>1, BootmapValid, LenProperties
  <2>2. QED  BY <2>1
<1>7. a <= c /\ (a + l <= c \/ c + n <= a)
  <2>1. a <= c
    BY <1>1, <1>2, <1>4, BootmapValid DEF ValidMap
  <2>2. Disjoint(bootmap[j], bootmap[k])
    BY <1>1, <1>6, BootmapValid DEF ValidMap
  <2>3. QED  BY <2>1, <2>2, <1>2, <1>3, <1>4, <1>5 DEF Disjoint
<1>8. a + l <= c
  BY <1>7, <1>5
<1>9. CASE bitmap = NULL
  BY <1>2, <1>4, <1>7, <1>9 DEF PlacedInv
<1>10. CASE bitmap # NULL
  <2>1. PICK e \in Usable(bootmap) :
          /\ bitmap_size <= bootmap[e].length
          /\ mmap = [bootmap EXCEPT ![e] = Cut(bootmap[e])]
    BY <1>10 DEF PlacedInv
  <2>2. PICK s \in Nat : s = bitmap_size
    BY DEF TypeOK
  <2>3. CASE e = j
    <3>1. mmap[j].base = a + s /\ mmap[k].base = c /\ s <= l
      BY <2>1, <2>2, <2>3, <1>1, <1>2, <1>3, <1>4, <1>6, BootmapValid DEF Cut
    <3>2. QED  BY <3>1, <1>8, <2>2
  <2>4. CASE e = k
    <3>1. mmap[j].base = a /\ mmap[k].base = c + s
      BY <2>1, <2>2, <2>4, <1>1, <1>2, <1>4, <1>6, BootmapValid DEF Cut
    <3>2. QED  BY <3>1, <1>7, <2>2
  <2>5. CASE e # j /\ e # k
    BY <2>1, <2>5, <1>1, <1>2, <1>4, <1>7, BootmapValid
  <2>6. QED  BY <2>3, <2>4, <2>5
<1>11. QED
  BY <1>9, <1>10

\* Releasing an entry: the first one gives the start, the others lie above it.
LEMMA ReleaseEntryStart ==
  ASSUME IInv, StartInv, ReleaseEntry, bitmap # NULL
  PROVE  StartInv'
<1> USE DEF IInv
<1>1. /\ UNCHANGED <<pc, held, bootmap, mmap, bitmap, bitmap_size>>
      /\ pc = "release" /\ zeros' = zeros \cup FramesOf(mmap[i])
      /\ bitmap_start_bit' = StartAfter(mmap[i]) /\ i' = i + 1
  BY DEF ReleaseEntry
<1>2. i \in Usable(mmap) /\ mmap[i] \in Entry
  BY EntryOfMap DEF ReleaseEntry, Fits, Usable, TypeOK
<1>3. PICK a \in Nat : a = mmap[i].base
  BY <1>2 DEF Entry
<1>4. PICK n \in Nat : n = mmap[i].length
  BY <1>2 DEF Entry
<1>5. i \in Nat /\ bitmap_start_bit \in Nat
  BY DEF TypeOK
<1>6. FramesOf(mmap[i]) = a .. (a + n - 1) /\ FramesOf(mmap[i]) \subseteq Nat \ {0}
  <2>1. FramesOf(mmap[i]) \subseteq Allocatable
    BY <1>2, CutFramesAllocatable
  <2>2. QED  BY <2>1, <1>3, <1>4, AllocatableFrames DEF FramesOf
<1>7. Storage' = Storage /\ Usable(mmap)' = Usable(mmap)
  BY <1>1 DEF Storage, Usable
<1>8. \A c \in Callers : held[c] = NULL
  BY <1>1 DEF PhaseInv, Booted
<1>9. CASE n = 0
  <2>1. FramesOf(mmap[i]) = {}
    BY <1>3, <1>6, <1>9
  <2>2. bitmap_start_bit' = bitmap_start_bit /\ zeros' = zeros
    BY <1>1, <2>1 DEF StartAfter
  <2>3. \A j \in Usable(mmap) : j < i => j < i + 1
    BY <1>5, LenProperties DEF Usable, TypeOK
  <2>4. QED  BY <1>1, <1>7, <1>8, <2>2, <2>3 DEF StartInv
<1>10. CASE n # 0 /\ bitmap_start_bit # 0
  <2>1. bitmap_start_bit' = bitmap_start_bit
    BY <1>1, <1>10 DEF StartAfter
  <2>2. PICK j \in Usable(mmap) : j < i /\ bitmap_start_bit = mmap[j].base
    BY <1>10 DEF StartInv
  <2>3. bitmap_start_bit <= a
    BY <2>2, <1>2, <1>3, StillSorted
  <2>4. \A b \in zeros' \cap Storage : bitmap_start_bit <= b
    BY <1>1, <1>3, <1>4, <1>5, <1>6, <1>10, <2>3 DEF StartInv
  <2>5. j < i + 1
    BY <2>2, <1>5, LenProperties DEF Usable, TypeOK
  <2>6. QED  BY <1>1, <1>7, <1>8, <1>10, <2>1, <2>2, <2>4, <2>5 DEF StartInv
<1>11. CASE n # 0 /\ bitmap_start_bit = 0
  <2>1. a \in FramesOf(mmap[i]) /\ a # 0
    BY <1>3, <1>4, <1>6, <1>11
  <2>2. bitmap_start_bit' = a
    BY <1>1, <1>3, <1>11, <2>1 DEF StartAfter
  <2>3. zeros \cap Storage = {}
    BY <1>11 DEF StartInv
  <2>4. \A b \in zeros' \cap Storage : a <= b
    BY <1>1, <1>3, <1>4, <1>6, <2>3
  <2>5. i < i + 1
    BY <1>5
  <2>6. QED  BY <1>1, <1>2, <1>3, <1>7, <1>8, <2>1, <2>2, <2>4, <2>5 DEF StartInv
<1>12. QED
  BY <1>9, <1>10, <1>11

\* Steps that leave the bitmap, its start and the entries alone.
LEMMA StartKept ==
  ASSUME StartInv,
         UNCHANGED <<zeros, bitmap, bitmap_start_bit, bitmap_size, mmap>>,
         pc' \in {"init", "carve"} => pc \in {"init", "carve"},
         i' = i \/ (i \in Nat /\ mmap \in Seq(Entry) /\ i' = i + 1) \/ bitmap = NULL,
         \A c \in Callers : held'[c] # NULL =>
            held'[c] = held[c] \/ RunOf(held'[c]) \subseteq zeros \cap Storage
  PROVE  StartInv'
<1>1. Storage' = Storage /\ Usable(mmap)' = Usable(mmap)
  BY DEF Storage, Usable
<1>2. ASSUME bitmap # NULL, NEW j \in Usable(mmap), j < i PROVE j < i'
  <2>1. CASE i' = i
    BY <1>2, <2>1
  <2>2. CASE i \in Nat /\ mmap \in Seq(Entry) /\ i' = i + 1
    <3>1. j \in Nat
      BY <2>2, LenProperties DEF Usable
    <3>2. QED  BY <3>1, <2>2, <1>2
  <2>3. QED  BY <2>1, <2>2, <1>2
<1>3. \A c \in Callers : (bitmap # NULL /\ held'[c] # NULL)
                            => RunOf(held'[c]) \subseteq zeros \cap Storage
  BY DEF StartInv
<1>4. QED
  BY <1>1, <1>2, <1>3 DEF StartInv, RunOf

LEMMA StartStep == IInv /\ StartInv /\ [Next]_vars => StartInv'
<1> SUFFICES ASSUME IInv, StartInv, [Next]_vars PROVE StartInv'
  OBVIOUS
<1> USE DEF IInv
<1>1. i \in Nat /\ mmap \in Seq(Entry)
  BY DEF TypeOK
<1>2. CASE SizeBitmap \/ NoUsableMemory
  BY <1>2 DEF SizeBitmap, NoUsableMemory, init_vars, StartInv, PhaseInv
<1>3. CASE CarveNext \/ CarveNone \/ ReleaseNext \/ InitDone
  <2>1. CarveNone => bitmap = NULL
    BY DEF CarveNone, PhaseInv
  <2>2. QED
    BY <1>1, <1>3, <2>1, StartKept
       DEF CarveNext, CarveNone, ReleaseNext, InitDone, init_vars
<1>4. CASE CarveTake
  <2>1. bitmap_start_bit' = 0 /\ zeros' = zeros \ Storage /\ bitmap_size' = bitmap_size
        /\ pc' = "release"
    BY <1>4 DEF CarveTake, StartInv
  <2>2. \A c \in Callers : held'[c] = NULL
    BY <1>4 DEF CarveTake, PhaseInv, Booted
  <2>3. QED  BY <2>1, <2>2 DEF StartInv, Storage
<1>5. CASE ReleaseEntry
  <2>1. CASE bitmap = NULL
    BY <1>5, <2>1 DEF ReleaseEntry, StartInv
  <2>2. CASE bitmap # NULL
    BY <1>5, <2>2, ReleaseEntryStart
  <2>3. QED  BY <2>1, <2>2
<1>6. ASSUME NEW c \in Callers, NEW n \in Requests, AllocCall(c, n) PROVE StartInv'
  BY <1>6, StartKept DEF AllocCall, init_vars
<1>7. CASE ScanGrow \/ ScanReset \/ ScanFail \/ ScanNull
  BY <1>7, StartKept DEF ScanGrow, ScanReset, ScanFail, ScanNull, Return, StartOver, init_vars
<1>8. CASE ScanFound
  <2> DEFINE run == [base |-> RunStart, frames |-> frames]
  <2>1. RunOf(run) \subseteq zeros \cap Storage
    BY <1>8, FoundRun
  <2> HIDE DEF run
  <2>2. held' = held \/ held' = [held EXCEPT ![caller] = run]
    BY <1>8 DEF ScanFound, run
  <2>3. \A c \in Callers : held'[c] = held[c] \/ held'[c] = run
    BY <2>2 DEF TypeOK
  <2>4. QED  BY <1>8, <2>1, <2>3, StartKept DEF ScanFound, Return, init_vars
<1>9. ASSUME NEW c \in Callers, Free(c) PROVE StartInv'
  <2>1. CASE bitmap = NULL
    BY <1>9, <2>1 DEF Free, init_vars, StartInv
  <2>2. CASE bitmap # NULL
    <3>1. zeros' = zeros
      BY <1>9, <2>2 DEF Free, StartInv
    <3>2. \A d \in Callers : held'[d] # NULL => held'[d] = held[d]
      BY <1>9 DEF Free, TypeOK
    <3>3. QED  BY <1>9, <3>1, <3>2, StartKept DEF Free, init_vars
  <2>3. QED  BY <2>1, <2>2
<1>10. CASE UNCHANGED vars
  BY <1>10, StartKept DEF vars, init_vars
<1>11. QED
  BY <1>2, <1>3, <1>4, <1>5, <1>6, <1>7, <1>8, <1>9, <1>10 DEF Next, init_bitmap, Scan

\* For every memory map, nothing below the bit where pmm_alloc starts to search
\* is free, and the bit itself is free if any is (pmm.c:45-52, 133-141).
THEOREM SearchStartsAtFirstFree == Spec => []StartsAtFirstFree
<1>1. Init => StartInv
  BY DEF Init, StartInv
<1>2. IInv /\ StartInv => StartsAtFirstFree
  <2> SUFFICES ASSUME IInv, StartInv, bitmap # NULL, NEW b \in zeros \cap Storage
               PROVE  bitmap_start_bit <= b /\ bitmap_start_bit \in zeros
    BY DEF StartsAtFirstFree
  <2>1. bitmap_start_bit # 0
    BY DEF StartInv
  <2>2. QED  BY <2>1 DEF StartInv
<1>3. QED
  BY <1>1, <1>2, StartStep, Inductive, PTL DEF Spec
==============================================================================
