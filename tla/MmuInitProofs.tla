---------------------------- MODULE MmuInitProofs ----------------------------
(***************************************************************************)
(* Proofs about the register values of aarch64_mmu_init.                   *)
(***************************************************************************)
EXTENDS MmuInit, TLAPS

\* The int terms of tcr are these bits, the last of them the sign.
LEMMA IntTermBits == IntTerms = {4, 20, 31, 8, 10, 13, 24, 26, 29}
BY DEF IntTerms, Shifted

\* Below bit 32 the register is what the int terms say, and the terms of 64
\* bits do not reach there.
LEMMA LowHalf ==
  ASSUME pa_bits \in PhysicalSizes, WriteTcr, NEW b \in 0 .. 31
  PROVE  b \in tcr' <=> b \in {4, 20, 31, 8, 10, 13, 24, 26, 29}
<1>1. b \in Widened(IntTerms) <=> b \in {4, 20, 31, 8, 10, 13, 24, 26, 29}
  BY IntTermBits DEF Widened
<1>2. b \notin Shifted({0}, 36, 64)
  BY DEF Shifted
<1>3. b \notin Shifted(pa_bits, 32, 64)
  <2>1. pa_bits \subseteq 0 .. 2
    BY DEF PhysicalSizes
  <2> QED
    BY <2>1 DEF Shifted
<1> QED
  BY <1>1, <1>2, <1>3 DEF WriteTcr

\* The inputs stay what they were at the start.
TypeInv ==
  /\ pc \in {"mair", "tcr", "done"}
  /\ fb_attr \in SUBSET AllOnes /\ pa_bits \in PhysicalSizes

Inv == TypeInv /\ FourLevels /\ MairSeparates /\ SignOverSize

\* A value shifted up and read back from there is the value.
LEMMA ReadBack ==
  ASSUME NEW v \in SUBSET AllOnes
  PROVE  {b - 8 : b \in {c + 8 : c \in v}} = v
<1> DEFINE up == {c + 8 : c \in v}
           back == {b - 8 : b \in up}
<1>1. v \subseteq Int
  BY DEF AllOnes
<1>2. ASSUME NEW x \in v PROVE x \in back
  <2>1. x + 8 \in up /\ (x + 8) - 8 = x
    BY <1>1
  <2> QED
    BY <2>1
<1>3. ASSUME NEW x \in back PROVE x \in v
  <2>1. PICK c \in v : x = (c + 8) - 8
    BY <1>3
  <2> QED
    BY <1>1, <2>1
<1> QED
  BY <1>2, <1>3

\* The register mair_el1 holds the two attributes the theorem is about.
LEMMA MairStep == ASSUME Inv, WriteMair PROVE MairSeparates'
<1> DEFINE a == FramebufferAttribute
<1>1. a \in SUBSET AllOnes /\ a # AllOnes /\ (fb_attr # AllOnes => a = fb_attr)
  <2>1. 0 \in AllOnes /\ 0 \notin {2, 3} /\ {2, 3} \subseteq AllOnes
    BY DEF AllOnes
  <2> QED
    BY <2>1 DEF Inv, TypeInv, FramebufferAttribute
<1> HIDE DEF a
<1>2. mair' = {c + 8 : c \in a} \cup AllOnes \cup {26}
  <2>1. Shifted(a, 8, 64) = {c + 8 : c \in a}
    BY <1>1 DEF Shifted, AllOnes
  <2>2. Shifted(AllOnes, 0, 32) = AllOnes /\ Shifted({}, 16, 32) = {}
        /\ Shifted({2}, 24, 32) = {26}
    BY DEF Shifted, AllOnes
  <2> QED
    BY <2>1, <2>2 DEF WriteMair, a
<1>3. mair' \cap 0 .. 7 = AllOnes
  BY <1>1, <1>2 DEF AllOnes
<1>4. mair' \cap 8 .. 15 = {c + 8 : c \in a}
  BY <1>1, <1>2 DEF AllOnes
<1>5. Field(mair', 8, 15) = a
  BY <1>1, <1>4, ReadBack DEF Field
<1>6. Field(mair', 0, 7) = AllOnes
  BY <1>3 DEF Field, AllOnes
<1> QED
  BY <1>1, <1>5, <1>6 DEF MairSeparates, WriteMair

\* The register tcr_el1 holds the sizes and granules the theorem is about.
LEMMA TcrStep == ASSUME Inv, WriteTcr PROVE FourLevels'
<1>1. \A b \in 0 .. 31 : b \in tcr' <=> b \in {4, 20, 31, 8, 10, 13, 24, 26, 29}
  BY LowHalf DEF Inv, TypeInv
<1>2. tcr' \cap 0 .. 5 = {4} /\ tcr' \cap 16 .. 21 = {20}
  BY <1>1
<1>3. tcr' \cap 14 .. 15 = {} /\ tcr' \cap 30 .. 31 = {31}
  BY <1>1
<1> QED
  BY <1>2, <1>3 DEF FourLevels, Field

\* Above bit 31 there is nothing but the sign.
LEMMA SignStep == ASSUME Inv, WriteTcr PROVE SignOverSize'
<1>1. 32 .. 63 \subseteq tcr'
  BY IntTermBits DEF WriteTcr, Widened
<1>2. Field(tcr', 32, 34) = {0, 1, 2}
  <2>1. tcr' \cap 32 .. 34 = {32, 33, 34}
    BY <1>1
  <2> QED
    BY <2>1 DEF Field
<1>3. {0, 1, 2} \notin PhysicalSizes
  <2>1. {0, 1, 2} \notin {{}, {0}, {1}, {0, 1}, {2}, {0, 2}, {1, 2}}
    OBVIOUS
  <2> QED
    BY <2>1 DEF PhysicalSizes
<1>4. \A b \in 0 .. 31 : b \in tcr' <=> b \in {4, 20, 31, 8, 10, 13, 24, 26, 29}
  BY LowHalf DEF Inv, TypeInv
<1>5. tcr' \cap 12 .. 13 = {13} /\ tcr' \cap 28 .. 29 = {29}
  BY <1>4
<1>6. Field(tcr', 12, 13) = {1} /\ Field(tcr', 28, 29) = {1}
  BY <1>5 DEF Field
<1> QED
  BY <1>1, <1>2, <1>3, <1>6 DEF SignOverSize, Field

LEMMA Inductive == Spec => []Inv
<1>1. Init => Inv
  BY DEF Init, Inv, TypeInv, FourLevels, MairSeparates, SignOverSize
<1>2. Inv /\ [Next]_vars => Inv'
  <2> SUFFICES ASSUME Inv, [Next]_vars PROVE Inv'
    OBVIOUS
  <2>1. CASE WriteMair
    BY <2>1, MairStep DEF WriteMair, Inv, TypeInv, FourLevels, SignOverSize
  <2>2. CASE WriteTcr
    BY <2>2, TcrStep, SignStep DEF WriteTcr, Inv, TypeInv, MairSeparates
  <2>3. CASE UNCHANGED vars
    BY <2>3 DEF vars, Inv, TypeInv, FourLevels, MairSeparates, SignOverSize
  <2> QED
    BY <2>1, <2>2, <2>3 DEF Next
<1> QED
  BY <1>1, <1>2, PTL DEF Spec

\* Whatever the bootloader left in mair_el1 and whatever address size the
\* processor reports: the registers select the four levels and 4 KiB pages
\* that mmu.c walks, in either half (mmu.c:105-139, 251-266), and no attribute
\* of the framebuffer is ordinary cached memory (mmu.c:237-249).
THEOREM RegistersFitTheWalk == Spec => [](FourLevels /\ MairSeparates)
<1>1. Inv => FourLevels /\ MairSeparates
  BY DEF Inv
<1> QED
  BY <1>1, Inductive, PTL

\* Whatever the processor reports, the upper half of tcr_el1 is the sign of
\* 0x02 << 30 (mmu.c:255) and not the size reported (mmu.c:263); and both halves
\* of the address space are outer shareable (mmu.c:258, 261).
THEOREM SignHidesSize == Spec => []SignOverSize
<1>1. Inv => SignOverSize
  BY DEF Inv
<1> QED
  BY <1>1, Inductive, PTL
==============================================================================
