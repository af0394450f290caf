------------------------------ MODULE MmuInit ------------------------------
(***************************************************************************)
(* aarch64_mmu_init (aarch64/mm/mmu.c): the values it writes to mair_el1   *)
(* and tcr_el1, with the widths C gives to their terms.  A value is the    *)
(* set of the positions of its 1 bits.                                     *)
(***************************************************************************)
EXTENDS Integers

VARIABLES
  pc,            \* the next of the two registers to be written
  fb_attr,       \* what mair_el1 holds for attribute 1 at entry
  pa_bits,       \* the physical address size id_aa64mmfr0_el1 reports
  mair, tcr      \* the registers

vars == <<pc, fb_attr, pa_bits, mair, tcr>>

\* The value v shifted left by n, in a type of the given width.
Shifted(v, n, width) == {b + n : b \in v} \cap 0 .. (width - 1)

\* An int used as a size_t: bit 31 is its sign.
Widened(v) == IF 31 \in v THEN v \cup 32 .. 63 ELSE v

\* Bits lo .. hi of a register.
Field(v, lo, hi) == {b - lo : b \in v \cap lo .. hi}

AllOnes == 0 .. 7

\* The sizes the architecture defines: 32, 36, 40, 42, 44, 48 and 52 bits.
PhysicalSizes == {{}, {0}, {1}, {0, 1}, {2}, {0, 2}, {1, 2}}

\* The bootloader may have left anything in the byte of attribute 1.
Init ==
  /\ pc = "mair"
  /\ fb_attr \in SUBSET AllOnes /\ pa_bits \in PhysicalSizes
  /\ mair = {} /\ tcr = {}

\* "Systems like QEMU map framebuffer as 0xFF.  Override it."
FramebufferAttribute == IF fb_attr = AllOnes THEN {2, 3} ELSE fb_attr

WriteMair ==
  /\ pc = "mair"
  /\ mair' = Shifted(FramebufferAttribute, 8, 64) \cup Shifted(AllOnes, 0, 32)
               \cup Shifted({}, 16, 32) \cup Shifted({2}, 24, 32)
  /\ pc' = "tcr"
  /\ UNCHANGED <<fb_attr, pa_bits, tcr>>

\* The terms of tcr that are ints: T0SZ, T1SZ and TG1, and for either half
\* cacheability and shareability.
IntTerms ==
  Shifted({4}, 0, 32) \cup Shifted({4}, 16, 32) \cup Shifted({1}, 30, 32)
    \cup Shifted({0}, 8, 32) \cup Shifted({0}, 10, 32) \cup Shifted({1}, 12, 32)
    \cup Shifted({0}, 24, 32) \cup Shifted({0}, 26, 32) \cup Shifted({1}, 28, 32)

\* They meet the two terms that are longs in an expression of 64 bits.
WriteTcr ==
  /\ pc = "tcr"
  /\ tcr' = Widened(IntTerms) \cup Shifted({0}, 36, 64) \cup Shifted(pa_bits, 32, 64)
  /\ pc' = "done"
  /\ UNCHANGED <<fb_attr, pa_bits, mair>>

Next == WriteMair \/ WriteTcr

Spec == Init /\ [][Next]_vars

------------------------------------------------------------------------------

\* What mmu.c takes for granted when it walks the tables (mmu.c:105-139): pages
\* of 4 KiB and 48 bits of address, that is 64 - T0SZ and 64 - T1SZ, in either
\* half.
FourLevels ==
  pc = "done" => /\ Field(tcr, 0, 5) = {4} /\ Field(tcr, 16, 21) = {4}
                 /\ Field(tcr, 14, 15) = {} /\ Field(tcr, 30, 31) = {1}

\* The framebuffer is never mapped as ordinary cached memory, and ordinary
\* memory always is, whatever the bootloader had set (mmu.c:237-249).
MairSeparates ==
  pc # "mair" => /\ Field(mair, 0, 7) = AllOnes /\ Field(mair, 8, 15) # AllOnes
                 /\ fb_attr # AllOnes => Field(mair, 8, 15) = fb_attr

\* What the two halves of the value come to.  The int 0x02 << 30 is negative, so
\* that bits 32 .. 63 are all 1 and the address size is none that a processor
\* reports, although mmu.c:263 puts in the reported one; shareability is 2, outer,
\* in either half, although mmu.c:258 and 261 say "Inner shareable".
SignOverSize ==
  pc = "done" => /\ 32 .. 63 \subseteq tcr
                 /\ Field(tcr, 32, 34) \notin PhysicalSizes
                 /\ Field(tcr, 12, 13) = {1} /\ Field(tcr, 28, 29) = {1}
==============================================================================
