-------------------------------- MODULE MCPmm --------------------------------
(***************************************************************************)
(* Small instances of Pmm: bytes of 2 bits and pages of 2 bytes, so that   *)
(* one frame of bitmap describes 4 frames of memory, and every memory map  *)
(* of up to three entries in the frames 1 .. MaxFrame.                     *)
(***************************************************************************)
EXTENDS Pmm

CONSTANT MaxFrame   \* bound: the last frame of memory

Segments == {e \in [base : 1 .. MaxFrame, length : 1 .. MaxFrame,
                    type : {"usable", "reserved"}] :
               e.base + e.length <= MaxFrame + 1}

Follows(d, e) == d.base + d.length <= e.base

\* The bootloader sorts the entries by address, and they do not overlap.
MCAllMaps ==
  {<<e>> : e \in Segments}
    \cup {s \in Segments \X Segments : Follows(s[1], s[2])}
    \cup {s \in Segments \X Segments \X Segments :
             Follows(s[1], s[2]) /\ Follows(s[2], s[3])}

\* Bootloaders merge neighbours of one type: FillsUp does not occur.
MCMaps == {m \in MCAllMaps : NoneUsedUp(m)}

\* Some usable segment is long enough for the bitmap.
Roomy(m) == \E k \in Usable(m) : m[k].length >= get_bitmap_size(m)

MCRoomyMaps == {m \in MCMaps : Usable(m) # {} /\ Roomy(m)}

MCAllBits == 0 .. (4 * MaxFrame)
MCGarbage == {{}, MCAllBits}
==============================================================================
