---------------------------- MODULE FirstFitProofs -----------------------------
(***************************************************************************)
(* The bitmap and the scan of pmm.c implement FirstFit, for every memory   *)
(* map that the boot protocol allows and in which the bootloader has       *)
(* merged neighbours of one type.                                          *)
(*                                                                         *)
(* The steps of init_bitmap and the iterations of the scan are stutters,   *)
(* save the last of each: init_bitmap publishes the free frames, and the   *)
(* scan grants the lowest run or refuses.  That a grant is the lowest run, *)
(* and that a refusal is right, is LowInv; that the scan looks as far as   *)
(* the bitmap reaches, although it computes the end again from memory-map  *)
(* entries that have been edited, is Passed.                               *)
(***************************************************************************)
EXTENDS PmmProofs

\* What is left of the highest entry, or of another, ends where it ended: only
\* an entry that is used up could take the place of the highest one.
LEMMA CutKeepsSize ==
  ASSUME TypeOK, mmap = bootmap, bitmap_size = get_bitmap_size(bootmap),
         NoneUsedUp(bootmap), NEW e \in Usable(bootmap),
         bootmap[e].length >= bitmap_size,
         \A k \in Usable(bootmap) : k < e => bootmap[k].length < bitmap_size,
         NEW m, m = [bootmap EXCEPT ![e] = Cut(bootmap[e])]
  PROVE  get_bitmap_size(m) = bitmap_size
<1> DEFINE H == find_highest_mmap_entry(bootmap)
           h == find_highest_mmap_entry(m)
<1>1. e \in DOMAIN bootmap /\ bootmap \in Seq(Entry) /\ bootmap[e].type = "usable"
  BY BootmapValid DEF Usable
<1>2. PICK b \in Nat : b = bootmap[e].base
  BY BootmapValid
<1>3. PICK l \in Nat : l = bootmap[e].length
  BY BootmapValid
<1>4. PICK s \in Nat : s = bitmap_size
  BY DEF TypeOK
<1>5. s <= l
  BY <1>3, <1>4
<1>6. m = [bootmap EXCEPT ![e] = [base |-> b + s, length |-> l - s, type |-> "usable"]]
  BY <1>1, <1>2, <1>3, <1>4 DEF Cut
<1>7. m \in Seq(Entry)
  <2>1. [base |-> b + s, length |-> l - s, type |-> "usable"] \in Entry
    BY <1>5 DEF Entry
  <2>2. QED  BY <2>1, <1>1, <1>6, ExceptSeq
<1>8. /\ DOMAIN m = DOMAIN bootmap
      /\ \A k \in DOMAIN bootmap : k # e => m[k] = bootmap[k]
      /\ m[e] = [base |-> b + s, length |-> l - s, type |-> "usable"]
  BY <1>1, <1>6
<1>9. Usable(m) = Usable(bootmap)
  BY <1>1, <1>8 DEF Usable
<1>10. IsHighest(bootmap, H) /\ IsHighest(m, h)
  BY <1>1, <1>7, <1>9, HighestExists
<1> HIDE DEF H, h
<1>11. H \in Usable(bootmap) /\ h \in Usable(bootmap)
  BY <1>9, <1>10 DEF IsHighest
<1>12. PICK B \in Nat : B = bootmap[H].base
  BY <1>11, BootmapValid
<1>13. PICK L \in Nat : L = bootmap[H].length /\ L > 0
  BY <1>11, BootmapValid DEF ValidMap
\* Every other entry lies below the highest one.
<1>14. ASSUME NEW k \in Usable(bootmap), k # H
       PROVE  bootmap[k].base + bootmap[k].length <= B /\ bootmap[k].base < B
  <2>1. PICK c \in Nat : c = bootmap[k].base
    BY BootmapValid
  <2>2. PICK n \in Nat : n = bootmap[k].length /\ n > 0
    BY BootmapValid DEF ValidMap
  <2>3. c <= B
    BY <1>10, <1>12, <2>1 DEF IsHighest
  <2>4. c + n <= B \/ B + L <= c
    BY <1>11, <1>12, <1>13, <1>14, <2>1, <2>2, BootmapValid DEF ValidMap, Disjoint
  <2>5. QED  BY <2>1, <2>2, <2>3, <2>4, <1>13
<1>15. h = H
  <2> SUFFICES ASSUME h # H PROVE FALSE
    OBVIOUS
  <2>1. m[H].base <= m[h].base
    BY <1>9, <1>10, <1>11 DEF IsHighest
  <2>2. PICK c \in Nat : c = bootmap[h].base /\ c < B
    BY <1>11, <1>14, BootmapValid
  <2>3. CASE h # e
    <3>1. m[h].base = c
      BY <2>2, <2>3, <1>8, <1>11 DEF Usable
    <3>2. m[H].base >= B
      <4>1. CASE H = e
        <5>1. b = B /\ m[H].base = b + s
          BY <1>2, <1>8, <1>12, <4>1
        <5>2. QED  BY <5>1, <1>2, <1>4
      <4>2. CASE H # e
        <5>1. m[H].base = B
          BY <4>2, <1>8, <1>11, <1>12 DEF Usable
        <5>2. QED  BY <5>1, <1>12
      <4>3. QED  BY <4>1, <4>2
    <3>3. PICK d \in Nat : d = m[H].base
      BY <1>7, <1>9, <1>11, EntryOfMap DEF Usable, Entry
    <3>4. QED  BY <2>1, <2>2, <3>1, <3>2, <3>3, <1>12
  <2>4. CASE h = e
    <3>1. m[h].base = b + s /\ m[H].base = B
      BY <2>4, <1>8, <1>11, <1>12 DEF Usable
    <3>2. b + l <= B
      BY <2>4, <1>2, <1>3, <1>11, <1>14
    <3>3. s = l /\ B = b + l
      BY <2>1, <3>1, <3>2, <1>5, <1>12, <1>2, <1>3, <1>4
    <3>4. FillsUp(bootmap, e)
      BY <3>3, <1>2, <1>3, <1>4, <1>11, <1>12 DEF FillsUp
    <3>5. QED  BY <3>4 DEF NoneUsedUp
  <2>5. QED  BY <2>3, <2>4
<1>16. m[H].base + m[H].length = B + L
  <2>1. CASE H = e
    <3>1. b = B /\ l = L
      BY <2>1, <1>2, <1>3, <1>12, <1>13
    <3>2. m[H].base = b + s /\ m[H].length = l - s
      BY <2>1, <1>8
    <3>3. QED  BY <3>1, <3>2, <1>2, <1>3, <1>4
  <2>2. CASE H # e
    <3>1. m[H] = bootmap[H]
      BY <2>2, <1>8, <1>11 DEF Usable
    <3>2. QED  BY <3>1, <1>12, <1>13
  <2>3. QED  BY <2>1, <2>2
<1>17. get_bitmap_size(m) = SizeFor(B + L)
  BY <1>15, <1>16 DEF get_bitmap_size, h
<1>18. get_bitmap_size(bootmap) = SizeFor(B + L)
  BY <1>12, <1>13 DEF get_bitmap_size, H
<1>19. QED
  BY <1>17, <1>18

------------------------------------------------------------------------------

\* Steps that leave the entries and the size alone.
LEMMA PassedKept ==
  ASSUME Passed, UNCHANGED <<mmap, bitmap_size>>,
         pc' \in {"init", "carve"} => pc' = pc /\ i' = i,
         pc \in {"init", "carve", "panic"} => pc' \in {"init", "carve", "panic"}
  PROVE  Passed'
<1>1. pc' = "carve" => \A k \in Usable(mmap)' : k < i' => mmap'[k].length < bitmap_size'
  BY DEF Passed, Usable
<1>2. pc' \notin {"init", "carve", "panic"} => get_bitmap_size(mmap)' = bitmap_size'
  BY DEF Passed, get_bitmap_size, find_highest_mmap_entry, IsHighest, Usable
<1>3. QED  BY <1>1, <1>2 DEF Passed

LEMMA PassedStep ==
  ASSUME \A m \in MemoryMaps : NoneUsedUp(m)
  PROVE  IInv /\ Passed /\ [Next]_vars => Passed'
<1> SUFFICES ASSUME IInv, Passed, [Next]_vars PROVE Passed'
  OBVIOUS
<1> USE DEF IInv
<1>1. i \in Nat /\ DOMAIN mmap = 1 .. Len(mmap) /\ Len(mmap) \in Nat
  BY LenProperties DEF TypeOK
<1>2. \A k \in Usable(mmap) : k \in Nat /\ k > 0
  BY <1>1 DEF Usable
<1>3. pc \in {"init", "carve"} => mmap = bootmap
  BY DEF PhaseInv, PlacedInv
<1>4. CASE SizeBitmap
  <2>1. pc' = "carve" /\ i' = 1 /\ mmap' = mmap
    BY <1>4 DEF SizeBitmap, Passed
  <2>2. \A k \in Usable(mmap) : ~(k < 1)
    BY <1>2
  <2>3. QED  BY <2>1, <2>2 DEF Passed, Usable
<1>5. CASE CarveNext
  <2>1. /\ pc = "carve" /\ pc' = "carve" /\ i' = i + 1 /\ mmap' = mmap
        /\ bitmap_size' = bitmap_size /\ ~Fits(mmap[i])
    BY <1>5 DEF CarveNext
  <2>2. ASSUME NEW k \in Usable(mmap), k < i + 1 PROVE mmap[k].length < bitmap_size
    <3>1. k < i \/ k = i
      BY <1>1, <1>2, <2>2
    <3>2. CASE k < i
      BY <2>1, <3>2 DEF Passed
    <3>3. CASE k = i
      <4>1. mmap[k] \in Entry
        BY EntryOfMap DEF Usable, TypeOK
      <4>2. ~(mmap[k].length >= bitmap_size)
        BY <2>1, <3>3 DEF Fits, Usable
      <4>3. PICK n \in Nat : n = mmap[k].length
        BY <4>1 DEF Entry
      <4>4. QED  BY <4>2, <4>3 DEF TypeOK
    <3>4. QED  BY <3>1, <3>2, <3>3
  <2>3. QED  BY <2>1, <2>2 DEF Passed, Usable
<1>6. CASE CarveTake
  <2>1. /\ pc = "carve" /\ pc' = "release" /\ i \in DOMAIN mmap /\ Fits(mmap[i])
        /\ mmap' = [mmap EXCEPT ![i] = Cut(mmap[i])] /\ bitmap_size' = bitmap_size
    BY <1>6 DEF CarveTake
  <2>2. i \in Usable(bootmap) /\ bootmap[i].length >= bitmap_size /\ mmap = bootmap
    BY <2>1, <1>3 DEF Fits, Usable
  <2>3. bitmap_size = get_bitmap_size(bootmap) /\ NoneUsedUp(bootmap)
    BY <2>1 DEF SizeInv, TypeOK
  <2>4. \A k \in Usable(bootmap) : k < i => bootmap[k].length < bitmap_size
    BY <2>1, <2>2 DEF Passed
  <2>5. get_bitmap_size(mmap') = bitmap_size
    BY <2>1, <2>2, <2>3, <2>4, CutKeepsSize
  <2>6. get_bitmap_size(mmap)' = get_bitmap_size(mmap')
    BY DEF get_bitmap_size, find_highest_mmap_entry, IsHighest, Usable
  <2>7. QED  BY <2>1, <2>5, <2>6 DEF Passed
<1>7. CASE CarveNone
  <2>1. pc = "carve" /\ pc' = "release" /\ mmap' = mmap /\ bitmap_size' = bitmap_size
    BY <1>7 DEF CarveNone
  <2>2. get_bitmap_size(mmap) = bitmap_size
    BY <2>1, <1>3 DEF SizeInv
  <2>3. get_bitmap_size(mmap)' = get_bitmap_size(mmap)
    BY <2>1 DEF get_bitmap_size, find_highest_mmap_entry, IsHighest, Usable
  <2>4. QED  BY <2>1, <2>2, <2>3 DEF Passed
<1>8. CASE NoUsableMemory \/ ReleaseEntry \/ ReleaseNext \/ InitDone
  BY <1>8, PassedKept DEF NoUsableMemory, ReleaseEntry, ReleaseNext, InitDone, init_vars
<1>9. CASE Scan
  BY <1>9, PassedKept DEF Scan, ScanGrow, ScanFound, ScanReset, ScanFail, ScanNull, Return,
     StartOver, init_vars
<1>10. ASSUME NEW c \in Callers, NEW n \in Requests, AllocCall(c, n) PROVE Passed'
  BY <1>10, PassedKept DEF AllocCall, init_vars
<1>11. ASSUME NEW c \in Callers, Free(c) PROVE Passed'
  BY <1>11, PassedKept DEF Free, init_vars
<1>12. CASE UNCHANGED vars
  BY <1>12, PassedKept DEF vars, init_vars
<1>13. QED
  BY <1>4, <1>5, <1>6, <1>7, <1>8, <1>9, <1>10, <1>11, <1>12 DEF Next, init_bitmap

------------------------------------------------------------------------------

\* The run the scan is following reaches up to the bit it looks at.
LEMMA RunReaches ==
  ASSUME IInv, pc = "scan", bitmap # NULL
  PROVE  RunStart \in Nat /\ RunStart + frames_found = current_bit
BY DEF IInv, TypeOK, ScanInv, RunStart

\* A run that is long enough and does not start below the one the scan is
\* following contains the bit the scan looks at, or starts behind it.
LEMMA RunCoversBit ==
  ASSUME IInv, LowInv, pc = "scan", bitmap # NULL,
         NEW b \in Promise!RunStarts(frames)
  PROVE  b \in Nat /\ (b > current_bit \/ current_bit \in FreeFrames)
         /\ b + Promise!Need(frames) - 1 >= current_bit
         /\ b + Promise!Need(frames) - 1 \in FreeFrames
<1> USE DEF IInv
<1>1. PICK n \in Nat : n = Promise!Need(frames) /\ n > 0 /\ frames_found < n
  BY DEF TypeOK, LowInv, Promise!Need
<1>2. b \in FreeFrames /\ b .. (b + n - 1) \subseteq FreeFrames
  BY <1>1 DEF Promise!RunStarts
<1>3. b \in Nat
  BY <1>2 DEF FreeFrames, TypeOK
<1>4. RunStart \in Nat /\ RunStart + frames_found = current_bit
      /\ frames_found \in Nat /\ current_bit \in Nat
  BY RunReaches DEF TypeOK
<1>5. RunStart <= b
  BY DEF LowInv
<1>6. b + n - 1 >= current_bit
  BY <1>1, <1>3, <1>4, <1>5
<1>7. b + n - 1 \in b .. (b + n - 1) /\ (b > current_bit \/ current_bit \in b .. (b + n - 1))
  BY <1>1, <1>3, <1>4, <1>6
<1>8. QED
  BY <1>1, <1>2, <1>3, <1>6, <1>7

\* Steps outside the scan, or that leave the run it follows and the bits alone.
LEMMA LowKept ==
  ASSUME LowInv, bitmap' = NULL => bitmap = NULL,
         \A c \in Callers : held'[c] # NULL => held[c] # NULL \/ bitmap' # NULL,
         \/ pc' # "scan"
         \/ UNCHANGED <<pc, zeros, bitmap, bitmap_size, frames, current_bit, bit, frames_found>>
  PROVE  LowInv'
<1>1. bitmap' = NULL => \A c \in Callers : held'[c] = NULL
  BY DEF LowInv
<1>2. CASE pc' # "scan"
  BY <1>1, <1>2 DEF LowInv
<1>3. CASE UNCHANGED <<pc, zeros, bitmap, bitmap_size, frames, current_bit, bit, frames_found>>
  BY <1>1, <1>3 DEF LowInv, RunStart, Promise!RunStarts, Promise!Need, FreeFrames, Booted, Storage
<1>4. QED  BY <1>2, <1>3

LEMMA LowStep == IInv /\ StartInv /\ LowInv /\ [Next]_vars => LowInv'
<1> SUFFICES ASSUME IInv, StartInv, LowInv, [Next]_vars PROVE LowInv'
  OBVIOUS
<1> USE DEF IInv
<1>1. CASE init_bitmap
  <2>1. /\ held' = held /\ pc' # "scan" /\ (bitmap' = NULL => bitmap = NULL)
    BY <1>1 DEF init_bitmap, SizeBitmap, NoUsableMemory, CarveNext, CarveTake, CarveNone,
       ReleaseEntry, ReleaseNext, InitDone, init_vars, PhaseInv
  <2>2. QED  BY <2>1, LowKept
<1>2. ASSUME NEW c \in Callers, NEW n \in Requests, AllocCall(c, n) PROVE LowInv'
  <2>1. /\ UNCHANGED <<zeros, held, mmap, bitmap, bitmap_start_bit, bitmap_size>>
        /\ pc = "idle" /\ pc' = "scan" /\ frames' = n
        /\ current_bit' = bitmap_start_bit /\ bit' = 0 /\ frames_found' = 0
    BY <1>2 DEF AllocCall, init_vars
  <2>2. bitmap' = NULL => \A d \in Callers : held'[d] = NULL
    BY <2>1 DEF LowInv
  <2>3. 0 < Promise!Need(n)
    BY CallAssumption DEF Promise!Need
  <2>4. RunStart' = bitmap_start_bit
    BY <2>1 DEF RunStart
  <2>5. ASSUME bitmap # NULL, NEW b \in zeros \cap Storage PROVE bitmap_start_bit <= b
    BY <2>5 DEF StartInv
  <2>6. Storage' = Storage
    BY <2>1 DEF Storage
  <2>7. \A b \in Promise!RunStarts(frames)' : b \in zeros \cap Storage
    BY <2>1, <2>6 DEF Promise!RunStarts, FreeFrames
  <2>8. Promise!Need(frames)' = Promise!Need(n)
    BY <2>1 DEF Promise!Need
  <2>9. QED
    BY <2>1, <2>2, <2>3, <2>4, <2>5, <2>7, <2>8 DEF LowInv
<1>3. CASE ScanGrow
  <2>1. /\ UNCHANGED <<pc, zeros, held, bitmap, bitmap_size, frames>>
        /\ pc = "scan" /\ bitmap # NULL /\ bit' = RunStart /\ current_bit' = current_bit + 1
        /\ frames_found' = frames_found + 1 /\ frames_found + 1 < frames
    BY <1>3 DEF ScanGrow, init_vars
  <2>2. current_bit \in zeros \cap Storage
    BY <1>3, <2>1, ScanStaysInside DEF ScanGrow
  <2>3. RunStart # 0
    BY <2>1, <2>2, AllocatableFrames DEF FreeIsUsable, RunStart
  <2>4. RunStart' = RunStart
    BY <2>1, <2>3 DEF RunStart
  <2>5. frames_found + 1 < Promise!Need(frames)
    BY <2>1 DEF Promise!Need, TypeOK
  <2>6. UNCHANGED <<Promise!RunStarts(frames), Promise!Need(frames)>>
    BY <2>1 DEF Promise!RunStarts, Promise!Need, FreeFrames, Booted, Storage
  <2>7. QED
    BY <2>1, <2>4, <2>5, <2>6 DEF LowInv
<1>4. CASE ScanReset
  <2>1. /\ UNCHANGED <<pc, zeros, held, bitmap, bitmap_size, frames>>
        /\ pc = "scan" /\ bitmap # NULL /\ bit' = 0 /\ current_bit' = current_bit + 1
        /\ frames_found' = 0 /\ current_bit \notin zeros
    BY <1>4 DEF ScanReset, StartOver, init_vars
  <2>2. UNCHANGED <<Promise!RunStarts(frames), Promise!Need(frames)>>
    BY <2>1 DEF Promise!RunStarts, Promise!Need, FreeFrames, Booted, Storage
  <2>3. 0 < Promise!Need(frames)
    BY DEF Promise!Need, TypeOK
  <2>4. ASSUME NEW b \in Promise!RunStarts(frames) PROVE current_bit + 1 <= b
    <3>1. b \in Nat /\ (b > current_bit \/ current_bit \in FreeFrames)
      BY <2>1, RunCoversBit
    <3>2. current_bit \notin FreeFrames
      BY <2>1 DEF FreeFrames
    <3>3. QED  BY <3>1, <3>2 DEF TypeOK
  <2>5. RunStart' = current_bit + 1
    BY <2>1 DEF RunStart
  <2>6. QED
    BY <2>1, <2>2, <2>3, <2>4, <2>5 DEF LowInv
<1>5. CASE ScanFound
  <2>1. pc' # "scan" /\ bitmap # NULL /\ bitmap' = bitmap
    BY <1>5 DEF ScanFound, Return, init_vars
  <2>2. QED  BY <2>1, LowKept
<1>6. CASE ScanFail \/ ScanNull
  BY <1>6, LowKept DEF ScanFail, ScanNull, Return, init_vars
<1>7. ASSUME NEW c \in Callers, Free(c) PROVE LowInv'
  <2>1. pc' # "scan" /\ bitmap' = bitmap /\ \A d \in Callers : held'[d] # NULL => held[d] # NULL
    BY <1>7 DEF Free, init_vars, TypeOK
  <2>2. QED  BY <2>1, LowKept
<1>8. CASE UNCHANGED vars
  BY <1>8, LowKept DEF vars, init_vars, alloc_vars
<1>9. QED
  BY <1>1, <1>2, <1>3, <1>4, <1>5, <1>6, <1>7, <1>8 DEF Next, Scan

------------------------------------------------------------------------------

\* The least element of a set of naturals, as Min of the community modules.
LEMMA MinIs ==
  ASSUME NEW S, NEW x \in S, S \subseteq Nat, \A y \in S : x <= y
  PROVE  Promise!Min(S) = x
<1> DEFINE Least(y) == \A z \in S : y <= z
<1>1. Least(x) /\ \A y \in S : Least(y) => y = x
  OBVIOUS
<1> HIDE DEF Least
<1>2. (CHOOSE y \in S : Least(y)) = x
  BY <1>1
<1>3. Promise!Min(S) = CHOOSE y \in S : Least(y)
  BY DEF Promise!Min, Least
<1>4. QED  BY <1>2, <1>3

\* The run that completes is the lowest one.
LEMMA FoundIsGrant == IInv /\ StartInv /\ LowInv /\ ScanFound => Promise!Grant
<1> SUFFICES ASSUME IInv, StartInv, LowInv, ScanFound PROVE Promise!Grant
  OBVIOUS
<1> USE DEF IInv
<1>1. /\ UNCHANGED <<zeros, bitmap, bitmap_size>> /\ pc = "scan" /\ pc' = "idle"
      /\ bitmap # NULL /\ frames_found + 1 >= frames /\ current_bit \in zeros
  BY DEF ScanFound, Return, init_vars
<1>2. current_bit \in zeros \cap Storage
  BY <1>1, ScanStaysInside DEF ScanFound
<1>3. Promise!Need(frames) = frames_found + 1
  BY <1>1 DEF LowInv, TypeOK, Promise!Need
<1>4. RunStart \in Nat /\ RunStart + frames_found = current_bit
  BY <1>1, RunReaches
<1>5. RunStart .. current_bit \subseteq zeros \cap Storage
  BY <1>1, <1>2, <1>4 DEF ScanInv, RunStart, TypeOK
<1>6. RunStart .. (RunStart + Promise!Need(frames) - 1) = RunStart .. current_bit
      /\ RunStart \in RunStart .. current_bit
  BY <1>3, <1>4 DEF TypeOK
<1>7. FreeFrames = zeros \cap Storage /\ FreeFrames' = FreeFrames /\ Booted /\ Booted'
  BY <1>1 DEF FreeFrames, Booted, Storage
<1>8. RunStart \in Promise!RunStarts(frames)
  BY <1>5, <1>6, <1>7 DEF Promise!RunStarts
<1>9. Promise!RunStarts(frames) \subseteq Nat
  BY <1>7 DEF Promise!RunStarts, TypeOK
<1>10. Promise!Min(Promise!RunStarts(frames)) = RunStart
  BY <1>1, <1>8, <1>9, MinIs DEF LowInv
<1>11. RunStart # 0
  BY <1>5, <1>6, <1>1, AllocatableFrames DEF FreeIsUsable
<1>12. held' = [held EXCEPT ![caller] = [base |-> RunStart, frames |-> frames]]
  BY <1>11 DEF ScanFound
<1>13. [caller |-> caller, frames |-> frames] # NULL
  BY <1>1, NullAssumption DEF PhaseInv, TypeOK
<1>14. QED
  BY <1>1, <1>7, <1>8, <1>10, <1>12, <1>13 DEF Promise!Grant

\* The scan gives up only at the end of the bitmap, and then there is no run.
LEMMA FailIsRefusal ==
  IInv /\ Passed /\ LowInv /\ (ScanFail \/ ScanNull) => Promise!Refuse
<1> SUFFICES ASSUME IInv, Passed, LowInv, ScanFail \/ ScanNull PROVE Promise!Refuse
  OBVIOUS
<1> USE DEF IInv
<1>1. /\ UNCHANGED <<zeros, bitmap, bitmap_size, held>> /\ pc = "scan"
      /\ pc' \in {"idle", "fault"} /\ (bitmap # NULL => ~InRange)
  BY DEF ScanFail, ScanNull, Return, init_vars
<1>2. FreeFrames' = FreeFrames /\ Booted /\ Booted' /\ pc' # "scan"
  BY <1>1 DEF FreeFrames, Booted, Storage
<1>3. [caller |-> caller, frames |-> frames] # NULL
  BY <1>1, NullAssumption DEF PhaseInv, TypeOK
<1>4. Promise!RunStarts(frames) = {}
  <2>1. CASE bitmap = NULL
    BY <2>1 DEF FreeFrames, Promise!RunStarts
  <2>2. ASSUME bitmap # NULL, NEW b \in Promise!RunStarts(frames) PROVE FALSE
    <3>1. PICK z \in Nat : z = b + Promise!Need(frames) - 1 /\ z >= current_bit /\ z \in Storage
      <4>1. b + Promise!Need(frames) - 1 \in zeros \cap Storage
            /\ b + Promise!Need(frames) - 1 >= current_bit
        BY <1>1, <2>2, RunCoversBit DEF FreeFrames
      <4>2. QED  BY <4>1 DEF TypeOK
    <3>2. get_bitmap_size(mmap) = bitmap_size
      BY <1>1 DEF Passed
    <3>3. ~(current_bit < Bits(bitmap_size))
      BY <1>1, <2>2, <3>2 DEF InRange
    <3>4. PICK n \in Nat : n = Bits(bitmap_size)
      BY WidthAssumption, Z3 DEF Bits, TypeOK
    <3>5. z < n
      BY <3>1, <3>4 DEF Storage
    <3>6. QED  BY <3>1, <3>3, <3>4, <3>5 DEF TypeOK
  <2>3. QED  BY <2>1, <2>2
<1>5. QED
  BY <1>1, <1>2, <1>3, <1>4 DEF Promise!Refuse

\* What pmm_free gives back is free already, and stays so.
LEMMA FreeIsGiveBack ==
  ASSUME NEW c \in Callers, IInv, StartInv, LowInv, Free(c)
  PROVE  Promise!GiveBack(c)
<1> USE DEF IInv
<1>1. /\ UNCHANGED <<pc, bitmap, bitmap_size>> /\ pc = "idle" /\ held[c] # NULL
      /\ zeros' = zeros \cup RunOf(held[c]) /\ held' = [held EXCEPT ![c] = NULL]
  BY DEF Free, init_vars
<1>2. bitmap # NULL
  BY <1>1 DEF LowInv
<1>3. RunOf(held[c]) \subseteq Storage
  BY <1>1, <1>2 DEF StartInv
<1>4. Storage' = Storage /\ Booted /\ Booted'
  BY <1>1 DEF Storage, Booted
<1>5. FreeFrames' = FreeFrames \cup RunOf(held[c])
  BY <1>1, <1>2, <1>3, <1>4 DEF FreeFrames
<1>6. QED
  BY <1>1, <1>4, <1>5 DEF Promise!GiveBack, RunOf

\* Every step is one that FirstFit allows, or a stutter.
LEMMA StepRefines ==
  IInv /\ StartInv /\ Passed /\ LowInv /\ [Next]_vars
    => [Promise!AbsNext]_(Promise!abs_vars)
<1> SUFFICES ASSUME IInv, StartInv, Passed, LowInv, [Next]_vars
             PROVE  [Promise!AbsNext]_(Promise!abs_vars)
  OBVIOUS
<1> USE DEF IInv
<1>1. ASSUME ~Booted, ~Booted', held' = held PROVE UNCHANGED Promise!abs_vars
  BY <1>1 DEF Promise!abs_vars, FreeFrames, Booted
<1>2. CASE SizeBitmap \/ NoUsableMemory \/ CarveNext \/ CarveTake \/ CarveNone
           \/ ReleaseEntry \/ ReleaseNext
  BY <1>1, <1>2 DEF SizeBitmap, NoUsableMemory, CarveNext, CarveTake, CarveNone,
     ReleaseEntry, ReleaseNext, init_vars, Booted
<1>3. CASE InitDone
  <2>1. /\ UNCHANGED <<zeros, held, bitmap, bitmap_size, bootmap>> /\ pc = "release" /\ pc' = "idle"
    BY <1>3 DEF InitDone, init_vars
  <2>2. ~Booted /\ Booted' /\ FreeFrames = {}
    BY <2>1 DEF Booted, FreeFrames
  <2>3. FreeFrames' \subseteq Nat \ {0}
    BY <2>1, AllocatableFrames DEF FreeFrames, FreeIsUsable, Storage
  <2>4. Promise!Publish
    BY <2>1, <2>2, <2>3 DEF Promise!Publish
  <2>5. QED  BY <2>4 DEF Promise!AbsNext
<1>4. CASE ScanGrow \/ ScanReset
  <2>1. UNCHANGED <<pc, zeros, held, bitmap, bitmap_size, caller, frames>>
    BY <1>4 DEF ScanGrow, ScanReset, init_vars
  <2>2. UNCHANGED Promise!abs_vars
    BY <2>1 DEF Promise!abs_vars, FreeFrames, Booted, Storage
  <2>3. QED  BY <2>2
<1>5. CASE ScanFound
  BY <1>5, FoundIsGrant DEF Promise!AbsNext
<1>6. CASE ScanFail \/ ScanNull
  BY <1>6, FailIsRefusal DEF Promise!AbsNext
<1>7. ASSUME NEW c \in Callers, NEW n \in Requests, AllocCall(c, n) PROVE Promise!AbsNext
  <2>1. /\ UNCHANGED <<zeros, held, bitmap, bitmap_size>> /\ pc = "idle" /\ pc' = "scan"
        /\ held[c] = NULL /\ caller' = c /\ frames' = n
    BY <1>7 DEF AllocCall, init_vars
  <2>2. FreeFrames' = FreeFrames /\ Booted /\ Booted'
    BY <2>1 DEF FreeFrames, Booted, Storage
  <2>3. Promise!Ask(c, n)
    BY <2>1, <2>2 DEF Promise!Ask
  <2>4. QED  BY <2>3 DEF Promise!AbsNext
<1>8. ASSUME NEW c \in Callers, Free(c) PROVE Promise!AbsNext
  BY <1>8, FreeIsGiveBack DEF Promise!AbsNext
<1>9. CASE UNCHANGED vars
  BY <1>9 DEF vars, init_vars, alloc_vars, Promise!abs_vars, FreeFrames, Booted, Storage
<1>10. QED
  BY <1>2, <1>3, <1>4, <1>5, <1>6, <1>7, <1>8, <1>9 DEF Next, init_bitmap, Scan

\* For every memory map in which neighbours of one type are merged: pmm_alloc
\* answers with the lowest run of free frames that is long enough, or refuses
\* only when there is none, and pmm_free makes free what it is given
\* (pmm.c:147-185).
THEOREM ScanIsFirstFit ==
  ASSUME \A m \in MemoryMaps : NoneUsedUp(m)
  PROVE  Spec => FirstFitPromise
<1>1. Init => StartInv /\ Passed /\ LowInv
  BY DEF Init, StartInv, Passed, LowInv
<1>2. Init => Promise!AbsInit
  BY DEF Init, Promise!AbsInit, FreeFrames, Booted
<1>3. IInv /\ Passed /\ [Next]_vars => Passed'
  BY PassedStep
<1>4. QED
  BY <1>1, <1>2, <1>3, StartStep, LowStep, StepRefines, Inductive, PTL
     DEF Spec, FirstFitPromise, Promise!AbsSpec
==============================================================================
