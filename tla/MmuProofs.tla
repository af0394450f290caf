------------------------------ MODULE MmuProofs --------------------------------
(***************************************************************************)
(* For every shape of the memory, every state of the tables the bootloader *)
(* may leave (BootSound) and every sequence of calls: as long as no frame  *)
(* has been granted for a second table (Once), the tables form a tree, a   *)
(* call changes what the processor finds for the page it was given and for *)
(* no other, and the TLB never holds what nobody asked for.  The types     *)
(* hold beyond that.                                                       *)
(*                                                                         *)
(* Each write of a call changes one entry, or clears a table that is on no *)
(* way; SameWay says that whoever does not pass the entry sees nothing of  *)
(* it, and the tree (TablesApart) who does pass it.                        *)
(***************************************************************************)
EXTENDS Mmu, Arithmetic, TLAPS

\* The way to a page starts at a root and goes from table to table.
LEMMA WayFrom ==
  ASSUME NEW m, NEW v
  PROVE  /\ TableOf(m, v, 1) = Root[v.half]
         /\ TableOf(m, v, 2) = Linked(m, TableOf(m, v, 1), v.idx[1])
         /\ TableOf(m, v, 3) = Linked(m, TableOf(m, v, 2), v.idx[2])
         /\ TableOf(m, v, 4) = Linked(m, TableOf(m, v, 3), v.idx[3])
BY DEF TableOf

\* The levels, one by one.
LEMMA FourLevels == 1 .. Levels = {1, 2, 3, 4}
BY DEF Levels

\* A way on which two memories agree is the same way in both, and leads to the
\* same page.
LEMMA SameWay ==
  ASSUME NEW m, NEW n, NEW v,
         \A l \in 1 .. Levels :
           TableOf(m, v, l) # NULL => n[TableOf(m, v, l)][v.idx[l]] = EntryOf(m, v, l)
  PROVE  /\ \A l \in 1 .. Levels : TableOf(n, v, l) = TableOf(m, v, l)
         /\ \A l \in 1 .. Levels :
              TableOf(m, v, l) # NULL => EntryOf(n, v, l) = EntryOf(m, v, l)
         /\ HwWalk(n, v) = HwWalk(m, v)
<1>1. TableOf(n, v, 1) = TableOf(m, v, 1)
  BY WayFrom
<1>2. TableOf(n, v, 2) = TableOf(m, v, 2)
  BY <1>1, WayFrom, FourLevels DEF Linked, EntryOf
<1>3. TableOf(n, v, 3) = TableOf(m, v, 3)
  BY <1>2, WayFrom, FourLevels DEF Linked, EntryOf
<1>4. TableOf(n, v, 4) = TableOf(m, v, 4)
  BY <1>3, WayFrom, FourLevels DEF Linked, EntryOf
<1>5. \A l \in 1 .. Levels : TableOf(n, v, l) = TableOf(m, v, l)
  BY <1>1, <1>2, <1>3, <1>4, FourLevels
<1>6. \A l \in 1 .. Levels :
        TableOf(m, v, l) # NULL => EntryOf(n, v, l) = EntryOf(m, v, l)
  BY <1>5 DEF EntryOf
<1>7. HwWalk(n, v) = HwWalk(m, v)
  <2>1. /\ TableOf(n, v, 2) = TableOf(m, v, 2) /\ TableOf(n, v, 3) = TableOf(m, v, 3)
        /\ TableOf(n, v, 4) = TableOf(m, v, 4)
        /\ TableOf(m, v, 2) # NULL => EntryOf(n, v, 2) = EntryOf(m, v, 2)
        /\ TableOf(m, v, 3) # NULL => EntryOf(n, v, 3) = EntryOf(m, v, 3)
        /\ TableOf(m, v, 4) # NULL => EntryOf(n, v, 4) = EntryOf(m, v, 4)
    BY <1>5, <1>6, FourLevels
  <2>2. QED  BY <2>1 DEF HwWalk
<1>8. QED  BY <1>5, <1>6, <1>7

\* Reading the next state.
LEMMA PrimedWay ==
  /\ \A w, l : TableOf(mem, w, l)' = TableOf(mem', w, l)
  /\ \A w, l : EntryOf(mem, w, l)' = EntryOf(mem', w, l)
  /\ \A w : HwWalk(mem, w)' = HwWalk(mem', w)
BY DEF TableOf, EntryOf, HwWalk, Linked

\* The tables on a way are frames, and what is read there is a descriptor.
LEMMA WayTypes ==
  ASSUME NEW m \in [Frames -> [Index -> Descriptor]], NEW v \in Addresses
  PROVE  \A l \in 1 .. Levels :
           /\ v.idx[l] \in Index
           /\ TableOf(m, v, l) \in Frames \cup {NULL}
           /\ TableOf(m, v, l) # NULL =>
                TableOf(m, v, l) \in Frames /\ EntryOf(m, v, l) \in Descriptor
<1>1. \A l \in 1 .. Levels : v.idx[l] \in Index
  BY DEF Addresses
<1>2. ASSUME NEW t \in Frames \cup {NULL}, NEW x \in Index
      PROVE  Linked(m, t, x) \in Frames \cup {NULL}
  BY DEF Linked, Descriptor
<1>3. TableOf(m, v, 1) \in Frames
  BY WayFrom, TableAssumption DEF Addresses
<1>4. TableOf(m, v, 2) \in Frames \cup {NULL}
  BY <1>1, <1>2, <1>3, WayFrom, FourLevels
<1>5. TableOf(m, v, 3) \in Frames \cup {NULL}
  <2>1. v.idx[2] \in Index  BY <1>1, FourLevels
  <2>2. QED  BY <2>1, <1>2, <1>4, WayFrom
<1>6. TableOf(m, v, 4) \in Frames \cup {NULL}
  <2>1. v.idx[3] \in Index  BY <1>1, FourLevels
  <2>2. QED  BY <2>1, <1>2, <1>5, WayFrom
<1>7. \A l \in 1 .. Levels : TableOf(m, v, l) \in Frames \cup {NULL}
  BY <1>3, <1>4, <1>5, <1>6, FourLevels
<1>8. QED  BY <1>1, <1>7 DEF EntryOf

\* A way goes on only through entries that are tables.
LEMMA WayGoesOn ==
  ASSUME NEW m, NEW v, NEW l \in 1 .. Levels
  PROVE  /\ l < Levels => l + 1 \in 1 .. Levels
         /\ l < Levels => TableOf(m, v, l + 1) =
                IF TableOf(m, v, l) # NULL /\ EntryOf(m, v, l).kind = "table"
                THEN EntryOf(m, v, l).addr ELSE NULL
<1>1. l \in {1, 2, 3, 4}
  BY FourLevels
<1>2. CASE l = 4
  BY <1>2 DEF Levels
<1>3. CASE l \in {1, 2, 3}
  <2>1. l + 1 \in 1 .. Levels
    BY <1>3, FourLevels
  <2>2. TableOf(m, v, l + 1) = Linked(m, TableOf(m, v, l), v.idx[l])
    BY <1>3, WayFrom
  <2>3. QED  BY <2>1, <2>2 DEF Linked, EntryOf
<1>4. QED  BY <1>1, <1>2, <1>3

\* pmm_alloc grants a free frame, or 0 if there is none.
LEMMA AllocGrants ==
  ASSUME free \subseteq Pool
  PROVE  IF free = {} THEN pmm_alloc = 0 ELSE pmm_alloc \in free
<1>1. free \subseteq Nat
  BY ShapeAssumption, TableAssumption
<1>2. Pmm!RunStarts(1) = free
  <2>1. Pmm!Need(1) = 1
    BY DEF Pmm!Need
  <2>2. \A b \in free : b .. (b + Pmm!Need(1) - 1) = {b}
    BY <1>1, <2>1
  <2>3. QED  BY <2>2 DEF Pmm!RunStarts
<1>3. CASE free = {}
  BY <1>2, <1>3 DEF pmm_alloc
<1>4. CASE free # {}
  <2>1. PICK b \in free : \A c \in free : b <= c
    BY <1>1, <1>4, LeastNatural
  <2> DEFINE Least(b_1) == \A c \in free : b_1 <= c
  <2>2. \E b_1 \in free : Least(b_1)
    BY <2>1
  <2> HIDE DEF Least
  <2>3. (CHOOSE b_1 \in free : Least(b_1)) \in free
    BY <2>2
  <2>4. Min(free) \in free
    BY <2>3 DEF Min, Least
  <2>5. QED  BY <1>2, <1>4, <2>4 DEF pmm_alloc
<1>5. QED  BY <1>3, <1>4

------------------------------------------------------------------------------

\* Two pages with the same indices down to level l share the tables so far.
LEMMA SharedWay ==
  ASSUME NEW m, NEW v, NEW w, NEW l \in 1 .. Levels, SamePath(v, w, l)
  PROVE  \A k \in 1 .. l : TableOf(m, w, k) = TableOf(m, v, k)
<1>1. v.half = w.half /\ \A k \in 1 .. (l - 1) : v.idx[k] = w.idx[k]
  BY DEF SamePath
<1>2. TableOf(m, w, 1) = TableOf(m, v, 1)
  BY <1>1, WayFrom
<1>3. l > 1 => TableOf(m, w, 2) = TableOf(m, v, 2)
  <2> SUFFICES ASSUME l > 1 PROVE TableOf(m, w, 2) = TableOf(m, v, 2)  OBVIOUS
  <2>1. v.idx[1] = w.idx[1]  BY <1>1
  <2>2. QED  BY <2>1, <1>2, WayFrom
<1>4. l > 2 => TableOf(m, w, 3) = TableOf(m, v, 3)
  <2> SUFFICES ASSUME l > 2 PROVE TableOf(m, w, 3) = TableOf(m, v, 3)  OBVIOUS
  <2>1. v.idx[2] = w.idx[2]  BY <1>1
  <2>2. QED  BY <2>1, <1>3, WayFrom
<1>5. l > 3 => TableOf(m, w, 4) = TableOf(m, v, 4)
  <2> SUFFICES ASSUME l > 3 PROVE TableOf(m, w, 4) = TableOf(m, v, 4)  OBVIOUS
  <2>1. v.idx[3] = w.idx[3]  BY <1>1
  <2>2. QED  BY <2>1, <1>4, WayFrom
<1>6. TAKE k \in 1 .. l
<1>7. k \in {1, 2, 3, 4} /\ k <= l
  BY DEF Levels
<1>8. QED  BY <1>2, <1>3, <1>4, <1>5, <1>7

\* In a tree, the pages whose way passes the entry of v at level l are those
\* that have the same index there, too.
LEMMA WhoPasses ==
  ASSUME NEW m, NEW v, NEW l \in 1 .. Levels, OnlyOn(m, v, l),
         NEW w \in Addresses, NEW k \in 1 .. Levels,
         TableOf(m, w, k) = TableOf(m, v, l), w.idx[k] = v.idx[l]
  PROVE  k = l /\ SamePath(v, w, l + 1)
<1>1. k = l /\ SamePath(v, w, l)
  BY DEF OnlyOn
<1>2. \A j \in 1 .. ((l + 1) - 1) : j = l \/ j \in 1 .. (l - 1)
  OBVIOUS
<1>3. QED  BY <1>1, <1>2 DEF SamePath

\* A cleared table is entered where nothing was: it ends every way that comes by.
LEMMA LinkedWay ==
  ASSUME NEW m \in [Frames -> [Index -> Descriptor]],
         NEW w \in Addresses, NEW l \in 1 .. Levels, l < Levels,
         TableOf(m, w, l) # NULL, EntryOf(m, w, l) = Invalid,
         \A k \in 1 .. Levels : TableOf(m, w, k) = TableOf(m, w, l) => k = l,
         NEW f \in Frames, m[f] = EmptyTable, f # TableOf(m, w, l),
         NEW n, n[TableOf(m, w, l)][w.idx[l]] = Table(f),
         \A g \in Frames \ {TableOf(m, w, l)} : n[g] = m[g]
  PROVE  /\ \A k \in 1 .. Levels : TableOf(n, w, k) =
              IF k <= l THEN TableOf(m, w, k) ELSE IF k = l + 1 THEN f ELSE NULL
         /\ \A k \in 1 .. Levels : k < l => EntryOf(n, w, k) = EntryOf(m, w, k)
         /\ EntryOf(n, w, l) = Table(f)
         /\ EntryOf(n, w, l + 1) = Invalid
         /\ HwWalk(n, w) = NULL /\ HwWalk(m, w) = NULL
<1> DEFINE T(k) == TableOf(m, w, k)
<1>1. f # NULL
  BY NullAssumption
<1>2. \A k \in 1 .. Levels : w.idx[k] \in Index /\ (T(k) # NULL => T(k) \in Frames)
  BY WayTypes
<1>3. /\ n[T(l)][w.idx[l]] = Table(f)
      /\ \A g \in Frames \ {T(l)} : n[g] = m[g]
  OBVIOUS
<1>4. \A k \in 1 .. Levels : n[f][w.idx[k]] = Invalid
  BY <1>2, <1>3 DEF EmptyTable
<1>5. \A k \in 1 .. Levels : (k # l /\ T(k) # NULL) => n[T(k)] = m[T(k)]
  BY <1>2, <1>3
<1>6. Table(f).kind = "table" /\ Table(f).addr = f /\ Invalid.kind = "none"
  BY DEF Table, Invalid
<1>7. m[T(l)][w.idx[l]] = Invalid
  BY DEF EntryOf
<1> HIDE DEF T
\* Where the entry that was written leads to, and where the others do.
<1>8. Linked(n, T(l), w.idx[l]) = f /\ Linked(m, T(l), w.idx[l]) = NULL
  BY <1>3, <1>6, <1>7 DEF Linked, T
<1>9. \A k \in 1 .. Levels : Linked(n, f, w.idx[k]) = NULL
  BY <1>1, <1>4, <1>6 DEF Linked
<1>10. \A k \in 1 .. Levels : k # l => Linked(n, T(k), w.idx[k]) = Linked(m, T(k), w.idx[k])
  BY <1>5 DEF Linked
<1>11. \A x : Linked(n, NULL, x) = NULL /\ Linked(m, NULL, x) = NULL
  BY DEF Linked
<1>12. \A k \in 1 .. Levels : (k # l /\ T(k) # NULL /\ TableOf(n, w, k) = T(k))
                                 => EntryOf(n, w, k) = EntryOf(m, w, k)
  BY <1>5 DEF EntryOf, T
<1>13. \A k \in 1 .. Levels : TableOf(n, w, k) = f => EntryOf(n, w, k) = Invalid
  BY <1>4 DEF EntryOf
<1>14. /\ T(1) = Root[w.half]
       /\ T(2) = Linked(m, T(1), w.idx[1])
       /\ T(3) = Linked(m, T(2), w.idx[2])
       /\ T(4) = Linked(m, T(3), w.idx[3])
       /\ TableOf(n, w, 1) = T(1)
       /\ TableOf(n, w, 2) = Linked(n, TableOf(n, w, 1), w.idx[1])
       /\ TableOf(n, w, 3) = Linked(n, TableOf(n, w, 2), w.idx[2])
       /\ TableOf(n, w, 4) = Linked(n, TableOf(n, w, 3), w.idx[3])
  BY WayFrom DEF T
<1>15. {1, 2, 3, 4} \subseteq 1 .. Levels
  BY FourLevels
<1>16. /\ l # 1 => Linked(n, T(1), w.idx[1]) = Linked(m, T(1), w.idx[1])
       /\ l # 2 => Linked(n, T(2), w.idx[2]) = Linked(m, T(2), w.idx[2])
  BY <1>10, <1>15
<1>17. /\ (l # 1 /\ T(1) # NULL /\ TableOf(n, w, 1) = T(1)) => EntryOf(n, w, 1) = EntryOf(m, w, 1)
       /\ (l # 2 /\ T(2) # NULL /\ TableOf(n, w, 2) = T(2)) => EntryOf(n, w, 2) = EntryOf(m, w, 2)
  BY <1>12, <1>15
<1>18. TableOf(n, w, l) = T(l) => EntryOf(n, w, l) = Table(f)
  BY <1>3 DEF EntryOf
<1>19. CASE l = 1
  <2>1. TableOf(n, w, 2) = f /\ T(2) = NULL
    BY <1>8, <1>14, <1>19
  <2>2. TableOf(n, w, 3) = NULL /\ T(3) = NULL
    BY <1>9, <1>11, <1>14, <1>15, <2>1
  <2>3. TableOf(n, w, 4) = NULL /\ T(4) = NULL
    BY <1>11, <1>14, <2>2
  <2>4. EntryOf(n, w, 2) = Invalid
    BY <1>13, <1>15, <2>1
  <2>5. HwWalk(n, w) = NULL /\ HwWalk(m, w) = NULL
    BY <1>6, <2>1, <2>2, <2>3, <2>4 DEF HwWalk, T
  <2>6. QED
    BY <1>14, <1>18, <1>19, <2>1, <2>2, <2>3, <2>4, <2>5, FourLevels DEF T
<1>20. CASE l = 2
  <2>1. TableOf(n, w, 2) = T(2)
    BY <1>16, <1>14, <1>20
  <2>2. TableOf(n, w, 3) = f /\ T(3) = NULL
    BY <1>8, <1>14, <1>20, <2>1
  <2>3. TableOf(n, w, 4) = NULL /\ T(4) = NULL
    BY <1>9, <1>11, <1>14, <1>15, <2>2
  <2>4. EntryOf(n, w, 3) = Invalid /\ EntryOf(m, w, 2) = Invalid
    BY <1>13, <1>15, <1>20, <2>2
  <2>5. T(1) # NULL
    BY <1>11, <1>14, <1>20 DEF T
  <2>6. EntryOf(n, w, 1) = EntryOf(m, w, 1) /\ EntryOf(n, w, 2) = Table(f)
    BY <1>17, <1>14, <1>18, <1>20, <2>1, <2>5
  <2>7. HwWalk(n, w) = NULL /\ HwWalk(m, w) = NULL
    BY <1>6, <2>2, <2>3, <2>4, <2>6 DEF HwWalk, T
  <2>8. QED
    <3>1. \A k \in {1, 2, 3, 4} : TableOf(n, w, k) =
            IF k <= 2 THEN T(k) ELSE IF k = 2 + 1 THEN f ELSE NULL
      BY <1>14, <2>1, <2>2, <2>3
    <3>2. \A k \in {1, 2, 3, 4} : k < 2 => EntryOf(n, w, k) = EntryOf(m, w, k)
      BY <2>6
    <3>3. \A k \in 1 .. Levels : TableOf(n, w, k) =
            IF k <= l THEN TableOf(m, w, k) ELSE IF k = l + 1 THEN f ELSE NULL
      BY <1>20, <3>1, FourLevels DEF T
    <3>4. \A k \in 1 .. Levels : k < l => EntryOf(n, w, k) = EntryOf(m, w, k)
      BY <1>20, <3>2, FourLevels
    <3>5. EntryOf(n, w, l) = Table(f) /\ EntryOf(n, w, l + 1) = Invalid
      BY <1>20, <2>4, <2>6
    <3>6. QED  BY <2>7, <3>3, <3>4, <3>5
<1>21. CASE l = 3
  <2>1. TableOf(n, w, 2) = T(2)
    BY <1>16, <1>14, <1>21
  <2>2. TableOf(n, w, 3) = T(3)
    BY <1>16, <1>14, <1>21, <2>1
  <2>3. TableOf(n, w, 4) = f /\ T(4) = NULL
    BY <1>8, <1>14, <1>21, <2>2
  <2>4. EntryOf(n, w, 4) = Invalid /\ EntryOf(m, w, 3) = Invalid
    BY <1>13, <1>15, <1>21, <2>3
  <2>5. T(1) # NULL /\ T(2) # NULL
    BY <1>11, <1>14, <1>21 DEF T
  <2>6. EntryOf(n, w, 1) = EntryOf(m, w, 1) /\ EntryOf(n, w, 2) = EntryOf(m, w, 2)
        /\ EntryOf(n, w, 3) = Table(f)
    BY <1>17, <1>14, <1>18, <1>21, <2>1, <2>2, <2>5
  <2>7. EntryOf(m, w, 2).kind = "table"
    BY <1>14, <1>21 DEF Linked, EntryOf, T
  <2>8. HwWalk(n, w) = NULL /\ HwWalk(m, w) = NULL
    BY <1>6, <2>3, <2>4, <2>6, <2>7 DEF HwWalk, T
  <2>9. QED
    <3>1. \A k \in {1, 2, 3, 4} : TableOf(n, w, k) =
            IF k <= 3 THEN T(k) ELSE IF k = 3 + 1 THEN f ELSE NULL
      BY <1>14, <2>1, <2>2, <2>3
    <3>2. \A k \in {1, 2, 3, 4} : k < 3 => EntryOf(n, w, k) = EntryOf(m, w, k)
      BY <2>6
    <3>3. \A k \in 1 .. Levels : TableOf(n, w, k) =
            IF k <= l THEN TableOf(m, w, k) ELSE IF k = l + 1 THEN f ELSE NULL
      BY <1>21, <3>1, FourLevels DEF T
    <3>4. \A k \in 1 .. Levels : k < l => EntryOf(n, w, k) = EntryOf(m, w, k)
      BY <1>21, <3>2, FourLevels
    <3>5. EntryOf(n, w, l) = Table(f) /\ EntryOf(n, w, l + 1) = Invalid
      BY <1>21, <2>4, <2>6
    <3>6. QED  BY <2>8, <3>3, <3>4, <3>5
<1>22. l \in {1, 2, 3}
  BY FourLevels DEF Levels
<1>23. QED  BY <1>19, <1>20, <1>21, <1>22

\* The last entry is written: the way to it is the same, and leads to what the
\* entry says.
LEMMA LastEntry ==
  ASSUME NEW m \in [Frames -> [Index -> Descriptor]], NEW v \in Addresses,
         TableOf(m, v, 4) # NULL,
         \A k \in 1 .. Levels : TableOf(m, v, k) = TableOf(m, v, 4) => k = 4,
         NEW d \in Descriptor,
         NEW n, n[TableOf(m, v, 4)][v.idx[4]] = d,
         \A g \in Frames \ {TableOf(m, v, 4)} : n[g] = m[g]
  PROVE  /\ \A k \in 1 .. Levels : TableOf(n, v, k) = TableOf(m, v, k)
         /\ \A k \in 1 .. Levels : k # 4 => EntryOf(n, v, k) = EntryOf(m, v, k)
         /\ EntryOf(n, v, 4) = d
         /\ HwWalk(n, v) = IF d.kind = "table" THEN [addr |-> d.addr, rights |-> d.rights]
                           ELSE NULL
<1> DEFINE T(k) == TableOf(m, v, k)
<1>1. \A k \in 1 .. Levels : v.idx[k] \in Index /\ (T(k) # NULL => T(k) \in Frames)
  BY WayTypes
<1>2. {1, 2, 3, 4} \subseteq 1 .. Levels
  BY FourLevels
<1>3. n[T(4)][v.idx[4]] = d /\ \A g \in Frames \ {T(4)} : n[g] = m[g]
  OBVIOUS
<1>4. \A k \in 1 .. Levels : (k # 4 /\ T(k) # NULL) => n[T(k)] = m[T(k)]
  BY <1>1, <1>3
<1> HIDE DEF T
<1>5. \A k \in 1 .. Levels : k # 4 => Linked(n, T(k), v.idx[k]) = Linked(m, T(k), v.idx[k])
  BY <1>4 DEF Linked
<1>6. /\ Linked(n, T(1), v.idx[1]) = Linked(m, T(1), v.idx[1])
      /\ Linked(n, T(2), v.idx[2]) = Linked(m, T(2), v.idx[2])
      /\ Linked(n, T(3), v.idx[3]) = Linked(m, T(3), v.idx[3])
  <2> DEFINE Same(k) == Linked(n, T(k), v.idx[k]) = Linked(m, T(k), v.idx[k])
  <2>1. \A k \in 1 .. Levels : k # 4 => Same(k)
    BY <1>5
  <2> HIDE DEF Same
  <2>2. Same(1) /\ Same(2) /\ Same(3)
    BY <2>1, <1>2
  <2>3. QED  BY <2>2 DEF Same
<1>7. /\ TableOf(n, v, 1) = T(1) /\ TableOf(n, v, 2) = T(2)
      /\ TableOf(n, v, 3) = T(3) /\ TableOf(n, v, 4) = T(4)
  BY <1>6, WayFrom DEF T
<1>8. T(1) # NULL /\ T(2) # NULL /\ T(3) # NULL /\ T(4) # NULL
      /\ EntryOf(m, v, 2).kind = "table" /\ EntryOf(m, v, 3).kind = "table"
  BY WayFrom DEF T, Linked, EntryOf
<1>9. EntryOf(n, v, 4) = d
  BY <1>3, <1>7 DEF EntryOf
<1>10. /\ EntryOf(n, v, 1) = EntryOf(m, v, 1)
       /\ EntryOf(n, v, 2) = EntryOf(m, v, 2)
       /\ EntryOf(n, v, 3) = EntryOf(m, v, 3)
  <2>1. n[T(1)] = m[T(1)] /\ n[T(2)] = m[T(2)] /\ n[T(3)] = m[T(3)]
    BY <1>2, <1>4, <1>8
  <2>2. QED  BY <2>1, <1>7 DEF EntryOf, T
<1>11. d.addr + 0 = d.addr
  <2>1. PICK a \in Nat : a = d.addr
    BY ShapeAssumption DEF Descriptor
  <2>2. QED  BY <2>1
<1>12. HwWalk(n, v) = IF d.kind = "table" THEN [addr |-> d.addr, rights |-> d.rights]
                      ELSE NULL
  <2>1. CASE d.kind = "table"
    <3>1. HwWalk(n, v) = [addr |-> EntryOf(n, v, 4).addr + 0, rights |-> EntryOf(n, v, 4).rights]
      BY <2>1, <1>7, <1>8, <1>9, <1>10 DEF HwWalk
    <3>2. QED  BY <3>1, <2>1, <1>9, <1>11
  <2>2. CASE d.kind # "table"
    BY <2>2, <1>7, <1>8, <1>9, <1>10 DEF HwWalk
  <2>3. QED  BY <2>1, <2>2
<1>13. \A k \in 1 .. Levels : TableOf(n, v, k) = TableOf(m, v, k)
  BY <1>7, FourLevels DEF T
<1>14. \A k \in 1 .. Levels : k # 4 => EntryOf(n, v, k) = EntryOf(m, v, k)
  BY <1>10, FourLevels
<1>15. QED  BY <1>9, <1>12, <1>13, <1>14

------------------------------------------------------------------------------

\* What callers ask for is a result, and never the null pointer.
LEMMA AskedTypes == Asked \subseteq Results /\ NULL \notin Asked
BY CallerAssumption, NullAssumption DEF Asked, Results, PteRights

\* What the processor finds for a page of the callers'.
LEMMA TargetWalk ==
  ASSUME TypeOK, TargetInv, NEW v \in Targets
  PROVE  HwWalk(mem, v) =
           IF TableOf(mem, v, 4) # NULL /\ EntryOf(mem, v, 4).kind = "table"
           THEN [addr |-> EntryOf(mem, v, 4).addr, rights |-> EntryOf(mem, v, 4).rights]
           ELSE NULL
<1>1. v \in Addresses
  BY CallerAssumption
<1>2. \A l \in 1 .. Levels : TableOf(mem, v, l) # NULL => EntryOf(mem, v, l).kind # "block"
  <2>1. Invalid.kind = "none"
    BY DEF Invalid
  <2>2. \A l \in 1 .. Levels : TableOf(mem, v, l) # NULL =>
          EntryOf(mem, v, l) = Invalid \/ EntryOf(mem, v, l).kind = "table"
    BY DEF TargetInv
  <2>3. QED  BY <2>1, <2>2
<1>3. /\ TableOf(mem, v, 2) # NULL => EntryOf(mem, v, 2).kind # "block"
      /\ TableOf(mem, v, 3) # NULL => EntryOf(mem, v, 3).kind # "block"
  BY <1>2, FourLevels
<1>4. TableOf(mem, v, 4) # NULL => EntryOf(mem, v, 4).addr + 0 = EntryOf(mem, v, 4).addr
  <2> SUFFICES ASSUME TableOf(mem, v, 4) # NULL
               PROVE  EntryOf(mem, v, 4).addr + 0 = EntryOf(mem, v, 4).addr
    OBVIOUS
  <2>1. EntryOf(mem, v, 4) \in Descriptor
    BY <1>1, WayTypes, FourLevels DEF TypeOK
  <2>2. PICK a \in Nat : a = EntryOf(mem, v, 4).addr
    BY <2>1, ShapeAssumption DEF Descriptor
  <2>3. QED  BY <2>2
<1>5. QED  BY <1>3, <1>4 DEF HwWalk

\* It is nothing, or what some caller has asked for.
LEMMA TargetFinds ==
  ASSUME TypeOK, TargetInv, NEW v \in Targets
  PROVE  HwWalk(mem, v) \in Asked \cup {NULL}
<1>1. TableOf(mem, v, 4) # NULL /\ EntryOf(mem, v, 4).kind = "table" =>
        [addr |-> EntryOf(mem, v, 4).addr, rights |-> EntryOf(mem, v, 4).rights] \in Asked
  BY FourLevels DEF TargetInv, Invalid, Levels
<1>2. QED  BY <1>1, TargetWalk

------------------------------------------------------------------------------

\* What is written into a table is no block, and leaves a memory of descriptors.
LEMMA EntryWritten ==
  ASSUME TypeOK, BlocksInv, NEW t \in Frames, NEW x \in Index,
         NEW d \in Descriptor, d.kind # "block"
  PROVE  LET m == [mem EXCEPT ![t][x] = d]
         IN  /\ m \in [Frames -> [Index -> Descriptor]]
             /\ \A f \in Frames, y \in Index : Fits(m[f][y])
<1> DEFINE m == [mem EXCEPT ![t][x] = d]
<1>1. mem \in [Frames -> [Index -> Descriptor]]
  BY DEF TypeOK
<1>2. m \in [Frames -> [Index -> Descriptor]]
  BY <1>1
<1>3. ASSUME NEW f \in Frames, NEW y \in Index
      PROVE  Fits(m[f][y])
  <2>1. m[f][y] = d \/ m[f][y] = mem[f][y]
    BY <1>1
  <2>2. Fits(mem[f][y]) /\ Fits(d)
    BY DEF BlocksInv, Fits
  <2>3. QED  BY <2>1, <2>2
<1>4. QED  BY <1>2, <1>3

\* Whatever tables it reads, the processor finds nothing, or memory.
LEMMA WalkTypes ==
  ASSUME TypeOK, BlocksInv, NEW v \in Addresses
  PROVE  HwWalk(mem, v) \in Results \cup {NULL}
<1> DEFINE E(l) == EntryOf(mem, v, l)
           T(l) == TableOf(mem, v, l)
<1>1. \A l \in {2, 3, 4} : T(l) # NULL =>
        /\ E(l) \in Descriptor /\ T(l) \in Frames /\ v.idx[l] \in Index
        /\ E(l) = mem[T(l)][v.idx[l]]
  BY WayTypes, FourLevels DEF TypeOK, EntryOf
<1>2. \A l \in {2, 3} : (T(l) # NULL /\ E(l).kind = "block") =>
        E(l).addr + Offset(v, l) \in Frames
  <2> SUFFICES ASSUME NEW l \in {2, 3}, T(l) # NULL, E(l).kind = "block"
               PROVE  E(l).addr + Offset(v, l) \in Frames
    OBVIOUS
  <2>1. Fits(E(l))
    BY <1>1 DEF BlocksInv
  <2>2. QED  BY <2>1 DEF Fits
<1>3. T(4) # NULL => E(4).addr + 0 \in Frames
  <2> SUFFICES ASSUME T(4) # NULL PROVE E(4).addr + 0 \in Frames
    OBVIOUS
  <2>1. E(4).addr \in Frames /\ E(4).addr \in Nat
    BY <1>1, ShapeAssumption DEF Descriptor
  <2>2. PICK a \in Nat : a = E(4).addr
    BY <2>1
  <2>3. QED  BY <2>1, <2>2
<1>4. \A l \in {2, 3, 4} : T(l) # NULL => E(l).rights \in SUBSET {"RO", "NX", "U"}
  BY <1>1 DEF Descriptor
<1> HIDE DEF E, T
<1>5. \/ HwWalk(mem, v) = NULL
      \/ T(4) # NULL /\ HwWalk(mem, v) = [addr |-> E(4).addr + 0, rights |-> E(4).rights]
      \/ /\ T(3) # NULL /\ E(3).kind = "block"
         /\ HwWalk(mem, v) = [addr |-> E(3).addr + Offset(v, 3), rights |-> E(3).rights]
      \/ /\ T(2) # NULL /\ E(2).kind = "block"
         /\ HwWalk(mem, v) = [addr |-> E(2).addr + Offset(v, 2), rights |-> E(2).rights]
  BY DEF HwWalk, E, T
<1>6. QED  BY <1>2, <1>3, <1>4, <1>5 DEF Results

LEMMA TypedInit ==
  ASSUME BootBlocks
  PROVE  Init => TypedInv
<1> SUFFICES ASSUME Init PROVE TypedInv
  OBVIOUS
<1>1. PICK j \in Junk : mem = [f \in Frames |-> IF f \in Pool THEN j ELSE BootTables[f]]
  BY DEF Init
<1>2. /\ free \in Pools /\ tlb = [v \in Cached |-> NULL]
      /\ pc = "idle" /\ op = NULL /\ level = 0 /\ table = 0 /\ next = 0 /\ granted = 0
  BY DEF Init
<1>3. mem \in [Frames -> [Index -> Descriptor]]
  BY <1>1, TableAssumption
<1>4. free \subseteq Pool
  BY <1>2 DEF Pool
<1>5. TypeOK
  BY <1>2, <1>3, <1>4, ShapeAssumption DEF TypeOK, Levels
<1>6. BlocksInv
  BY <1>1 DEF BlocksInv, BootBlocks
<1>7. QED  BY <1>2, <1>5, <1>6 DEF TypedInv, PhaseInv

\* The steps of a call that write a table.
LEMMA TypedWrite == TypedInv /\ (ClearTable \/ LinkTable \/ WriteEntry) => TypedInv'
<1> SUFFICES ASSUME TypedInv, ClearTable \/ LinkTable \/ WriteEntry PROVE TypedInv'
  OBVIOUS
<1> USE DEF TypedInv
<1>1. CASE ClearTable
  <2>1. /\ UNCHANGED <<free, tlb, op, level, table, next, granted>>
        /\ pc = "clear" /\ pc' = "link"
    BY <1>1 DEF ClearTable
  <2>2. PICK t : mem' = [mem EXCEPT ![t] = EmptyTable]
    BY <1>1 DEF ClearTable, Clear
  <2>3. EmptyTable \in [Index -> Descriptor] /\ \A x \in Index : Fits(EmptyTable[x])
    BY ShapeAssumption DEF EmptyTable, Invalid, Descriptor, Fits
  <2>4. \A f \in Frames : mem'[f] = mem[f] \/ mem'[f] = EmptyTable
    BY <2>2 DEF TypeOK
  <2>5. TypeOK'
    BY <2>1, <2>2, <2>3 DEF TypeOK
  <2>6. BlocksInv'
    <3>1. \A f \in Frames, x \in Index : Fits(mem'[f][x])
      BY <2>3, <2>4 DEF BlocksInv
    <3>2. QED  BY <3>1 DEF BlocksInv, Fits, Offset
  <2>7. QED  BY <2>1, <2>5, <2>6 DEF PhaseInv
<1>2. CASE LinkTable
  <2>1. /\ UNCHANGED <<free, tlb, op, next, granted>> /\ pc = "link" /\ pc' = "walk"
        /\ mem' = [mem EXCEPT ![table][op.vaddr.idx[level]] = Table(next)]
        /\ table' = next /\ level' = level + 1
    BY <1>2 DEF LinkTable, SetLink
  <2>2. op # NULL /\ level \in 1 .. Levels /\ level + 1 \in 1 .. Levels
    BY <2>1 DEF PhaseInv, TypeOK, Levels
  <2>3. op.vaddr.idx[level] \in Index
    BY <2>2, CallerAssumption DEF TypeOK, Addresses
  <2>4. Table(next) \in Descriptor /\ Table(next).kind # "block"
    BY DEF Table, Descriptor, TypeOK
  <2>5. /\ mem' \in [Frames -> [Index -> Descriptor]]
        /\ \A f \in Frames, y \in Index : Fits(mem'[f][y])
    BY <2>1, <2>3, <2>4, EntryWritten DEF TypeOK
  <2>6. TypeOK'
    BY <2>1, <2>2, <2>5 DEF TypeOK
  <2>7. BlocksInv'
    BY <2>5 DEF BlocksInv, Fits, Offset
  <2>8. QED  BY <2>1, <2>2, <2>6, <2>7 DEF PhaseInv
<1>3. CASE WriteEntry
  <2> DEFINE d == IF op.to = NULL THEN Invalid ELSE Page(op.to.addr, op.to.rights)
  <2>1. /\ UNCHANGED <<free, tlb, op, level, table, next, granted>>
        /\ pc = "walk" /\ pc' = "invalidate"
        /\ mem' = [mem EXCEPT ![table][op.vaddr.idx[level]] = d]
    BY <1>3 DEF WriteEntry, SetEntry
  <2>2. op # NULL /\ level # 0 /\ level \in 1 .. Levels
    BY <2>1 DEF PhaseInv, TypeOK
  <2>3. op.vaddr.idx[level] \in Index /\ op.to \in Results \cup {NULL}
    BY <2>2, CallerAssumption DEF TypeOK, Addresses
  <2>4. d \in Descriptor /\ d.kind # "block"
    BY <2>3, ShapeAssumption DEF Invalid, Page, Descriptor, Results
  <2> HIDE DEF d
  <2>5. /\ mem' \in [Frames -> [Index -> Descriptor]]
        /\ \A f \in Frames, y \in Index : Fits(mem'[f][y])
    BY <2>1, <2>3, <2>4, EntryWritten DEF TypeOK
  <2>6. TypeOK'
    BY <2>1, <2>5 DEF TypeOK
  <2>7. BlocksInv'
    BY <2>5 DEF BlocksInv, Fits, Offset
  <2>8. QED  BY <2>1, <2>2, <2>6, <2>7 DEF PhaseInv
<1>4. QED  BY <1>1, <1>2, <1>3

\* The steps that leave the memory alone.
LEMMA TypedCall ==
  ASSUME TypedInv, NEW v \in Targets, NEW to \in Results \cup {NULL}, Call(v, to)
  PROVE  TypedInv'
<1> USE DEF TypedInv
<1>1. /\ UNCHANGED <<mem, free, tlb, next, granted>> /\ pc' = "walk" /\ level' = 1
      /\ op' = [vaddr |-> v, to |-> to] /\ table' = Root[ttbr_index(v)]
  BY DEF Call
<1>2. table' \in Frames
  BY <1>1, TableAssumption DEF ttbr_index
<1>3. op' \in [vaddr : Targets, to : Results \cup {NULL}] /\ op' # NULL
  BY <1>1, NullAssumption
<1>4. TypeOK'
  BY <1>1, <1>2, <1>3 DEF TypeOK, Levels
<1>5. QED  BY <1>1, <1>3, <1>4 DEF PhaseInv, BlocksInv, Fits, Offset

LEMMA TypedRest ==
  TypedInv /\ (Descend \/ AllocTable \/ Missing \/ Invalidate \/ ClearFaults) => TypedInv'
<1> SUFFICES ASSUME TypedInv,
                    Descend \/ AllocTable \/ Missing \/ Invalidate \/ ClearFaults
             PROVE  TypedInv'
  OBVIOUS
<1> USE DEF TypedInv
<1>1. UNCHANGED <<mem, free, tlb>>
  BY DEF Descend, AllocTable, Missing, Invalidate, ClearFaults
<1>2. BlocksInv'
  BY <1>1 DEF BlocksInv, Fits, Offset
<1>3. CASE Descend
  <2>1. /\ UNCHANGED <<pc, op, next, granted>> /\ pc = "walk" /\ level < Levels
        /\ table' = Current.addr /\ level' = level + 1
    BY <1>3 DEF Descend
  <2>2. op # NULL /\ level \in 1 .. Levels /\ level + 1 \in 1 .. Levels
    BY <2>1 DEF PhaseInv, TypeOK, Levels
  <2>3. op.vaddr.idx[level] \in Index
    BY <2>2, CallerAssumption DEF TypeOK, Addresses
  <2>4. table' \in Frames
    BY <2>1, <2>3 DEF Current, TypeOK, Descriptor
  <2>5. TypeOK'
    BY <1>1, <2>1, <2>2, <2>4 DEF TypeOK
  <2>6. QED  BY <1>2, <2>1, <2>2, <2>5 DEF PhaseInv
<1>4. CASE AllocTable
  <2>1. /\ UNCHANGED <<op, level, table>> /\ pc = "walk" /\ pc' = "clear" /\ level < Levels
        /\ op.to # NULL /\ next' = pmm_alloc
        /\ granted' = IF pmm_alloc = 0 \/ granted = 2 THEN granted ELSE granted + 1
    BY <1>4 DEF AllocTable
  <2>2. next' \in Frames
    BY <2>1, AllocGrants, TableAssumption, ShapeAssumption DEF TypeOK
  <2>3. granted' \in 0 .. 2
    BY <2>1 DEF TypeOK
  <2>4. TypeOK'
    BY <1>1, <2>1, <2>2, <2>3 DEF TypeOK
  <2>5. QED  BY <1>2, <2>1, <2>4 DEF PhaseInv
<1>5. CASE Missing \/ Invalidate \/ ClearFaults
  <2>1. pc' \in {"idle", "fault"} /\ granted' = granted
    BY <1>5 DEF Missing, Invalidate, ClearFaults, Return
  <2>2. TypeOK'
    BY <1>1, <1>5, <2>1, ShapeAssumption
       DEF Missing, Invalidate, ClearFaults, Return, TypeOK, Levels
  <2>3. QED  BY <1>2, <2>1, <2>2 DEF PhaseInv
<1>6. QED  BY <1>3, <1>4, <1>5

LEMMA TypedTlb ==
  ASSUME TypedInv, NEW v \in Cached, TlbFill(v) \/ TlbEvict(v)
  PROVE  TypedInv'
<1> USE DEF TypedInv
<1>1. UNCHANGED <<mem, free, pc, op, level, table, next, granted>>
  BY DEF TlbFill, TlbEvict, call_vars
<1>2. HwWalk(mem, v) \in Results \cup {NULL}
  BY WalkTypes, CallerAssumption
<1>3. \/ tlb' = [tlb EXCEPT ![v] = HwWalk(mem, v)]
      \/ tlb' = [tlb EXCEPT ![v] = NULL]
  BY DEF TlbFill, TlbEvict
<1>4. tlb' \in [Cached -> Results \cup {NULL}]
  BY <1>2, <1>3 DEF TypeOK
<1>5. TypeOK'
  BY <1>1, <1>4 DEF TypeOK
<1>6. QED  BY <1>1, <1>5 DEF PhaseInv, BlocksInv, Fits, Offset

LEMMA TypedStep == TypedInv /\ [Next]_vars => TypedInv'
<1> SUFFICES ASSUME TypedInv, [Next]_vars PROVE TypedInv'
  OBVIOUS
<1>1. ASSUME NEW v \in Targets, NEW p \in Pages, NEW r \in Rights, Map(v, p, r)
      PROVE  TypedInv'
  <2>1. [addr |-> p, rights |-> PteRights(r)] \in Results \cup {NULL}
    BY AskedTypes DEF Asked
  <2>2. QED  BY <1>1, <2>1, TypedCall DEF Map
<1>2. ASSUME NEW v \in Targets, Unmap(v)
      PROVE  TypedInv'
  BY <1>2, TypedCall DEF Unmap
<1>3. CASE Descend \/ AllocTable \/ Missing \/ Invalidate \/ ClearFaults
  BY <1>3, TypedRest
<1>4. CASE ClearTable \/ LinkTable \/ WriteEntry
  BY <1>4, TypedWrite
<1>5. ASSUME NEW v \in Cached, TlbFill(v) \/ TlbEvict(v)
      PROVE  TypedInv'
  BY <1>5, TypedTlb
<1>6. CASE UNCHANGED vars
  <2>1. UNCHANGED <<mem, free, tlb, pc, op, level, table, next, granted>>
    BY <1>6 DEF vars, call_vars
  <2>2. TypeOK'
    BY <2>1 DEF TypeOK, TypedInv
  <2>3. QED  BY <2>1, <2>2 DEF TypedInv, PhaseInv, BlocksInv, Fits, Offset
<1>7. QED  BY <1>1, <1>2, <1>3, <1>4, <1>5, <1>6 DEF Next

------------------------------------------------------------------------------

\* What the bootloader leaves satisfies the invariant, whatever the free frames
\* hold: no way leads there.
LEMMA InitInv ==
  ASSUME BootSound
  PROVE  Init => TreeInv
<1> SUFFICES ASSUME Init PROVE TreeInv
  OBVIOUS
<1>1. PICK j \in Junk : mem = [f \in Frames |-> IF f \in Pool THEN j ELSE BootTables[f]]
  BY DEF Init
<1>2. /\ free \in Pools /\ tlb = [v \in Cached |-> NULL]
      /\ pc = "idle" /\ op = NULL
  BY DEF Init
<1>3. ASSUME NEW w \in Addresses
      PROVE  /\ \A l \in 1 .. Levels : TableOf(mem, w, l) = TableOf(BootTables, w, l)
             /\ \A l \in 1 .. Levels : TableOf(BootTables, w, l) # NULL
                  => EntryOf(mem, w, l) = EntryOf(BootTables, w, l)
             /\ HwWalk(mem, w) = HwWalk(BootTables, w)
  <2>1. \A l \in 1 .. Levels : TableOf(BootTables, w, l) # NULL =>
          TableOf(BootTables, w, l) \in Frames \ Pool
    BY DEF BootSound, BootPlaced
  <2>2. \A l \in 1 .. Levels : TableOf(BootTables, w, l) # NULL =>
          mem[TableOf(BootTables, w, l)][w.idx[l]] = EntryOf(BootTables, w, l)
    BY <1>1, <2>1 DEF EntryOf
  <2>3. QED  BY <2>2, SameWay
<1>4. CallInv /\ NextInv /\ TlbInv
  BY <1>2 DEF CallInv, NextInv, TlbInv
<1>5. PlacedInv
  BY <1>3 DEF PlacedInv, BootSound, BootPlaced
<1>6. TargetInv
  <2> SUFFICES ASSUME NEW v \in Targets, NEW l \in 1 .. Levels, TableOf(mem, v, l) # NULL
               PROVE  LET d == EntryOf(mem, v, l)
                      IN  d = Invalid \/ (d.kind = "table" /\ l # Levels)
    BY DEF TargetInv
  <2>1. v \in Addresses
    BY CallerAssumption
  <2>2. EntryOf(mem, v, l) = EntryOf(BootTables, v, l) /\ TableOf(BootTables, v, l) # NULL
    BY <1>3, <2>1
  <2>3. QED  BY <2>2 DEF BootSound, BootTargets, Levels
<1>7. TablesApart
  <2> SUFFICES ASSUME NEW v \in Targets, NEW l \in 1 .. Levels, TableOf(mem, v, l) # NULL
               PROVE  OnlyOn(mem, v, l)
    BY DEF TablesApart
  <2>1. v \in Addresses
    BY CallerAssumption
  <2>2. OnlyOn(BootTables, v, l)
    BY <1>3, <2>1 DEF BootSound, BootTargets
  <2>3. QED  BY <1>3, <2>1, <2>2 DEF OnlyOn
<1>8. OtherInv
  BY <1>3 DEF OtherInv
<1>9. QED
  BY <1>4, <1>5, <1>6, <1>7, <1>8 DEF TreeInv

\* What the steps below start from: up to now no frame was granted twice.
Sound == Once /\ TypedInv /\ TreeInv

\* Steps that change no way and no page, leave the TLB alone and grant nothing.
LEMMA WaysKept ==
  ASSUME Sound, tlb' = tlb, granted' = 0 => granted = 0,
         \A w \in Addresses :
           /\ \A l \in 1 .. Levels : TableOf(mem', w, l) = TableOf(mem, w, l)
           /\ \A l \in 1 .. Levels :
                TableOf(mem, w, l) # NULL => EntryOf(mem', w, l) = EntryOf(mem, w, l)
           /\ HwWalk(mem', w) = HwWalk(mem, w)
  PROVE  PlacedInv' /\ TargetInv' /\ TablesApart' /\ OtherInv' /\ TlbInv'
<1> USE DEF Sound, TypedInv, TreeInv
<1>1. \A w \in Addresses :
        /\ \A l \in 1 .. Levels : TableOf(mem, w, l)' = TableOf(mem, w, l)
        /\ \A l \in 1 .. Levels :
             TableOf(mem, w, l) # NULL => EntryOf(mem, w, l)' = EntryOf(mem, w, l)
        /\ HwWalk(mem, w)' = HwWalk(mem, w)
  BY PrimedWay
<1>2. Targets \subseteq Addresses
  BY CallerAssumption
<1>3. PlacedInv'
  BY <1>1 DEF PlacedInv
<1>4. TargetInv'
  <2> SUFFICES ASSUME NEW v \in Targets, NEW l \in 1 .. Levels, TableOf(mem, v, l)' # NULL
               PROVE  LET d == EntryOf(mem, v, l)'
                      IN  \/ d = Invalid
                          \/ d.kind = "table"
                             /\ (l = Levels => [addr |-> d.addr, rights |-> d.rights] \in Asked)
    BY DEF TargetInv, Asked
  <2>1. TableOf(mem, v, l) # NULL /\ EntryOf(mem, v, l)' = EntryOf(mem, v, l)
    BY <1>1, <1>2
  <2>2. QED  BY <2>1 DEF TargetInv
<1>5. TablesApart'
  <2> SUFFICES ASSUME NEW v \in Targets, NEW l \in 1 .. Levels, TableOf(mem, v, l)' # NULL
               PROVE  OnlyOn(mem, v, l)'
    BY DEF TablesApart
  <2>1. TableOf(mem, v, l)' = TableOf(mem, v, l) /\ OnlyOn(mem, v, l)
    BY <1>1, <1>2 DEF TablesApart
  <2>2. QED  BY <1>1, <2>1 DEF OnlyOn
<1>6. OtherInv'
  BY <1>1 DEF OtherInv
<1>7. TlbInv'
  BY DEF TlbInv, Asked
<1>8. QED  BY <1>3, <1>4, <1>5, <1>6, <1>7

LEMMA MemKept ==
  ASSUME Sound, UNCHANGED <<mem, tlb>>, granted' = 0 => granted = 0
  PROVE  PlacedInv' /\ TargetInv' /\ TablesApart' /\ OtherInv' /\ TlbInv'
BY WaysKept

\* A call starts at the root of its page.
LEMMA CallStep ==
  ASSUME BootSound, NEW v \in Targets, NEW to \in Asked \cup {NULL}
  PROVE  Sound /\ Call(v, to) => TreeInv'
<1> SUFFICES ASSUME Sound, Call(v, to) PROVE TreeInv'
  OBVIOUS
<1> USE DEF Sound, TypedInv, TreeInv
<1>1. /\ UNCHANGED <<mem, free, tlb, next, granted>> /\ pc' = "walk" /\ level' = 1
      /\ op' = [vaddr |-> v, to |-> to] /\ table' = Root[ttbr_index(v)]
  BY DEF Call
<1>2. v \in Addresses /\ ttbr_index(v) = v.half /\ v.half \in {0, 1}
  BY CallerAssumption DEF BootSound, BootTargets, Addresses
<1>3. op'.to \in Asked \cup {NULL}
  BY <1>1
<1>4. CallInv'
  <2>1. TableOf(mem, op.vaddr, level)' = TableOf(mem', op'.vaddr, level')
    BY DEF TableOf, Linked
  <2>2. table' = TableOf(mem', op'.vaddr, level')
    BY <1>1, <1>2, WayFrom
  <2>3. QED  BY <1>1, <1>3, <2>1, <2>2 DEF CallInv, Asked
<1>5. NextInv'
  BY <1>1 DEF NextInv
<1>6. QED  BY <1>1, <1>4, <1>5, MemKept DEF TreeInv

LEMMA DescendStep == Sound /\ Descend => TreeInv'
<1> SUFFICES ASSUME Sound, Descend PROVE TreeInv'
  OBVIOUS
<1> USE DEF Sound, TypedInv, TreeInv
<1>1. /\ UNCHANGED <<mem, free, tlb, pc, op, next, granted>> /\ pc = "walk" /\ level < Levels
      /\ Current.kind = "table" /\ table' = Current.addr /\ level' = level + 1
  BY DEF Descend
<1>2. op # NULL /\ level # 0 /\ table = TableOf(mem, op.vaddr, level)
  BY <1>1 DEF PhaseInv, CallInv
<1>3. op.vaddr \in Addresses /\ level \in 1 .. Levels
  BY <1>1, <1>2, CallerAssumption DEF TypeOK
<1>4. Current = EntryOf(mem, op.vaddr, level)
  BY <1>2 DEF Current, EntryOf
<1>5. table # NULL
  BY NullAssumption DEF TypeOK
<1>6. level + 1 \in 1 .. Levels /\ TableOf(mem, op.vaddr, level + 1) = Current.addr
  BY <1>1, <1>2, <1>3, <1>4, <1>5, WayGoesOn
<1>7. CallInv'
  <2>1. TableOf(mem, op.vaddr, level)' = TableOf(mem', op'.vaddr, level')
    BY DEF TableOf, Linked
  <2>2. QED  BY <1>1, <1>2, <1>3, <1>6, <2>1 DEF CallInv, Asked
<1>8. NextInv'
  BY <1>1 DEF NextInv
<1>9. QED  BY <1>1, <1>7, <1>8, MemKept DEF TreeInv

\* Steps that end a call, or the run, without touching the tables.
LEMMA EndStep == Sound /\ (Missing \/ Invalidate \/ ClearFaults) => TreeInv'
<1> SUFFICES ASSUME Sound, Missing \/ Invalidate \/ ClearFaults PROVE TreeInv'
  OBVIOUS
<1> USE DEF Sound, TypedInv, TreeInv
<1>1. UNCHANGED <<mem, tlb, granted>> /\ pc' \in {"idle", "fault"}
  BY DEF Missing, Invalidate, ClearFaults, Return
<1>2. CallInv' /\ NextInv'
  BY <1>1 DEF CallInv, NextInv, Missing, Invalidate, ClearFaults, Return, Asked
<1>3. QED  BY <1>1, <1>2, MemKept DEF TreeInv

\* The table that is missing is granted from the free frames, for the first time:
\* so it is no table yet.
LEMMA AllocTableStep == Sound /\ AllocTable /\ Once' => TreeInv'
<1> SUFFICES ASSUME Sound, AllocTable, Once' PROVE TreeInv'
  OBVIOUS
<1> USE DEF Sound, TypedInv, TreeInv
<1>1. /\ UNCHANGED <<mem, free, tlb, op, level, table>> /\ pc = "walk" /\ pc' = "clear"
      /\ level < Levels /\ Current.kind # "table" /\ op.to # NULL
      /\ next' = pmm_alloc
      /\ granted' = IF pmm_alloc = 0 \/ granted = 2 THEN granted ELSE granted + 1
  BY DEF AllocTable
<1>2. free \subseteq Pool /\ IF free = {} THEN pmm_alloc = 0 ELSE pmm_alloc \in free
  BY AllocGrants DEF TypeOK
<1>3. next' \in Pool \cup {0} /\ next' \in Frames
  BY <1>1, <1>2, TableAssumption, ShapeAssumption
<1>4. op # NULL /\ level # 0 /\ table = TableOf(mem, op.vaddr, level) /\ table # NULL
  BY <1>1, NullAssumption DEF PhaseInv, CallInv, TypeOK
<1>5. op.vaddr \in Targets /\ level \in 1 .. Levels
  BY <1>1, <1>4 DEF TypeOK
<1>6. Current = EntryOf(mem, op.vaddr, level)
  BY <1>4 DEF Current, EntryOf
<1>7. Current = Invalid
  BY <1>1, <1>4, <1>5, <1>6 DEF TargetInv
<1>8. granted \in {0, 1} /\ (granted' = 0 => granted = 0)
      /\ (next' # 0 => granted = 0 /\ granted' = 1)
  BY <1>1 DEF Once, TypeOK
<1>9. CallInv'
  <2>1. TableOf(mem, op.vaddr, level)' = TableOf(mem', op'.vaddr, level')
    BY DEF TableOf, Linked
  <2>2. QED  BY <1>1, <1>4, <1>7, <2>1 DEF CallInv, Current, Asked
<1>10. NextInv'
  <2>1. ASSUME NEW w \in Addresses, NEW k \in 1 .. Levels, next' # 0
        PROVE  TableOf(mem, w, k)' # next'
    <3>1. granted = 0 /\ next' \in Pool /\ next' \in Frames
      BY <1>3, <1>8, <2>1
    <3>2. TableOf(mem, w, k)' = TableOf(mem, w, k)
      BY <1>1, PrimedWay
    <3>3. QED  BY <3>1, <3>2, NullAssumption DEF PlacedInv
  <2>2. QED  BY <1>1, <1>3, <1>8, <2>1 DEF NextInv
<1>11. QED
  BY <1>1, <1>8, <1>9, <1>10, MemKept DEF TreeInv

\* What the address of the new table reaches is the table itself; frame 0, which
\* stands for no table, cannot be reached.
LEMMA ClearReaches ==
  ASSUME BootSound, Sound, pc = "clear"
  PROVE  /\ next \in Pool \cup {0}
         /\ next = 0 => Access(Identity[next]) = NULL
         /\ next # 0 => Access(Identity[next]).addr = next
<1> USE DEF Sound, TypedInv, TreeInv
<1>1. next \in Pool \cup {0}
  BY DEF NextInv
<1>2. Identity[next] \in Addresses \ Targets
  BY <1>1, TableAssumption DEF BootSound, BootIdentity
<1>3. HwWalk(mem, Identity[next]) = HwWalk(BootTables, Identity[next])
  BY <1>2 DEF OtherInv
<1>4. Access(Identity[next]) = HwWalk(BootTables, Identity[next])
  BY <1>2, <1>3 DEF Access, TlbInv
<1>5. next = 0 => HwWalk(BootTables, Identity[next]) = NULL
  BY DEF BootSound, BootIdentity
<1>6. next # 0 => HwWalk(BootTables, Identity[next]).addr = next
  <2> SUFFICES ASSUME next # 0 PROVE HwWalk(BootTables, Identity[next]).addr = next
    OBVIOUS
  <2>1. PICK r \in SUBSET {"NX", "U"} :
          HwWalk(BootTables, Identity[next]) = [addr |-> next, rights |-> r]
    BY <1>1 DEF BootSound, BootIdentity
  <2>2. QED  BY <2>1
<1>7. QED  BY <1>1, <1>4, <1>5, <1>6

\* It is that table which is cleared.
LEMMA ClearFrame ==
  ASSUME BootSound, Sound, ClearTable
  PROVE  /\ next \in Pool /\ next # 0 /\ next \in Frames
         /\ mem' = [mem EXCEPT ![next] = EmptyTable]
         /\ mem'[next] = EmptyTable
         /\ \A f \in Frames \ {next} : mem'[f] = mem[f]
         /\ \A w \in Addresses, k \in 1 .. Levels : TableOf(mem, w, k) # next
<1> USE DEF Sound, TypedInv, TreeInv
<1>1. /\ pc = "clear" /\ Access(Identity[next]) # NULL
      /\ mem' = [mem EXCEPT ![Access(Identity[next]).addr] = EmptyTable]
  BY DEF ClearTable, Clear, Writable
<1>2. next # 0 /\ next \in Pool /\ mem' = [mem EXCEPT ![next] = EmptyTable]
  BY <1>1, ClearReaches
<1>3. next \in Frames
  BY DEF TypeOK
<1>4. mem'[next] = EmptyTable /\ \A f \in Frames \ {next} : mem'[f] = mem[f]
  BY <1>2, <1>3 DEF TypeOK
<1>5. \A w \in Addresses, k \in 1 .. Levels : TableOf(mem, w, k) # next
  BY <1>1, <1>2 DEF NextInv
<1>6. QED  BY <1>2, <1>3, <1>4, <1>5

\* Clearing it changes no way: it is on none.
LEMMA ClearEffect ==
  ASSUME BootSound, Sound, ClearTable, NEW w \in Addresses
  PROVE  /\ \A l \in 1 .. Levels : TableOf(mem', w, l) = TableOf(mem, w, l)
         /\ \A l \in 1 .. Levels :
              TableOf(mem, w, l) # NULL => EntryOf(mem', w, l) = EntryOf(mem, w, l)
         /\ HwWalk(mem', w) = HwWalk(mem, w)
<1>1. \A l \in 1 .. Levels :
        TableOf(mem, w, l) # NULL => mem'[TableOf(mem, w, l)][w.idx[l]] = EntryOf(mem, w, l)
  BY ClearFrame, WayTypes DEF EntryOf, TypeOK, TypedInv, Sound
<1>2. QED  BY <1>1, SameWay

\* So the tables stay as they are, and the new one is ready.
LEMMA ClearTableStep ==
  ASSUME BootSound
  PROVE  Sound /\ ClearTable => TreeInv'
<1> SUFFICES ASSUME Sound, ClearTable PROVE TreeInv'
  OBVIOUS
<1> USE DEF Sound, TypedInv, TreeInv
<1>1. /\ UNCHANGED <<free, tlb, op, level, table, next, granted>> /\ pc = "clear" /\ pc' = "link"
  BY DEF ClearTable
<1>2. next # 0 /\ next \in Pool /\ mem' = [mem EXCEPT ![next] = EmptyTable]
  BY ClearFrame
<1>3. mem'[next] = EmptyTable /\ \A f \in Frames \ {next} : mem'[f] = mem[f]
  BY ClearFrame
<1>4. \A w \in Addresses, k \in 1 .. Levels : TableOf(mem, w, k) # next
  BY ClearFrame
<1>5. \A w \in Addresses :
        /\ \A l \in 1 .. Levels : TableOf(mem', w, l) = TableOf(mem, w, l)
        /\ \A l \in 1 .. Levels :
             TableOf(mem, w, l) # NULL => EntryOf(mem', w, l) = EntryOf(mem, w, l)
        /\ HwWalk(mem', w) = HwWalk(mem, w)
  BY ClearEffect
<1>6. op # NULL /\ level # 0 /\ table = TableOf(mem, op.vaddr, level)
      /\ level < Levels /\ op.to # NULL /\ Current = Invalid
  BY <1>1 DEF PhaseInv, CallInv
<1>7. op.vaddr \in Addresses /\ level \in 1 .. Levels
  BY <1>6, CallerAssumption DEF TypeOK
<1>8. table \in Frames \ {next}
  BY <1>4, <1>6, <1>7 DEF TypeOK
<1>9. CallInv'
  <2>1. TableOf(mem, op.vaddr, level)' = TableOf(mem', op'.vaddr, level')
    BY DEF TableOf, Linked
  <2>2. TableOf(mem', op.vaddr, level) = table
    BY <1>5, <1>6, <1>7
  <2>3. mem'[table][op.vaddr.idx[level]] = Invalid
    BY <1>3, <1>6, <1>8 DEF Current
  <2>4. QED  BY <1>1, <1>6, <2>1, <2>2, <2>3 DEF CallInv, Current, Asked
<1>10. NextInv'
  <2>1. \A w \in Addresses, k \in 1 .. Levels : TableOf(mem, w, k)' # next'
    BY <1>1, <1>4, <1>5, PrimedWay
  <2>2. QED  BY <1>1, <1>2, <1>3, <2>1 DEF NextInv
<1>11. PlacedInv' /\ TargetInv' /\ TablesApart' /\ OtherInv' /\ TlbInv'
  BY <1>1, <1>5, WaysKept
<1>12. QED  BY <1>9, <1>10, <1>11 DEF TreeInv

------------------------------------------------------------------------------

\* What linking changes: the pages that pass the new entry have one table more,
\* which is empty; the others see nothing of it.
LEMMA LinkEffect ==
  ASSUME Sound, LinkTable, NEW w \in Addresses
  PROVE  /\ HwWalk(mem', w) = HwWalk(mem, w)
         /\ \A k \in 1 .. Levels :
              IF SamePath(op.vaddr, w, level + 1) /\ k >= level
              THEN /\ k = level => /\ TableOf(mem', w, k) = TableOf(mem, w, k)
                                   /\ EntryOf(mem', w, k) = Table(next)
                   /\ k = level + 1 => /\ TableOf(mem', w, k) = next
                                       /\ EntryOf(mem', w, k) = Invalid
                   /\ k > level + 1 => TableOf(mem', w, k) = NULL
              ELSE /\ TableOf(mem', w, k) = TableOf(mem, w, k)
                   /\ TableOf(mem, w, k) # NULL => EntryOf(mem', w, k) = EntryOf(mem, w, k)
<1> USE DEF Sound, TypedInv, TreeInv
<1> DEFINE v == op.vaddr
           l == level
<1>1. /\ UNCHANGED <<free, tlb, op, next, granted>> /\ pc = "link"
      /\ mem' = [mem EXCEPT ![table][op.vaddr.idx[level]] = Table(next)]
  BY DEF LinkTable, SetLink
<1>2. op # NULL /\ l # 0 /\ table = TableOf(mem, v, l) /\ l < Levels /\ Current = Invalid
  BY <1>1 DEF PhaseInv, CallInv
<1>3. v \in Targets /\ v \in Addresses /\ l \in 1 .. Levels
  BY <1>2, CallerAssumption DEF TypeOK
<1>4. table \in Frames /\ table # NULL /\ next \in Frames /\ next # NULL
      /\ v.idx[l] \in Index /\ mem \in [Frames -> [Index -> Descriptor]]
  BY <1>3, WayTypes, NullAssumption DEF TypeOK
<1>5. OnlyOn(mem, v, l)
  BY <1>2, <1>3, <1>4 DEF TablesApart
<1>6. next # 0 /\ mem[next] = EmptyTable
      /\ \A u \in Addresses, k \in 1 .. Levels : TableOf(mem, u, k) # next
  BY <1>1 DEF NextInv
<1>7. l + 1 \in 1 .. Levels
  BY <1>2, <1>3, WayGoesOn
<1>8. EntryOf(mem, v, l) = Invalid
  BY <1>2 DEF Current, EntryOf
<1> HIDE DEF v, l
<1>9. mem' = [mem EXCEPT ![table][v.idx[l]] = Table(next)]
  BY <1>1 DEF v, l
<1> DEFINE n == mem'
<1>10. /\ n[table][v.idx[l]] = Table(next)
       /\ \A g \in Frames \ {table} : n[g] = mem[g]
       /\ \A y \in Index \ {v.idx[l]} : n[table][y] = mem[table][y]
  BY <1>4, <1>9
<1> HIDE DEF n
<1>11. CASE SamePath(v, w, l + 1)
  <2>1. \A k \in 1 .. (l + 1) : TableOf(mem, w, k) = TableOf(mem, v, k)
    BY <1>3, <1>7, <1>11, SharedWay
  <2>2. l \in 1 .. (l + 1) /\ l \in 1 .. ((l + 1) - 1)
    BY <1>3, FourLevels
  <2>3. TableOf(mem, w, l) = table /\ w.idx[l] = v.idx[l]
    BY <1>2, <1>11, <2>1, <2>2 DEF SamePath
  <2>4. EntryOf(mem, w, l) = Invalid
    BY <1>2, <1>8, <2>3 DEF EntryOf
  <2>5. \A k \in 1 .. Levels : TableOf(mem, w, k) = TableOf(mem, w, l) => k = l
    BY <1>2, <1>5, <2>3 DEF OnlyOn
  <2>6. next # TableOf(mem, w, l) /\ TableOf(mem, w, l) # NULL
    BY <1>3, <1>4, <1>6, <2>3
  <2>7. /\ n[TableOf(mem, w, l)][w.idx[l]] = Table(next)
        /\ \A g \in Frames \ {TableOf(mem, w, l)} : n[g] = mem[g]
    BY <1>10, <2>3
  <2>8. /\ \A k \in 1 .. Levels : TableOf(n, w, k) =
             IF k <= l THEN TableOf(mem, w, k) ELSE IF k = l + 1 THEN next ELSE NULL
        /\ \A k \in 1 .. Levels : k < l => EntryOf(n, w, k) = EntryOf(mem, w, k)
        /\ EntryOf(n, w, l) = Table(next)
        /\ EntryOf(n, w, l + 1) = Invalid
        /\ HwWalk(n, w) = NULL /\ HwWalk(mem, w) = NULL
    BY <1>2, <1>3, <1>4, <1>6, <2>4, <2>5, <2>6, <2>7, LinkedWay
  <2>9. l \in Int /\ \A k \in 1 .. Levels : k \in Int
    BY <1>3
  <2>10. QED  BY <1>11, <2>8, <2>9 DEF n, v, l
<1>12. CASE ~SamePath(v, w, l + 1)
  <2>1. \A k \in 1 .. Levels : TableOf(mem, w, k) = table => w.idx[k] # v.idx[l]
    BY <1>2, <1>3, <1>5, <1>12, WhoPasses
  <2>2. \A k \in 1 .. Levels :
          /\ w.idx[k] \in Index
          /\ TableOf(mem, w, k) # NULL => TableOf(mem, w, k) \in Frames
    BY <1>4, WayTypes
  <2>3. \A k \in 1 .. Levels :
          TableOf(mem, w, k) # NULL => n[TableOf(mem, w, k)][w.idx[k]] = EntryOf(mem, w, k)
    BY <1>10, <2>1, <2>2 DEF EntryOf
  <2>4. /\ \A k \in 1 .. Levels : TableOf(n, w, k) = TableOf(mem, w, k)
        /\ \A k \in 1 .. Levels :
             TableOf(mem, w, k) # NULL => EntryOf(n, w, k) = EntryOf(mem, w, k)
        /\ HwWalk(n, w) = HwWalk(mem, w)
    BY <2>3, SameWay
  <2>5. QED  BY <1>12, <2>4 DEF n, v, l
<1>13. QED  BY <1>11, <1>12

\* So the tree has grown by one table.
LEMMA LinkTableStep == Sound /\ LinkTable => TreeInv'
<1> SUFFICES ASSUME Sound, LinkTable PROVE TreeInv'
  OBVIOUS
<1> USE DEF Sound, TypedInv, TreeInv
<1>1. /\ UNCHANGED <<free, tlb, op, next, granted>> /\ pc = "link" /\ pc' = "walk"
      /\ mem' = [mem EXCEPT ![table][op.vaddr.idx[level]] = Table(next)]
      /\ table' = next /\ level' = level + 1
  BY DEF LinkTable, SetLink
<1>2. op # NULL /\ level # 0 /\ level < Levels
  BY <1>1 DEF PhaseInv
<1>3. op.vaddr \in Targets /\ op.vaddr \in Addresses /\ level \in 1 .. Levels
      /\ level + 1 \in 1 .. Levels
  BY <1>2, CallerAssumption DEF TypeOK, Levels
<1>4. next \in Frames /\ next # NULL /\ next # 0 /\ granted = 1
      /\ \A u \in Addresses, k \in 1 .. Levels : TableOf(mem, u, k) # next
  BY <1>1, NullAssumption, TableAssumption DEF NextInv, TypeOK
<1>5. \A k \in 1 .. Levels : k \in Int
  OBVIOUS
<1>6. \A w \in Addresses, k \in 1 .. Levels :
        \/ TableOf(mem', w, k) = TableOf(mem, w, k)
        \/ TableOf(mem', w, k) = NULL
        \/ TableOf(mem', w, k) = next /\ k = level + 1 /\ SamePath(op.vaddr, w, level + 1)
  BY <1>3, <1>5, LinkEffect
<1>7. CallInv'
  <2>1. TableOf(mem, op.vaddr, level)' = TableOf(mem', op'.vaddr, level')
    BY DEF TableOf, Linked
  <2>2. SamePath(op.vaddr, op.vaddr, level + 1)
    BY DEF SamePath
  <2>3. TableOf(mem', op.vaddr, level + 1) = next
    BY <1>3, <2>2, LinkEffect
  <2>4. QED  BY <1>1, <1>2, <1>3, <2>1, <2>3 DEF CallInv, Asked
<1>8. NextInv'
  BY <1>1 DEF NextInv
<1>9. PlacedInv'
  <2> SUFFICES ASSUME NEW w \in Addresses, NEW k \in 1 .. Levels, TableOf(mem, w, k)' # NULL
               PROVE  TableOf(mem, w, k)' \in Frames \ (IF k = 1 THEN {} ELSE {0})
    <3>1. granted' # 0
      BY <1>1, <1>4
    <3>2. QED  BY <3>1 DEF PlacedInv
  <2>1. TableOf(mem, w, k)' = TableOf(mem, w, k) \/ TableOf(mem, w, k)' = next
    BY <1>6, PrimedWay
  <2>2. QED  BY <1>4, <2>1 DEF PlacedInv
<1>10. TargetInv'
  <2> SUFFICES ASSUME NEW v \in Targets, NEW k \in 1 .. Levels, TableOf(mem, v, k)' # NULL
               PROVE  LET d == EntryOf(mem, v, k)'
                      IN  \/ d = Invalid
                          \/ d.kind = "table"
                             /\ (k = Levels => [addr |-> d.addr, rights |-> d.rights] \in Asked)
    BY DEF TargetInv, Asked
  <2>1. v \in Addresses /\ TableOf(mem', v, k) # NULL
    BY CallerAssumption, PrimedWay
  <2>2. \/ EntryOf(mem', v, k) = EntryOf(mem, v, k) /\ TableOf(mem, v, k) # NULL
        \/ EntryOf(mem', v, k) = Table(next) /\ k = level
        \/ EntryOf(mem', v, k) = Invalid
    BY <1>3, <1>5, <2>1, LinkEffect
  <2>3. Table(next).kind = "table"
    BY DEF Table
  <2>4. EntryOf(mem, v, k)' = EntryOf(mem', v, k)
    BY PrimedWay
  <2>5. QED  BY <1>2, <1>3, <2>2, <2>3, <2>4 DEF TargetInv
<1>11. TablesApart'
  <2> SUFFICES ASSUME NEW v \in Targets, NEW k \in 1 .. Levels, TableOf(mem', v, k) # NULL
               PROVE  OnlyOn(mem', v, k)
    BY PrimedWay DEF TablesApart, OnlyOn, SamePath
  <2>1. v \in Addresses
    BY CallerAssumption
  <2>2. CASE TableOf(mem', v, k) = TableOf(mem, v, k)
    <3>1. OnlyOn(mem, v, k)
      BY <2>2 DEF TablesApart
    <3>2. QED  BY <1>4, <1>6, <2>1, <2>2, <3>1 DEF OnlyOn
  <2>3. CASE TableOf(mem', v, k) = next /\ k = level + 1 /\ SamePath(op.vaddr, v, level + 1)
    <3>1. ASSUME NEW w \in Addresses, NEW j \in 1 .. Levels, TableOf(mem', w, j) = next
          PROVE  j = k /\ SamePath(v, w, k)
      <4>1. j = level + 1 /\ SamePath(op.vaddr, w, level + 1)
        BY <1>4, <1>6, <3>1
      <4>2. SamePath(v, w, level + 1)
        BY <2>3, <4>1 DEF SamePath
      <4>3. QED  BY <2>3, <4>1, <4>2
    <3>2. QED  BY <1>1, <1>4, <2>3, <3>1 DEF OnlyOn
  <2>4. QED  BY <1>6, <2>1, <2>2, <2>3
<1>12. OtherInv'
  BY LinkEffect, PrimedWay DEF OtherInv
<1>13. TlbInv'
  BY <1>1 DEF TlbInv, Asked
<1>14. QED
  BY <1>7, <1>8, <1>9, <1>10, <1>11, <1>12, <1>13 DEF TreeInv

------------------------------------------------------------------------------

\* A page is known by its path.
LEMMA SamePage ==
  ASSUME NEW v \in Addresses, NEW w \in Addresses, SamePath(v, w, Levels + 1)
  PROVE  v = w
<1>1. v.half = w.half /\ \A k \in 1 .. Levels : v.idx[k] = w.idx[k]
  BY DEF SamePath, Levels
<1>2. v.idx = w.idx
  <2>1. v.idx \in [1 .. Levels -> Index] /\ w.idx \in [1 .. Levels -> Index]
    BY DEF Addresses
  <2>2. ASSUME NEW S, NEW T, NEW f \in [S -> T], NEW g \in [S -> T], \A k \in S : f[k] = g[k]
        PROVE  f = g
    BY <2>2
  <2> DEFINE S == 1 .. Levels
             f == v.idx
             g == w.idx
  <2>3. f \in [S -> Index] /\ g \in [S -> Index] /\ \A k \in S : f[k] = g[k]
    BY <1>1, <2>1
  <2> HIDE DEF S, f, g
  <2>4. f = g
    BY <2>2, <2>3
  <2>5. QED  BY <2>4 DEF f, g
<1>3. v = [half |-> v.half, idx |-> v.idx] /\ w = [half |-> w.half, idx |-> w.idx]
  BY DEF Addresses
<1>4. QED  BY <1>1, <1>2, <1>3

\* What the last write of a call changes: what its page is mapped to.
LEMMA WriteEffect ==
  ASSUME Sound, WriteEntry, NEW w \in Addresses
  PROVE  /\ \A k \in 1 .. Levels : TableOf(mem', w, k) = TableOf(mem, w, k)
         /\ \A k \in 1 .. Levels :
              (w # op.vaddr \/ k # 4) /\ TableOf(mem, w, k) # NULL =>
                EntryOf(mem', w, k) = EntryOf(mem, w, k)
         /\ w # op.vaddr => HwWalk(mem', w) = HwWalk(mem, w)
         /\ w = op.vaddr => /\ HwWalk(mem', w) = op.to
                            /\ EntryOf(mem', w, 4) = IF op.to = NULL THEN Invalid
                                                     ELSE Page(op.to.addr, op.to.rights)
<1> USE DEF Sound, TypedInv, TreeInv
<1> DEFINE v == op.vaddr
           d == IF op.to = NULL THEN Invalid ELSE Page(op.to.addr, op.to.rights)
           n == mem'
<1>1. /\ UNCHANGED <<free, tlb, op, level, table, next, granted>> /\ pc = "walk" /\ level = 4
      /\ n = [mem EXCEPT ![table][v.idx[4]] = d]
  BY DEF WriteEntry, SetEntry, Levels
<1>2. op # NULL /\ table = TableOf(mem, v, 4)
  BY <1>1 DEF PhaseInv, CallInv
<1>3. v \in Targets /\ v \in Addresses /\ 4 \in 1 .. Levels /\ op.to \in Asked \cup {NULL}
  BY <1>2, CallerAssumption, FourLevels DEF TypeOK, CallInv
<1>4. /\ mem \in [Frames -> [Index -> Descriptor]] /\ table \in Frames /\ table # NULL
      /\ v.idx[4] \in Index
  BY <1>3, WayTypes, NullAssumption DEF TypeOK
<1>5. OnlyOn(mem, v, 4)
  BY <1>2, <1>3, <1>4 DEF TablesApart
<1>6. op.to # NULL => op.to \in Results
  BY <1>3, AskedTypes
<1>7. /\ d \in Descriptor
      /\ (IF d.kind = "table" THEN [addr |-> d.addr, rights |-> d.rights] ELSE NULL) = op.to
  <2>1. CASE op.to = NULL
    BY <2>1, ShapeAssumption DEF Invalid, Descriptor
  <2>2. CASE op.to # NULL
    BY <2>2, <1>6 DEF Page, Descriptor, Results
  <2>3. QED  BY <2>1, <2>2
<1> HIDE DEF n, v, d
<1>8. /\ n[table][v.idx[4]] = d
      /\ \A g \in Frames \ {table} : n[g] = mem[g]
      /\ \A y \in Index \ {v.idx[4]} : n[table][y] = mem[table][y]
  BY <1>1, <1>4
<1>9. CASE w = v
  <2>1. TableOf(mem, v, 4) # NULL /\ \A k \in 1 .. Levels : TableOf(mem, v, k) = TableOf(mem, v, 4) => k = 4
    BY <1>2, <1>3, <1>4, <1>5 DEF OnlyOn
  <2>2. n[TableOf(mem, v, 4)][v.idx[4]] = d
        /\ \A g \in Frames \ {TableOf(mem, v, 4)} : n[g] = mem[g]
    BY <1>2, <1>8
  <2>3. /\ \A k \in 1 .. Levels : TableOf(n, v, k) = TableOf(mem, v, k)
        /\ \A k \in 1 .. Levels : k # 4 => EntryOf(n, v, k) = EntryOf(mem, v, k)
        /\ EntryOf(n, v, 4) = d
        /\ HwWalk(n, v) = IF d.kind = "table" THEN [addr |-> d.addr, rights |-> d.rights]
                          ELSE NULL
    <3> DEFINE T == TableOf(mem, v, 4)
    <3>1. /\ mem \in [Frames -> [Index -> Descriptor]] /\ v \in Addresses /\ d \in Descriptor
          /\ T # NULL /\ \A k \in 1 .. Levels : TableOf(mem, v, k) = T => k = 4
          /\ n[T][v.idx[4]] = d /\ \A g \in Frames \ {T} : n[g] = mem[g]
      BY <1>3, <1>4, <1>7, <2>1, <2>2
    <3>2. \A k \in 1 .. Levels : TableOf(n, v, k) = TableOf(mem, v, k)
      BY <3>1, LastEntry
    <3>3. \A k \in 1 .. Levels : k # 4 => EntryOf(n, v, k) = EntryOf(mem, v, k)
      BY <3>1, LastEntry
    <3>4. EntryOf(n, v, 4) = d
      BY <3>1, LastEntry
    <3>5. HwWalk(n, v) = IF d.kind = "table" THEN [addr |-> d.addr, rights |-> d.rights]
                         ELSE NULL
      BY <3>1, LastEntry
    <3>6. QED  BY <3>2, <3>3, <3>4, <3>5
  <2>4. QED  BY <1>7, <1>9, <2>3 DEF n, v, d
<1>10. CASE w # v
  <2>1. \A k \in 1 .. Levels : TableOf(mem, w, k) = table => w.idx[k] # v.idx[4]
    <3> SUFFICES ASSUME NEW k \in 1 .. Levels, TableOf(mem, w, k) = table, w.idx[k] = v.idx[4]
                 PROVE  FALSE
      OBVIOUS
    <3>1. SamePath(v, w, 4 + 1)
      BY <1>2, <1>3, <1>5, WhoPasses
    <3>2. QED  BY <1>3, <1>10, <3>1, SamePage DEF Levels
  <2>2. \A k \in 1 .. Levels :
          /\ w.idx[k] \in Index
          /\ TableOf(mem, w, k) # NULL => TableOf(mem, w, k) \in Frames
    BY <1>4, WayTypes
  <2>3. \A k \in 1 .. Levels :
          TableOf(mem, w, k) # NULL => n[TableOf(mem, w, k)][w.idx[k]] = EntryOf(mem, w, k)
    BY <1>8, <2>1, <2>2 DEF EntryOf
  <2>4. /\ \A k \in 1 .. Levels : TableOf(n, w, k) = TableOf(mem, w, k)
        /\ \A k \in 1 .. Levels :
             TableOf(mem, w, k) # NULL => EntryOf(n, w, k) = EntryOf(mem, w, k)
        /\ HwWalk(n, w) = HwWalk(mem, w)
    BY <2>3, SameWay
  <2>5. QED  BY <1>10, <2>4 DEF n, v
<1>11. QED  BY <1>9, <1>10

\* So the tree stays as it is.
LEMMA WriteEntryStep == Sound /\ WriteEntry => TreeInv'
<1> SUFFICES ASSUME Sound, WriteEntry PROVE TreeInv'
  OBVIOUS
<1> USE DEF Sound, TypedInv, TreeInv
<1>1. /\ UNCHANGED <<free, tlb, op, level, table, next, granted>> /\ pc = "walk" /\ level = 4
      /\ pc' = "invalidate"
      /\ mem' = [mem EXCEPT ![table][op.vaddr.idx[4]] =
                   IF op.to = NULL THEN Invalid ELSE Page(op.to.addr, op.to.rights)]
  BY DEF WriteEntry, SetEntry, Levels
<1>2. op # NULL /\ op.to \in Asked \cup {NULL}
  BY <1>1 DEF PhaseInv, CallInv
<1>3. op.vaddr \in Targets /\ op.vaddr \in Addresses
  BY <1>2, CallerAssumption DEF TypeOK
<1>4. \A w \in Addresses, k \in 1 .. Levels : TableOf(mem, w, k)' = TableOf(mem, w, k)
  BY WriteEffect, PrimedWay
<1>5. CallInv' /\ NextInv'
  BY <1>1, <1>2 DEF CallInv, NextInv, Asked
<1>6. PlacedInv'
  <2> SUFFICES ASSUME NEW w \in Addresses, NEW k \in 1 .. Levels, TableOf(mem, w, k)' # NULL
               PROVE  /\ TableOf(mem, w, k)' \in Frames \ (IF k = 1 THEN {} ELSE {0})
                      /\ granted = 0 => TableOf(mem, w, k)' \notin Pool
    BY <1>1 DEF PlacedInv
  <2>1. TableOf(mem, w, k)' = TableOf(mem, w, k)
    BY <1>4
  <2>2. QED  BY <2>1 DEF PlacedInv
<1>7. TargetInv'
  <2> SUFFICES ASSUME NEW v \in Targets, NEW k \in 1 .. Levels, TableOf(mem, v, k)' # NULL
               PROVE  LET d == EntryOf(mem, v, k)'
                      IN  \/ d = Invalid
                          \/ d.kind = "table"
                             /\ (k = Levels => [addr |-> d.addr, rights |-> d.rights] \in Asked)
    BY DEF TargetInv, Asked
  <2>1. v \in Addresses /\ TableOf(mem, v, k) # NULL
    BY <1>4, CallerAssumption
  <2>2. EntryOf(mem, v, k)' = EntryOf(mem', v, k)
    BY PrimedWay
  <2>3. CASE v = op.vaddr /\ k = 4
    <3>1. EntryOf(mem', v, k) = IF op.to = NULL THEN Invalid
                                ELSE Page(op.to.addr, op.to.rights)
      BY <2>1, <2>3, WriteEffect
    <3>2. op.to # NULL =>
            /\ Page(op.to.addr, op.to.rights).kind = "table"
            /\ [addr |-> Page(op.to.addr, op.to.rights).addr,
                rights |-> Page(op.to.addr, op.to.rights).rights] = op.to
      BY <1>2, AskedTypes DEF Page, Results
    <3>3. QED  BY <1>2, <2>2, <3>1, <3>2
  <2>4. CASE v # op.vaddr \/ k # 4
    <3>1. EntryOf(mem', v, k) = EntryOf(mem, v, k)
      BY <2>1, <2>4, WriteEffect
    <3>2. QED  BY <2>1, <2>2, <3>1 DEF TargetInv
  <2>5. QED  BY <2>3, <2>4
<1>8. TablesApart'
  <2> SUFFICES ASSUME NEW v \in Targets, NEW l \in 1 .. Levels, TableOf(mem, v, l)' # NULL
               PROVE  OnlyOn(mem, v, l)'
    BY DEF TablesApart
  <2>1. TableOf(mem, v, l)' = TableOf(mem, v, l) /\ OnlyOn(mem, v, l)
    BY <1>4, CallerAssumption DEF TablesApart
  <2>2. QED  BY <1>4, <2>1 DEF OnlyOn, SamePath
<1>9. OtherInv'
  BY <1>3, WriteEffect, PrimedWay DEF OtherInv
<1>10. TlbInv'
  BY <1>1 DEF TlbInv, Asked
<1>11. QED
  BY <1>5, <1>6, <1>7, <1>8, <1>9, <1>10 DEF TreeInv

------------------------------------------------------------------------------

\* The processor keeps what it finds.
LEMMA TlbStep ==
  ASSUME NEW v \in Cached
  PROVE  Sound /\ (TlbFill(v) \/ TlbEvict(v)) => TreeInv'
<1> SUFFICES ASSUME Sound, TlbFill(v) \/ TlbEvict(v) PROVE TreeInv'
  OBVIOUS
<1> USE DEF Sound, TypedInv, TreeInv
<1>1. UNCHANGED <<mem, free, pc, op, level, table, next, granted>>
  BY DEF TlbFill, TlbEvict, call_vars
<1>2. v \in Addresses
  BY CallerAssumption
<1>3. \/ tlb' = [tlb EXCEPT ![v] = HwWalk(mem, v)]
      \/ tlb' = [tlb EXCEPT ![v] = NULL]
  BY DEF TlbFill, TlbEvict
<1>4. TlbInv'
  <2> SUFFICES ASSUME NEW u \in Cached, tlb'[u] # NULL
               PROVE  IF u \in Targets THEN tlb'[u] \in Asked
                      ELSE tlb'[u] = HwWalk(BootTables, u)
    BY DEF TlbInv, Asked
  <2>1. CASE tlb'[u] = tlb[u]
    BY <2>1 DEF TlbInv
  <2>2. CASE u = v /\ tlb'[u] = HwWalk(mem, v)
    <3>1. u \in Targets => HwWalk(mem, v) \in Asked
      BY <2>2, TargetFinds
    <3>2. u \notin Targets => HwWalk(mem, v) = HwWalk(BootTables, u)
      BY <1>2, <2>2 DEF OtherInv
    <3>3. QED  BY <2>2, <3>1, <3>2
  <2>3. tlb \in [Cached -> Results \cup {NULL}]
    BY DEF TypeOK
  <2>4. QED  BY <1>3, <2>1, <2>2, <2>3
<1>5. CallInv'
  <2>1. TableOf(mem, op.vaddr, level)' = TableOf(mem', op'.vaddr, level')
    BY DEF TableOf, Linked
  <2>2. QED  BY <1>1, <2>1 DEF CallInv, Current, Asked
<1>6. NextInv'
  BY <1>1, PrimedWay DEF NextInv
<1>7. PlacedInv' /\ TargetInv' /\ TablesApart' /\ OtherInv'
  BY <1>1, PrimedWay
     DEF PlacedInv, TargetInv, TablesApart, Once, OtherInv, OnlyOn, SamePath, Asked
<1>8. QED  BY <1>4, <1>5, <1>6, <1>7 DEF TreeInv

\* And nothing changes when nothing happens.
LEMMA StutterStep == Sound /\ UNCHANGED vars => TreeInv'
<1> SUFFICES ASSUME Sound, UNCHANGED vars PROVE TreeInv'
  OBVIOUS
<1> USE DEF Sound, TypedInv, TreeInv
<1>1. UNCHANGED <<mem, free, tlb, pc, op, level, table, next, granted>>
  BY DEF vars, call_vars
<1>2. CallInv'
  <2>1. TableOf(mem, op.vaddr, level)' = TableOf(mem', op'.vaddr, level')
    BY DEF TableOf, Linked
  <2>2. QED  BY <1>1, <2>1 DEF CallInv, Current, Asked
<1>3. NextInv'
  BY <1>1, PrimedWay DEF NextInv
<1>4. QED  BY <1>1, <1>2, <1>3, MemKept DEF TreeInv

------------------------------------------------------------------------------

\* A frame that has been granted again stays so.
LEMMA OnceBefore ==
  ASSUME IInv, [Next]_vars, Once'
  PROVE  Once
<1>1. granted' = granted \/ AllocTable
  BY DEF Next, Map, Unmap, Call, Descend, Missing, ClearTable, ClearFaults, LinkTable,
         WriteEntry, Invalidate, TlbFill, TlbEvict, vars
<1>2. granted \in 0 .. 2
  BY DEF IInv, TypedInv, TypeOK
<1>3. CASE granted' = granted
  BY <1>3 DEF Once
<1>4. CASE AllocTable
  BY <1>2, <1>4 DEF Once, AllocTable
<1>5. QED  BY <1>1, <1>3, <1>4

\* One case per action.
LEMMA NextStep ==
  ASSUME BootSound
  PROVE  IInv /\ [Next]_vars => IInv'
<1> SUFFICES ASSUME IInv, [Next]_vars PROVE TypedInv' /\ (Once' => TreeInv')
  BY DEF IInv
<1>1. TypedInv'
  BY TypedStep DEF IInv
<1> SUFFICES ASSUME Once' PROVE TreeInv'
  BY <1>1
<1>2. Sound
  BY OnceBefore DEF Sound, IInv
<1>3. ASSUME NEW v \in Targets, NEW p \in Pages, NEW r \in Rights, Map(v, p, r)
      PROVE  TreeInv'
  <2>1. [addr |-> p, rights |-> PteRights(r)] \in Asked \cup {NULL}
    BY DEF Asked
  <2>2. QED  BY <1>2, <1>3, <2>1, CallStep DEF Map
<1>4. ASSUME NEW v \in Targets, Unmap(v)
      PROVE  TreeInv'
  BY <1>2, <1>4, CallStep DEF Unmap
<1>5. CASE Descend
  BY <1>2, <1>5, DescendStep
<1>6. CASE Missing \/ Invalidate \/ ClearFaults
  BY <1>2, <1>6, EndStep
<1>7. CASE AllocTable
  BY <1>2, <1>7, AllocTableStep
<1>8. CASE ClearTable
  BY <1>2, <1>8, ClearTableStep
<1>9. CASE LinkTable
  BY <1>2, <1>9, LinkTableStep
<1>10. CASE WriteEntry
  BY <1>2, <1>10, WriteEntryStep
<1>11. ASSUME NEW v \in Cached, TlbFill(v) \/ TlbEvict(v)
       PROVE  TreeInv'
  BY <1>2, <1>11, TlbStep
<1>12. CASE UNCHANGED vars
  BY <1>2, <1>12, StutterStep
<1>13. QED
  BY <1>3, <1>4, <1>5, <1>6, <1>7, <1>8, <1>9, <1>10, <1>11, <1>12 DEF Next

LEMMA Inductive ==
  ASSUME BootSound, BootBlocks
  PROVE  Spec => []IInv
<1>1. Init => IInv
  BY InitInv, TypedInit DEF IInv
<1>2. QED  BY <1>1, NextStep, PTL DEF Spec

\* Every variable keeps its type, however often frames are granted and whatever
\* the tables have become: what is read in a table is a descriptor, and what the
\* TLB holds is a translation to memory (mmu.c:53-220).
THEOREM TypeCorrect ==
  ASSUME BootBlocks
  PROVE  Spec => []TypeOK
<1>1. Init => TypedInv
  BY TypedInit
<1>2. TypedInv => TypeOK
  BY DEF TypedInv
<1>3. QED  BY <1>1, <1>2, TypedStep, PTL DEF Spec

\* Until a frame is granted again, the tables on the way to the pages callers map
\* form a tree: no frame is a table at two places (mmu.c:61-82).
THEOREM TablesStayApart ==
  ASSUME BootSound, BootBlocks
  PROVE  Spec => []TablesApart
<1>1. IInv => TablesApart
  BY DEF IInv, TreeInv, TablesApart
<1>2. QED  BY <1>1, Inductive, PTL

\* Until a frame is granted again, the processor can at no moment pick up a
\* translation for a page of the callers' that nobody has asked for
\* (mmu.c:71-74, 192-204).
THEOREM TlbHoldsKnown ==
  ASSUME BootSound, BootBlocks
  PROVE  Spec => []TlbKnown
<1>1. IInv => TlbKnown
  BY DEF IInv, TreeInv, TlbInv, TlbKnown
<1>2. QED  BY <1>1, Inductive, PTL

\* Until a frame is granted again, software that looks up a page finds what the
\* processor finds (mmu.c:105-139): 0 stands for "not mapped", since no lower table and no page is at 0.
THEOREM SoftwareAgrees ==
  ASSUME BootSound, BootBlocks
  PROVE  Spec => []TranslateAgrees
<1>1. ASSUME IInv PROVE TranslateAgrees
  <2> SUFFICES ASSUME Once, NEW v \in Targets
               PROVE  translate_vaddr(v) = IF HwWalk(mem, v) = NULL THEN 0
                                           ELSE HwWalk(mem, v).addr
    BY DEF TranslateAgrees
  <2> USE <1>1 DEF IInv, TypedInv, TreeInv
  <2> DEFINE T(l) == TableOf(mem, v, l)
             D(l) == EntryOf(mem, v, l)
  <2>1. v \in Addresses /\ ttbr_index(v) = v.half /\ {1, 2, 3, 4} \subseteq 1 .. Levels
    BY CallerAssumption, FourLevels DEF BootSound, BootTargets
  <2>2. /\ T(1) = Root[v.half] /\ T(1) \in Frames /\ T(1) # NULL
        /\ T(2) = Linked(mem, T(1), v.idx[1])
        /\ T(3) = Linked(mem, T(2), v.idx[2])
        /\ T(4) = Linked(mem, T(3), v.idx[3])
    BY <2>1, WayFrom, TableAssumption, NullAssumption DEF Addresses
  <2>3. (T(2) # NULL => T(2) # 0) /\ (T(3) # NULL => T(3) # 0) /\ (T(4) # NULL => T(4) # 0)
    <3>1. \A k \in 1 .. Levels : k # 1 /\ T(k) # NULL => T(k) # 0
      BY <2>1 DEF PlacedInv
    <3>2. QED  BY <2>1, <3>1
  <2>4. T(4) # NULL =>
          \/ D(4) = Invalid
          \/ D(4).kind = "table" /\ [addr |-> D(4).addr, rights |-> D(4).rights] \in Asked
    BY <2>1 DEF TargetInv, Levels
  <2>5. T(4) # NULL /\ D(4).kind = "table" => D(4).addr # 0
    <3> SUFFICES ASSUME T(4) # NULL, D(4).kind = "table" PROVE D(4).addr # 0
      OBVIOUS
    <3>1. [addr |-> D(4).addr, rights |-> D(4).rights] \in Asked
      BY <2>4 DEF Invalid
    <3>2. PICK p \in Pages, r \in Rights :
            [addr |-> D(4).addr, rights |-> D(4).rights] = [addr |-> p, rights |-> PteRights(r)]
      BY <3>1 DEF Asked
    <3>3. D(4).addr = p
      BY <3>2
    <3>4. QED  BY <3>3, CallerAssumption
  <2>6. HwWalk(mem, v) = IF T(4) # NULL /\ D(4).kind = "table"
                         THEN [addr |-> D(4).addr, rights |-> D(4).rights] ELSE NULL
    BY TargetWalk
  <2>7. [addr |-> D(4).addr, rights |-> D(4).rights] \in Asked =>
          [addr |-> D(4).addr, rights |-> D(4).rights] # NULL
    BY AskedTypes
  <2> DEFINE l1 == next_level(T(1), v.idx[1])
             l2 == next_level(l1, v.idx[2])
             l3 == next_level(l2, v.idx[3])
  <2>8. translate_vaddr(v) = IF l1 = 0 \/ l2 = 0 \/ l3 = 0 THEN 0 ELSE mem[l3][v.idx[4]].addr
    BY <2>1, <2>2 DEF translate_vaddr
  <2>9. D(4) = mem[T(4)][v.idx[4]]
    BY DEF EntryOf
  <2> HIDE DEF T, D
  <2>10. ASSUME NEW t \in Frames, NEW x \in Index
        PROVE  next_level(t, x) = IF Linked(mem, t, x) = NULL THEN 0 ELSE Linked(mem, t, x)
    <3>1. mem[t][x] \in Descriptor /\ t # NULL
      BY NullAssumption DEF TypeOK
    <3>2. mem[t][x].addr # NULL
      BY <3>1, NullAssumption DEF Descriptor
    <3>3. QED  BY <3>1, <3>2 DEF next_level, Linked
  <2>11. /\ v.idx[1] \in Index /\ v.idx[2] \in Index /\ v.idx[3] \in Index
        /\ (T(2) # NULL => T(2) \in Frames) /\ (T(3) # NULL => T(3) \in Frames)
    BY <2>1, WayTypes DEF TypeOK, T
  <2>12. IF T(2) = NULL THEN l1 = 0 ELSE l1 = T(2)
    BY <2>2, <2>10, <2>11
  <2>13. T(2) # NULL => IF T(3) = NULL THEN l2 = 0 ELSE l2 = T(3)
    BY <2>2, <2>12, <2>10, <2>11
  <2>14. T(3) # NULL => T(2) # NULL
    BY <2>2 DEF Linked
  <2>15. T(3) # NULL => IF T(4) = NULL THEN l3 = 0 ELSE l3 = T(4)
    BY <2>2, <2>13, <2>14, <2>10, <2>11
  <2>16. T(4) # NULL => T(3) # NULL
    BY <2>2 DEF Linked
  <2> HIDE DEF l1, l2, l3
  <2>17. CASE T(4) = NULL
    BY <2>6, <2>8, <2>12, <2>13, <2>14, <2>15, <2>17
  <2>18. CASE T(4) # NULL
    <3>1. translate_vaddr(v) = D(4).addr
      BY <2>3, <2>8, <2>9, <2>12, <2>13, <2>14, <2>15, <2>16, <2>18
    <3>2. CASE D(4) = Invalid
      BY <2>6, <3>1, <3>2 DEF Invalid
    <3>3. CASE D(4) # Invalid
      BY <2>4, <2>6, <2>7, <2>18, <3>1, <3>3
    <3>4. QED  BY <3>2, <3>3
  <2>19. QED  BY <2>17, <2>18
<1>2. QED  BY <1>1, Inductive, PTL

------------------------------------------------------------------------------

\* A level is missing only when the page is not mapped.
LEMMA MissingFinds ==
  ASSUME Sound, Missing
  PROVE  /\ op # NULL /\ op.vaddr \in Targets /\ op.to = NULL
         /\ HwWalk(mem, op.vaddr) = NULL
<1> USE DEF Sound, TypedInv, TreeInv
<1> DEFINE v == op.vaddr
<1>1. /\ pc = "walk" /\ level < Levels /\ op.to = NULL
      /\ next_level(table, v.idx[level]) = 0
  BY DEF Missing
<1>2. op # NULL /\ level # 0 /\ table = TableOf(mem, v, level)
  BY <1>1 DEF PhaseInv, CallInv
<1>3. v \in Targets /\ v \in Addresses /\ level \in {1, 2, 3}
  BY <1>1, <1>2, CallerAssumption DEF TypeOK, Levels
<1>4. level \in 1 .. Levels /\ level + 1 \in 1 .. Levels /\ level + 1 # 1
  BY <1>3, FourLevels
<1> DEFINE d == EntryOf(mem, v, level)
<1>5. TableOf(mem, v, level) # NULL
  BY <1>2, NullAssumption DEF TypeOK
<1>6. next_level(table, v.idx[level]) = IF d.kind = "table" THEN d.addr ELSE 0
  BY <1>2 DEF next_level, EntryOf
<1>7. TableOf(mem, v, level + 1) = IF d.kind = "table" THEN d.addr ELSE NULL
  BY <1>1, <1>4, <1>5, WayGoesOn
<1>8. TableOf(mem, v, level + 1) # NULL => TableOf(mem, v, level + 1) # 0
  BY <1>3, <1>4 DEF PlacedInv
<1>9. TableOf(mem, v, level + 1) = NULL
  BY <1>1, <1>6, <1>7, <1>8
<1>10. TableOf(mem, v, 4) = NULL
  <2>1. \A x : Linked(mem, NULL, x) = NULL
    BY DEF Linked
  <2>2. CASE level = 1
    BY <1>9, <2>1, <2>2, WayFrom
  <2>3. CASE level = 2
    BY <1>9, <2>1, <2>3, WayFrom
  <2>4. CASE level = 3
    BY <1>9, <2>4
  <2>5. QED  BY <1>3, <2>2, <2>3, <2>4
<1>11. QED  BY <1>1, <1>2, <1>3, <1>10, TargetWalk

\* A call asks, its last write applies what was asked, and its other steps change
\* nothing that the promise speaks of; a frame that is granted again voids it.
LEMMA StepRefines ==
  ASSUME BootSound
  PROVE  IInv /\ [Next]_vars => [Promise!SpaceNext]_(Promise!space_vars)
<1> SUFFICES ASSUME IInv, [Next]_vars
             PROVE  [Promise!SpaceNext]_(Promise!space_vars)
  OBVIOUS
<1> DEFINE mapping == [v \in Addresses |-> HwWalk(mem, v)]
           request == IF pc \in {"walk", "clear", "link", "fault"} THEN op ELSE NULL
           void == ~Once
           Asks == \E v \in Addresses, to \in Asked \cup {NULL} :
                     /\ ~void /\ request = NULL /\ request' = [vaddr |-> v, to |-> to]
                     /\ mapping' = mapping /\ void' = void
           Applies == /\ ~void /\ request # NULL
                      /\ mapping' = [mapping EXCEPT ![request.vaddr] = request.to]
                      /\ request' = NULL /\ void' = void
           Stutters == mapping' = mapping /\ request' = request /\ void' = void
<1>1. Asks \/ Applies \/ Stutters \/ void' => [Promise!SpaceNext]_(Promise!space_vars)
  BY DEF Promise!SpaceNext, Promise!space_vars, Promise!Ask, Promise!Apply, Promise!Void
<1>2. mapping' = [v \in Addresses |-> HwWalk(mem', v)]
  BY PrimedWay
<1>3. mem' = mem => mapping' = mapping
  BY <1>2
<1>4. (\A w \in Addresses : HwWalk(mem', w) = HwWalk(mem, w)) => mapping' = mapping
  BY <1>2
<1>5. CASE ~Once'
  BY <1>1, <1>5
<1> SUFFICES ASSUME Once' PROVE [Promise!SpaceNext]_(Promise!space_vars)
  BY <1>5
<1>6. Sound
  BY OnceBefore DEF Sound, IInv
<1>7. ~void /\ void' = void
  BY <1>6 DEF Sound
<1> HIDE DEF mapping, void
<1>8. ASSUME NEW v \in Targets, NEW to \in Asked \cup {NULL}, Call(v, to)
      PROVE  Asks
  BY <1>3, <1>7, <1>8, CallerAssumption DEF Call
<1>9. ASSUME NEW v \in Targets, NEW p \in Pages, NEW r \in Rights, Map(v, p, r)
      PROVE  Asks
  <2>1. [addr |-> p, rights |-> PteRights(r)] \in Asked \cup {NULL}
    BY DEF Asked
  <2>2. QED  BY <1>8, <1>9, <2>1 DEF Map
<1>10. ASSUME NEW v \in Targets, Unmap(v)
       PROVE  Asks
  BY <1>8, <1>10 DEF Unmap
<1>11. CASE Missing
  <2>1. /\ op # NULL /\ op.vaddr \in Targets /\ op.to = NULL
        /\ HwWalk(mem, op.vaddr) = NULL
    BY <1>6, <1>11, MissingFinds
  <2>2. request = op /\ request' = NULL /\ mapping' = mapping
    BY <1>3, <1>11 DEF Missing, Return
  <2>3. mapping = [mapping EXCEPT ![op.vaddr] = NULL]
    BY <2>1, CallerAssumption DEF mapping
  <2>4. QED  BY <1>1, <1>7, <2>1, <2>2, <2>3
<1>12. CASE WriteEntry
  <2>1. /\ UNCHANGED op /\ pc = "walk" /\ pc' = "invalidate"
    BY <1>12 DEF WriteEntry
  <2>2. op # NULL
    BY <1>6, <2>1 DEF Sound, TypedInv, PhaseInv
  <2>3. \A w \in Addresses :
          HwWalk(mem', w) = IF w = op.vaddr THEN op.to ELSE HwWalk(mem, w)
    BY <1>6, <1>12, WriteEffect
  <2>4. mapping' = [mapping EXCEPT ![op.vaddr] = op.to]
    BY <1>2, <2>3 DEF mapping
  <2>5. request = op /\ request' = NULL
    BY <2>1
  <2>6. QED  BY <1>1, <1>7, <2>2, <2>4, <2>5
<1>13. CASE ClearTable
  <2>1. mapping' = mapping
    BY <1>4, <1>6, <1>13, ClearEffect
  <2>2. QED  BY <1>1, <1>7, <1>13, <2>1 DEF ClearTable
<1>14. CASE LinkTable
  <2>1. mapping' = mapping
    BY <1>4, <1>6, <1>14, LinkEffect
  <2>2. QED  BY <1>1, <1>7, <1>14, <2>1 DEF LinkTable
<1>15. CASE Descend \/ AllocTable \/ ClearFaults
  BY <1>1, <1>3, <1>7, <1>15 DEF Descend, AllocTable, ClearFaults
<1>16. CASE Invalidate
  BY <1>1, <1>3, <1>7, <1>16 DEF Invalidate, Return
<1>17. CASE (\E v \in Cached : TlbFill(v) \/ TlbEvict(v)) \/ UNCHANGED vars
  BY <1>1, <1>3, <1>7, <1>17 DEF TlbFill, TlbEvict, vars, call_vars
<1>18. QED
  BY <1>1, <1>9, <1>10, <1>11, <1>12, <1>13, <1>14, <1>15, <1>16, <1>17 DEF Next

\* Until a frame is granted again, callers may take the tables for a function from
\* pages to what they are mapped to, in which a call replaces what its own page is
\* mapped to (mmu.c:141-220): in one step, whatever else the processor does, and
\* for no other page.
THEOREM ImplementsAddressSpace ==
  ASSUME BootSound, BootBlocks
  PROVE  Spec => AddressSpacePromise
<1>1. Init => Promise!SpaceInit
  BY DEF Init, Promise!SpaceInit, Once
<1>2. QED
  BY <1>1, Inductive, StepRefines, PTL DEF Spec, AddressSpacePromise, Promise!SpaceSpec
==============================================================================
