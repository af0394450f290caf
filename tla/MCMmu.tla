-------------------------------- MODULE MCMmu --------------------------------
(***************************************************************************)
(* Small instances of Mmu: tables of two entries, so that either half has  *)
(* 16 pages.  The bootloader has mapped the physical pages 1 .. 7 at their *)
(* own addresses: page 1 by a descriptor of the last level, the others by  *)
(* blocks.  Of the higher half it has made the tables on the way to one    *)
(* last table; on the ways to the other pages one, two or all three of the *)
(* lower levels are missing.                                               *)
(***************************************************************************)
EXTENDS Mmu, TLC

Pair(d, e) == (0 :> d) @@ (1 :> e)

\* The lowest free frame is mapped by a page, by a block, or is not there.
MCPools == {{1, 3}, {4}, {}}
MCNone  == {{}}

MCFrames == 0 .. 15
MCRoot   == (0 :> 8) @@ (1 :> 12)

\* Frame 14 is no table: it is a page callers map, whose contents could be taken for
\* one, as those of the free frames (MCJunk).
MCBootTables ==
  [f \in MCFrames \ Pool |->
     CASE f = 8  -> Pair(Table(9), Invalid)
       [] f = 9  -> Pair(Table(10), Block(4))
       [] f = 10 -> Pair(Table(11), Block(2))
       [] f = 11 -> Pair(Invalid, Page(1, {}))
       [] f = 12 -> Pair(Invalid, Table(13))
       [] f = 13 -> Pair(Table(6), Invalid)
       [] f = 6  -> Pair(Table(7), Invalid)
       [] f = 14 -> Pair(Block(4), Table(11))
       [] OTHER  -> EmptyTable]

MCJunk == {Pair(Table(11), Table(11))}

Virtual(half, a, b, c, d) == [half |-> half, idx |-> <<a, b, c, d>>]

\* The page of the lower half with number f.
Bit(f, k) == (f \div (2 ^ k)) % 2
Identical(f) == Virtual(0, Bit(f, 3), Bit(f, 2), Bit(f, 1), Bit(f, 0))
MCIdentity == [f \in Pool \cup {0} |-> Identical(f)]

\* A page whose tables are all there, two pages of one last table that is missing,
\* and one that misses two tables.
MCHigh == {Virtual(1, 1, 0, 0, 1), Virtual(1, 1, 0, 1, 0), Virtual(1, 1, 0, 1, 1),
           Virtual(1, 1, 1, 0, 0)}
MCCached == {Virtual(1, 1, 0, 1, 1), Virtual(1, 1, 1, 0, 0)}
MCComplete == {Virtual(1, 1, 0, 0, 1)}

\* A page of the lower half above bit 37: in the higher half the same indices
\* lead to a last table.
MCFar == {Virtual(0, 1, 0, 0, 1)}

MCRights == {{"W", "U"}}
==============================================================================
