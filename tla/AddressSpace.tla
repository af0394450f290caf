---------------------------- MODULE AddressSpace -----------------------------
(***************************************************************************)
(* What callers of mmu.c may count on, without tables or descriptors: an   *)
(* address space is a function from virtual pages to what they are mapped  *)
(* to, a request changes it at one page, and nothing else changes it.  The *)
(* promise may become void; then anything may happen.                      *)
(***************************************************************************)
CONSTANTS
  Addresses,   \* the virtual pages
  Results,     \* what callers map pages to: an address and rights
  NULL         \* not mapped

VARIABLES
  mapping,     \* what the processor finds for each page
  request,     \* the request being carried out, or NULL
  void         \* has the promise become void?

space_vars == <<mapping, request, void>>

\* Whatever the bootloader mapped.
SpaceInit ==
  /\ DOMAIN mapping = Addresses
  /\ request = NULL
  /\ ~void

\* A caller maps a page, or asks that it be mapped to nothing.
Ask(v, to) ==
  /\ ~void /\ request = NULL
  /\ request' = [vaddr |-> v, to |-> to]
  /\ UNCHANGED <<mapping, void>>

Apply ==
  /\ ~void /\ request # NULL
  /\ mapping' = [mapping EXCEPT ![request.vaddr] = request.to]
  /\ request' = NULL
  /\ UNCHANGED void

\* From then on nothing is promised.
Void == void'

SpaceNext == \/ \E v \in Addresses, to \in Results \cup {NULL} : Ask(v, to)
             \/ Apply \/ Void

SpaceSpec == SpaceInit /\ [][SpaceNext]_space_vars
==============================================================================
