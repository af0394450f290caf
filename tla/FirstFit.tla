------------------------------ MODULE FirstFit -------------------------------
(***************************************************************************)
(* What callers of pmm.c may count on, without bitmap, start bit or scan:  *)
(* there is a set of free frames, and a request for n frames is answered   *)
(* with the lowest run of n consecutive free frames, or refused only if    *)
(* there is no such run.                                                   *)
(*                                                                         *)
(* The promise says nothing about ownership: as in pmm_alloc, an answer    *)
(* does not withdraw the run from the free frames.                         *)
(***************************************************************************)
EXTENDS Integers, FiniteSetsExt

CONSTANTS Callers, Requests, NULL

VARIABLES
  open,      \* has the boot code published the free frames?
  free,      \* the free frames
  request,   \* the request being answered, or NULL
  held       \* per caller: the run it was given, or NULL

abs_vars == <<open, free, request, held>>

\* A request for no frames at all is served like a request for one.
Need(n) == IF n = 0 THEN 1 ELSE n

\* Where a run of n free frames starts.
RunStarts(n) == {b \in free : b .. (b + Need(n) - 1) \subseteq free}

AbsInit ==
  /\ ~open
  /\ free = {}
  /\ request = NULL
  /\ held = [c \in Callers |-> NULL]

\* The free frames are made known once; the frame at address 0 is not one.
Publish ==
  /\ ~open /\ open'
  /\ free' \subseteq Nat \ {0}
  /\ UNCHANGED <<request, held>>

Ask(c, n) ==
  /\ open /\ request = NULL
  /\ held[c] = NULL
  /\ request' = [caller |-> c, frames |-> n]
  /\ UNCHANGED <<open, free, held>>

Grant ==
  /\ request # NULL
  /\ RunStarts(request.frames) # {}
  /\ held' = [held EXCEPT ![request.caller] =
                [base |-> Min(RunStarts(request.frames)), frames |-> request.frames]]
  /\ request' = NULL
  /\ UNCHANGED <<open, free>>

Refuse ==
  /\ request # NULL
  /\ RunStarts(request.frames) = {}
  /\ request' = NULL
  /\ UNCHANGED <<open, free, held>>

GiveBack(c) ==
  /\ open /\ request = NULL
  /\ held[c] # NULL
  /\ free' = free \cup (held[c].base .. (held[c].base + held[c].frames - 1))
  /\ held' = [held EXCEPT ![c] = NULL]
  /\ UNCHANGED <<open, request>>

AbsNext == \/ Publish \/ Grant \/ Refuse
           \/ \E c \in Callers, n \in Requests : Ask(c, n)
           \/ \E c \in Callers : GiveBack(c)

\* That every request is answered is not said here: it is AllocReturns of Pmm.
AbsSpec == AbsInit /\ [][AbsNext]_abs_vars
==============================================================================
