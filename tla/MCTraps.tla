------------------------------- MODULE MCTraps -------------------------------
(***************************************************************************)
(* Small instances of Traps: one exception of each sort, that is on amd64  *)
(* with a gate, without one, benign, severe and the double fault.          *)
(***************************************************************************)
EXTENDS Traps

MCFaults == [p \in Ports |-> IF p = "amd64" THEN {0, 1, 6, 8, 11, 13, 14, 16}
                             ELSE {0, 21, 33, 37}]
==============================================================================
