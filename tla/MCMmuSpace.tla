------------------------------ MODULE MCMmuSpace ------------------------------
(***************************************************************************)
(* The instance of MCMmu whose targets lie in the higher half, where the   *)
(* bootloader has mapped nothing: it meets what the theorems of MmuProofs  *)
(* assume of the bootloader.                                               *)
(***************************************************************************)
EXTENDS MCMmu

ASSUME BootAssumption == BootSound /\ BootBlocks
==============================================================================
