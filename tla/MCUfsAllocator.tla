-------------------------- MODULE MCUfsAllocator --------------------------
(***************************************************************************)
(* Two groups of different length, neither a whole number of blocks, and   *)
(* the second as formatted, never written, or damaged.                     *)
(***************************************************************************)
EXTENDS UfsAllocator

MCMagic == {"valid", "pristine", "bad"}

============================================================================
