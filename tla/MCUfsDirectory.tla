--------------------------- MODULE MCUfsDirectory ---------------------------
(***************************************************************************)
(* Names of three record sizes (12, 16 and 20 bytes) in blocks that hold   *)
(* three or four records.                                                  *)
(***************************************************************************)
EXTENDS UfsDirectory

MCNames == {"a", "boot", "swap", "dev_zero"}

MCNameLen == [n \in MCNames |-> CASE n = "a" -> 1
                                  [] n = "boot" -> 4
                                  [] n = "swap" -> 4
                                  [] n = "dev_zero" -> 8]

============================================================================
