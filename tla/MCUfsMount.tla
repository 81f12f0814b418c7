----------------------------- MODULE MCUfsMount -----------------------------
(***************************************************************************)
(* Short names, so that the root directory stays in one block: its growth  *)
(* is the subject of MCUfsNamespace.                                       *)
(***************************************************************************)
EXTENDS UfsMount

MCNames == {"a", "b"}

MCNameLen == [n \in MCNames |-> 1]

MCTarget == <<77>>

\* What is left in free fragments is never read.
View ==
  <<img.a, img.ino, [f \in AllDataFrags \ img.a.free |-> img.store[f]], full,
    handles, buffers, kopen, phase, want>>

============================================================================
