--------------------------- MODULE MCUfsNamespace ---------------------------
(***************************************************************************)
(* Names of two record sizes; a block holds "." and ".." and one of them.  *)
(***************************************************************************)
EXTENDS UfsNamespace, TLC

MCNames == {"a", "boot"}

MCNameLen == [n \in MCNames |-> IF n = "a" THEN 1 ELSE 4]

\* Short names, for the runs in which directories do not grow.
MCShortLen == [n \in Names |-> 1]

\* Names of one length are alike.
Alike == Permutations(Names)

MCTarget == <<77>>

\* What is left in free fragments and free inodes is never read.
View ==
  <<img.a, img.ino, [f \in AllDataFrags \ img.a.free |-> img.store[f]], full>>

============================================================================
