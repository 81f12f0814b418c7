----------------------------- MODULE MCUfsFiles -----------------------------
(***************************************************************************)
(* What is left in a fragment after it was freed is never read again: it   *)
(* is zeroed when it is next allocated.  Nor does any later call depend on *)
(* the size a refused one asked for.  The view leaves both out.            *)
(***************************************************************************)
EXTENDS UfsFiles

View ==
  <<img.a, img.ino, [f \in AllDataFrags \ img.a.free |-> img.store[f]],
    want, Refused>>

============================================================================
