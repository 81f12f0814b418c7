------------------------------ MODULE Sectors ------------------------------
(***************************************************************************)
(* An image file as the tools see it: its length in 512-byte sectors and   *)
(* the runs of sectors something was written to (create_raw_image_skeleton *)
(* writes through a file handle, every other tool through the mapping of   *)
(* image.rs, whose writes reach the file at the same offsets).  A sector   *)
(* outside every run reads as zero, as in the sparse file set_len makes.   *)
(*                                                                         *)
(* A run is one structure: overwriting a part of it loses the whole.       *)
(***************************************************************************)
EXTENDS Integers, FiniteSets, Sequences

CONSTANT WordMod   \* how many values a 32-bit word has: 2 ^ 32

ASSUME WordAssumption == WordMod \in Nat \ {0}

SECTOR_SIZE == 512

\* "as u32" and "as i32": what is stored in a word and read back from it.
AsU32(x) == x % WordMod

AsI32(x) == IF AsU32(x) < WordMod \div 2 THEN AsU32(x) ELSE AsU32(x) - WordMod

\* Round up a quotient, and a value to a multiple.
DivCeil(a, b) == (a + b - 1) \div b

align_up(value, alignment) ==
  IF alignment = 0 THEN value ELSE DivCeil(value, alignment) * alignment

\* The structure "what" in the n sectors from "at" on.
Extent(at, n, what) == [at |-> at, n |-> n, what |-> what]

Apart(e, f) == e.at + e.n <= f.at \/ f.at + f.n <= e.at

Within(e, f) == f.at <= e.at /\ e.at + e.n <= f.at + f.n

Region(at, n) == [at |-> at, n |-> n]

\* OpenOptions::truncate(true) and set_len.
Blank(len) == [len |-> len, ext |-> {}]

\* What a run that begins at sector "at" holds; zeros read as no structure.
Zero == [kind |-> "zero"]

WhatAt(img, at) ==
  LET here == {e \in img.ext : e.at = at}
  IN  IF here = {} THEN Zero ELSE (CHOOSE e \in here : TRUE).what

\* slice.fill(0).
Fill0(img, region) == [img EXCEPT !.ext = {e \in @ : Apart(e, region)}]

\* write_at: runs that do not overlap each other; a file grows when it must.
Put(img, runs) ==
  LET ends == {e.at + e.n : e \in runs} \cup {img.len}
  IN  [len |-> CHOOSE m \in ends : \A x \in ends : x <= m,
       ext |-> {e \in img.ext : \A f \in runs : Apart(e, f)} \cup runs]

============================================================================
