------------------------------ MODULE UfsFiles ------------------------------
(***************************************************************************)
(* Several files of one volume whose contents are replaced, cut, extended  *)
(* and freed in any order, until the volume is full (set_inode_contents,   *)
(* truncate, apply_inode_write, free_inode_contents of write.rs).          *)
(*                                                                         *)
(* want is what the last successful call wrote to each file.  A call that  *)
(* runs out of space returns an error with its work half done: the inode   *)
(* still names blocks that were freed.  failed remembers the files it ever *)
(* happened to and the size asked for.  The calls go on: on the other      *)
(* files, and on those of Retried, as the daemon's release commits a file  *)
(* once more after a failed flush, while they have no pointer blocks.      *)
(* Those may hold data by then, which the program takes for block numbers; *)
(* what it does with them is not followed.                                 *)
(***************************************************************************)
EXTENDS UfsBlockCheck

CONSTANTS
  Files,     \* the inodes written to
  Tags,      \* distinguishes the contents of two writes
  Sizes,     \* the sizes a file may have: bounds the model
  Retried    \* the files that are called again after a refused call

ASSUME FilesAssumption ==
  /\ Files \subseteq Inode \ (ReservedInodes \cup {RootInode})
  /\ Tags \subseteq Nat \ {0}
  /\ Sizes \subseteq Nat /\ 0 \in Sizes
  /\ Retried \subseteq Files

VARIABLES
  img,       \* the image
  want,      \* [Files -> Seq of cells]: what each file should contain
  failed     \* [Files -> size]: what a refused call asked for, or NotRefused

vars == <<img, want, failed>>

NotRefused == -1

Refused == {f \in Files : failed[f] # NotRefused}

\* Cell k of a file written with a tag: no two cells of a file are alike.
Cell(tag, k) == tag * 1000 + k

Contents(tag, n) == [k \in 1 .. n |-> Cell(tag, k)]

----------------------------------------------------------------------------

TypeOK ==
  /\ img.a \in AllocState
  /\ DOMAIN img.ino = Inode
  /\ \A i \in Inode : /\ img.ino[i].mode \in InodeMode
                      /\ img.ino[i].size \in Sizes
                      /\ Len(img.ino[i].db) = NDADDR
                      /\ Len(img.ino[i].ib) = NIADDR
  /\ DOMAIN img.store = AllDataFrags
  /\ failed \in [Files -> Sizes \cup {NotRefused}]

\* A formatted volume (without its root directory) with empty files on it.
EmptyVolume ==
  LET laid == initialize_pristine_cgs(BlankAlloc, CG)
  IN  recompute_summary_counts([laid EXCEPT !.used = @ \cup Files], {}).a

Init ==
  /\ img = [a |-> EmptyVolume,
            ino |-> [i \in Inode |-> IF i \in Files THEN NewInode("file", 1)
                                     ELSE ClearedInode],
            store |-> [f \in AllDataFrags |-> ZeroCell]]
  /\ want = [f \in Files |-> << >>]
  /\ failed = [f \in Files |-> NotRefused]

----------------------------------------------------------------------------

\* What a call on file f leaves behind: on success f has the contents data.
Outcome(f, r, data) ==
  /\ img' = r.img
  /\ failed' = [failed EXCEPT ![f] = IF r.ok THEN @ ELSE Len(data)]
  /\ want' = IF r.ok THEN [want EXCEPT ![f] = data] ELSE want

Called(f) ==
  f \in Refused => f \in Retried /\ \A k \in 1 .. NIADDR : img.ino[f].ib[k] = 0

Replace(f, tag, n) ==
  /\ Called(f)
  /\ Outcome(f, set_inode_contents(img, f, Contents(tag, n)), Contents(tag, n))

Truncate(f, n) ==
  /\ Called(f)
  /\ Outcome(f, truncate(img, f, n),
             [k \in 1 .. n |-> IF k <= Len(want[f]) THEN want[f][k]
                               ELSE ZeroCell])

\* The one use of apply_inode_write: a directory grows by one cell.
Grow(f, tag) ==
  /\ Called(f)
  /\ Len(want[f]) + 1 \in Sizes
  /\ LET cell == <<Cell(tag, Len(want[f]) + 1)>>
     IN  Outcome(f, apply_inode_write(img, f, img.ino[f].size, cell),
                 want[f] \o cell)

Unmount ==
  /\ img' = [img EXCEPT !.a = recompute_summary_counts(@, {}).a]
  /\ UNCHANGED <<want, failed>>

Next ==
  \/ \E f \in Files, tag \in Tags, n \in Sizes : Replace(f, tag, n)
  \/ \E f \in Files, n \in Sizes : Truncate(f, n)
  \/ \E f \in Files, tag \in Tags : Grow(f, tag)
  \/ Unmount

Spec == Init /\ [][Next]_vars

----------------------------------------------------------------------------

\* Every file reads back as what was last written to it, whatever was freed
\* and reallocated around it and however many levels of indirection it has.
\* The files other than those whose call was refused stay intact, and so do
\* the writes made to them afterwards, into blocks the refused ones name.
ReadBack ==
  \A f \in Files \ Refused : read_inode_bytes(img, f) = want[f]

\* check_filesystem finds nothing while no call has failed: no fragment
\* belongs to two runs, the bitmap marks exactly the claimed fragments, the
\* block count of an inode is what it claims, and the totals are right.
FilesClean ==
  Refused = {} => InodesClean(img) /\ BitmapClean(img) /\ TotalsClean(img)


\* The blocks a file of n cells needs, pointer blocks included.
RoomNeeded(n) ==
  LET data == BlocksNeeded(n)
      over(l) == IF data > l THEN data - l ELSE 0
      roof(x, y) == (x + y - 1) \div y
      one == IF NIADDR > 0 /\ over(NDADDR) > 0 THEN 1 ELSE 0
      two == LET k == MinOf(over(NDADDR + NINDIR), NINDIR * NINDIR)
             IN  IF NIADDR < 2 \/ k = 0 THEN 0 ELSE 1 + roof(k, NINDIR)
      three == LET k == over(NDADDR + NINDIR + NINDIR * NINDIR)
               IN  IF NIADDR < 3 \/ k = 0 THEN 0
                   ELSE 1 + roof(k, NINDIR) + roof(k, NINDIR * NINDIR)
  IN  data + one + two + three

\* A call fails only if the volume could not hold the result: the blocks the
\* new contents need exceed those free once the old ones are returned.
FailsOnlyWhenFull ==
  [][\A f \in Files :
       f \in Refused' \ Refused =>
         RoomNeeded(failed'[f]) >
           img.a.total.nbfree + Len(ClaimedRuns(img, f))]_vars

----------------------------------------------------------------------------
(* svr4-ufs-mount says of whole-file replacement that it keeps the image   *)
(* "fsck-clean".                                                           *)

\* The image is clean after every call, the failing ones included.
CleanAfterEveryCall == InodesClean(img) /\ BitmapClean(img)

============================================================================
