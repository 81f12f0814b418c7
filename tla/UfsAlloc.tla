----------------------------- MODULE UfsAlloc -----------------------------
(***************************************************************************)
(* The allocation primitives of alloc.rs, as operators on the allocation   *)
(* state of an image: the two bitmaps, the cylinder-group headers and the  *)
(* superblock totals (cstotal).  Each primitive returns the new state and  *)
(* what the Rust function returns; the modules above chain them inside     *)
(* one atomic file-system operation.                                       *)
(***************************************************************************)
EXTENDS UfsGeometry, FiniteSetsExt

CONSTANT CountMod   \* the counters are u32 on disk: 2^32, smaller in a model

ASSUME CountModAssumption == CountMod \in Nat \ {0}

\* fs_dsize is itself read from such a field, and an inode number has to fit
\* the u32 of a directory record.
ASSUME WidthAssumption == DSize < CountMod /\ NCG * IPG <= CountMod

Count == 0 .. CountMod - 1

\* adjust_u32_at: (current + delta) as u32.
Adjust(count, delta) == (count + delta) % CountMod

\* A group header is valid, all zero (never written), or anything else.
Magic == {"valid", "pristine", "bad"}

AllocState ==
  [free   : SUBSET AllDataFrags,     \* cg_free, of every group
   used   : SUBSET Inode,            \* cg_iused, of every group
   magic  : [CG -> Magic],
   irotor : [CG -> 0 .. IPG - 1],
   nbfree : [CG -> Count],           \* cg_cs
   nifree : [CG -> Count],
   nffree : [CG -> Count],
   ndir   : [CG -> Count],
   total  : [nbfree : Count, nifree : Count, nffree : Count, ndir : Count]]

\* A slice whose groups were never written.
BlankAlloc ==
  LET zero == [cg \in CG |-> 0]
  IN  [free |-> {}, used |-> {}, magic |-> [cg \in CG |-> "pristine"],
       irotor |-> zero, nbfree |-> zero, nifree |-> zero, nffree |-> zero,
       ndir |-> zero,
       total |-> [nbfree |-> 0, nifree |-> 0, nffree |-> 0, ndir |-> 0]]

----------------------------------------------------------------------------
(* What the bitmaps say of a group.                                        *)

BlockFree(a, b) == Run(b, Frag) \subseteq a.free

FreeBlocks(a, cg) == {b \in DataBlocks[cg] : BlockFree(a, b)}

FreeInodes(a, cg) == InodesOf[cg] \ a.used

\* Free fragments of the group that are not part of a wholly free block.
LooseFrags(a, cg) ==
  {f \in DataFrags[cg] \cap a.free :
     \A b \in FreeBlocks(a, cg) : f \notin Run(b, Frag)}

----------------------------------------------------------------------------
(* Cylinder-group headers.                                                 *)

Reserved(cg) == IF cg = 0 THEN ReservedInodes ELSE {}

\* initialize_pristine_cg, applied to every group of C.
initialize_pristine_cgs(a, C) ==
  LET span(cg) == IF cg_ndblk(cg) > DBlkNo THEN cg_ndblk(cg) - DBlkNo ELSE 0
      set(f, new(_)) == [cg \in CG |-> IF cg \in C THEN new(cg) ELSE f[cg]]
      blocks(cg) == (span(cg) \div Frag) % CountMod
      frags(cg)  == (span(cg) % Frag) % CountMod
      inodes(cg) == (IPG - Cardinality(Reserved(cg))) % CountMod
      zero(cg)   == 0
      valid(cg)  == "valid"
  IN  [a EXCEPT !.free   = @ \cup UNION {DataFrags[cg] : cg \in C},
                !.used   = @ \cup UNION {Reserved(cg) : cg \in C},
                !.magic  = set(@, valid),
                !.irotor = set(@, zero),
                !.nbfree = set(@, blocks),
                !.nifree = set(@, inodes),
                !.nffree = set(@, frags),
                !.ndir   = set(@, zero)]

\* Mutant: a group is laid out whether or not it is pristine.
LayOutAlways(a, C) == initialize_pristine_cgs(a, C)

\* read_allocatable_cg_block for the groups of C: a group that was never
\* written is initialised on first touch; a bad one is left alone.
read_allocatable_cgs(a, C) ==
  LET pristine == {cg \in C : a.magic[cg] = "pristine"}
  IN  IF pristine = {} THEN a ELSE initialize_pristine_cgs(a, pristine)

\* The search loops: groups are visited cyclically from start until one has
\* room.  Every visited group is made allocatable, the last one included.
Search(a, start, HasRoom(_, _)) ==
  LET attempts(ready) == {k \in 0 .. NCG - 1 : HasRoom(ready, Visit(start, k))}
      visited(stop) == {Visit(start, k) : k \in 0 .. stop}
      at(hits, stop) == [found |-> hits # {},
                         cg    |-> Visit(start, stop),
                         a     |-> read_allocatable_cgs(a, visited(stop))]
      end(hits) == at(hits, IF hits = {} THEN NCG - 1 ELSE Min(hits))
  IN  end(attempts(read_allocatable_cgs(a, CG)))

----------------------------------------------------------------------------
(* Inodes.                                                                 *)

NoInode == -1

InodeRoom(a, cg) ==
  a.magic[cg] = "valid" /\ a.nifree[cg] # 0 /\ FreeInodes(a, cg) # {}

\* The inode allocate_inode takes in group cg: the preferred one when it is
\* free and this is the first group tried, else the first free inode at or
\* after the group's rotor, cyclically.
ChooseInode(a, cg, start, pref) ==
  LET distance(i) == (LocalInode(i) - a.irotor[cg]) % IPG
  IN  IF cg = start /\ pref # NoInode /\ pref \in FreeInodes(a, cg)
        THEN pref
        ELSE CHOOSE i \in FreeInodes(a, cg) :
               \A j \in FreeInodes(a, cg) : distance(i) <= distance(j)

\* allocate_inode.  pref is NoInode when the caller has no preference.
allocate_inode(a, pref, directory) ==
  LET start == IF pref = NoInode THEN 0 ELSE itog(pref)
      d     == IF directory THEN 1 ELSE 0
      take(s, i) ==
        IF ~s.found
          THEN [ok |-> FALSE, ino |-> NoInode, a |-> s.a]
          ELSE [ok |-> TRUE, ino |-> i,
                a  |-> [s.a EXCEPT !.used = @ \cup {i},
                                   !.irotor[s.cg] = LocalInode(i),
                                   !.nifree[s.cg] = Adjust(@, -1),
                                   !.ndir[s.cg] = Adjust(@, d),
                                   !.total.nifree = Adjust(@, -1),
                                   !.total.ndir = Adjust(@, d)]]
      from(s) == take(s, ChooseInode(s.a, s.cg, start, pref))
  IN  from(Search(a, start, InodeRoom))

\* Mutant: the superblock total is not adjusted.
FreeInodeGroupOnly(a, ino, directory) ==
  IF a.magic[itog(ino)] # "valid" \/ ino \notin a.used
    THEN [ok |-> FALSE, a |-> a]
    ELSE [ok |-> TRUE, a |-> [a EXCEPT !.used = @ \ {ino},
                                       !.nifree[itog(ino)] = Adjust(@, 1)]]

\* free_inode.
free_inode(a, ino, directory) ==
  LET cg == itog(ino)
      d  == IF directory THEN -1 ELSE 0
  IN  IF a.magic[cg] # "valid" \/ ino \notin a.used
        THEN [ok |-> FALSE, a |-> a]
        ELSE [ok |-> TRUE,
              a  |-> [a EXCEPT !.used = @ \ {ino},
                               !.nifree[cg] = Adjust(@, 1),
                               !.ndir[cg] = Adjust(@, d),
                               !.total.nifree = Adjust(@, 1),
                               !.total.ndir = Adjust(@, d)]]

----------------------------------------------------------------------------
(* Blocks and fragment runs.                                               *)

NoBlock == 0

BlockRoom(a, cg) == a.magic[cg] = "valid" /\ FreeBlocks(a, cg) # {}

\* Mutant: the whole block is marked although n fragments are handed out.
TakeWholeBlock(a, ino, n) ==
  LET take(s, b) ==
        IF ~s.found
          THEN [ok |-> FALSE, blk |-> NoBlock, a |-> s.a]
          ELSE [ok |-> TRUE, blk |-> b,
                a  |-> [s.a EXCEPT !.free = @ \ Run(b, Frag),
                                   !.nbfree[s.cg] = Adjust(@, -1),
                                   !.total.nbfree = Adjust(@, -1)]]
      from(s) == take(s, Min(FreeBlocks(s.a, s.cg)))
  IN  from(Search(a, itog(ino), BlockRoom))

\* allocate_block (n = Frag) and allocate_fragments (n < Frag): both take the
\* first wholly free block of the first group that has one, mark its first n
\* fragments, and count one free block less.  Zeroing is the caller's (the
\* allocation state has no contents).
TakeRun(a, ino, n) ==
  LET take(s, b) ==
        IF ~s.found
          THEN [ok |-> FALSE, blk |-> NoBlock, a |-> s.a]
          ELSE [ok |-> TRUE, blk |-> b,
                a  |-> [s.a EXCEPT !.free = @ \ Run(b, n),
                                   !.nbfree[s.cg] = Adjust(@, -1),
                                   !.total.nbfree = Adjust(@, -1)]]
      from(s) == take(s, Min(FreeBlocks(s.a, s.cg)))
  IN  from(Search(a, itog(ino), BlockRoom))

\* allocate_allocation, with the size checks of allocate_fragments.
allocate_allocation(a, ino, n) ==
  IF n <= 0 \/ n > Frag
    THEN [ok |-> FALSE, blk |-> NoBlock, a |-> a]
    ELSE TakeRun(a, ino, n)

\* free_block: no check that the block is in use.
free_block(a, b) ==
  LET cg == dtog(b)
  IN  IF a.magic[cg] # "valid"
        THEN [ok |-> FALSE, a |-> a]
        ELSE [ok |-> TRUE,
              a  |-> [a EXCEPT !.free = @ \cup Run(b, Frag),
                               !.nbfree[cg] = Adjust(@, 1),
                               !.total.nbfree = Adjust(@, 1)]]

\* The aligned block that fragment b lies in.
BlockBase(b) == b - ((b - cgbase(dtog(b))) % Frag)

\* Mutant: a block that becomes whole again is not counted.
FreeUncounted(a, b, n) ==
  IF a.magic[dtog(b)] # "valid" THEN [ok |-> FALSE, a |-> a]
  ELSE [ok |-> TRUE, a |-> [a EXCEPT !.free = @ \cup Run(b, n)]]

\* The fragment branch of free_allocation: the block counts as free again
\* only once all its fragments are.
free_fragments(a, b, n) ==
  LET cg    == dtog(b)
      freed == [a EXCEPT !.free = @ \cup Run(b, n)]
  IN  IF a.magic[cg] # "valid"
        THEN [ok |-> FALSE, a |-> a]
        ELSE [ok |-> TRUE,
              a  |-> IF BlockFree(freed, BlockBase(b))
                       THEN [freed EXCEPT !.nbfree[cg] = Adjust(@, 1),
                                          !.total.nbfree = Adjust(@, 1)]
                       ELSE freed]

\* free_allocation.
free_allocation(a, b, n) ==
  IF n <= 0 THEN [ok |-> TRUE, a |-> a]
  ELSE IF n = Frag THEN free_block(a, b)
  ELSE free_fragments(a, b, n)

----------------------------------------------------------------------------
(* recompute_summary_counts: dirs are the inodes whose mode on disk is a   *)
(* directory.  Groups are normalised in order up to the first bad one,     *)
(* which ends the pass with an error and leaves cstotal as it was.         *)

\* expected_cg_header, the four counts it derives from the bitmaps.
CountInodes(a, cg) ==
  IPG - Cardinality(Reserved(cg))
      - Cardinality((a.used \cap InodesOf[cg]) \ Reserved(cg))

\* Mutant: every used inode counts as a directory.
CountAllUsed(a, cg, dirs) ==
  Cardinality((a.used \cap InodesOf[cg]) \ Reserved(cg))

CountDirs(a, cg, dirs) ==
  Cardinality((a.used \cap InodesOf[cg] \cap dirs) \ Reserved(cg))

\* The sums over all groups that go into cstotal.  Groups share no block,
\* fragment or inode, so a sum of counts is the count of the union.
SumOfCounts(a, dirs) ==
  [nbfree |-> Cardinality(UNION {FreeBlocks(a, cg) : cg \in CG}) % CountMod,
   nifree |-> Cardinality(Inode \ (a.used \cup ReservedInodes)) % CountMod,
   nffree |-> Cardinality(UNION {LooseFrags(a, cg) : cg \in CG}) % CountMod,
   ndir   |-> Cardinality((a.used \cap dirs) \ ReservedInodes) % CountMod]

\* The groups of done are recounted in r; the totals, if that is all of them.
Recount(r, done, dirs) ==
  LET redo(f, new(_)) == [cg \in CG |-> IF cg \in done THEN new(cg) % CountMod
                                                       ELSE f[cg]]
      blocks(cg) == Cardinality(FreeBlocks(r, cg))
      inodes(cg) == CountInodes(r, cg)
      frags(cg)  == Cardinality(LooseFrags(r, cg))
      ndirs(cg)  == CountDirs(r, cg, dirs)
      counted == [r EXCEPT !.nbfree = redo(@, blocks),
                           !.nifree = redo(@, inodes),
                           !.nffree = redo(@, frags),
                           !.ndir   = redo(@, ndirs)]
  IN  IF done # CG
        THEN [ok |-> FALSE, a |-> counted]
        ELSE [ok |-> TRUE,
              a  |-> [counted EXCEPT !.total = SumOfCounts(r, dirs)]]

recompute_summary_counts(a, dirs) ==
  LET bad  == {cg \in CG : a.magic[cg] = "bad"}
      done == IF bad = {} THEN CG ELSE 0 .. Min(bad) - 1
  IN  Recount(read_allocatable_cgs(a, done), done, dirs)

============================================================================
