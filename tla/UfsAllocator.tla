--------------------------- MODULE UfsAllocator ---------------------------
(***************************************************************************)
(* The allocator of alloc.rs as a state machine: any sequence of calls the *)
(* file layer above may make.  The image's allocation state is a; held and *)
(* dirs are what the callers remember of their calls (the inodes' block    *)
(* lists, and which inodes they allocated as directories).                 *)
(***************************************************************************)
EXTENDS UfsAlloc

CONSTANT InitMagic   \* what a group other than the first may look like

ASSUME InitMagicAssumption == InitMagic \subseteq Magic /\ InitMagic # {}

VARIABLES
  a,      \* the allocation state of the image
  held,   \* [Block -> 0..Frag]: fragments the callers hold of each block
  dirs    \* the inodes allocated as directories

vars == <<a, held, dirs>>

\* The states of the types the program declares.
TypeOK ==
  /\ a \in AllocState
  /\ held \in [Block -> 0 .. Frag]
  /\ dirs \subseteq Inode

----------------------------------------------------------------------------
(* A group in state "pristine" is all zero on disk, yet its space is free: *)
(* the allocator lays it out when it first visits it.  What such a group   *)
(* is worth is what it holds once laid out.                                *)

Settled == read_allocatable_cgs(a, CG)

GoodGroups == {cg \in CG : a.magic[cg] # "bad"}

----------------------------------------------------------------------------
(* A volume as format leaves it: every group laid out, the root inode      *)
(* marked used, one fragment allocated for the root directory, and the     *)
(* counts recomputed.                                                      *)

FormattedAlloc ==
  LET laid   == initialize_pristine_cgs(BlankAlloc, CG)
      marked == [laid EXCEPT !.used = @ \cup {RootInode}]
      rooted == allocate_allocation(marked, RootInode, 1).a
  IN  recompute_summary_counts(rooted, {RootInode}).a

\* Groups after the first may never have been written (older tools leave
\* them all zero while cstotal counts them as free) or be damaged.
Unwritten(s, magic) ==
  LET C == {cg \in CG : magic[cg] # "valid"}
      keep(f) == [cg \in CG |-> IF cg \in C THEN 0 ELSE f[cg]]
  IN  [s EXCEPT !.free   = @ \ UNION {DataFrags[cg] : cg \in C},
                !.magic  = magic,
                !.nbfree = keep(@), !.nifree = keep(@),
                !.nffree = keep(@), !.ndir = keep(@)]

Init ==
  /\ \E magic \in [CG -> InitMagic \cup {"valid"}] :
       magic[0] = "valid" /\ a = Unwritten(FormattedAlloc, magic)
  /\ held = [b \in Block |-> IF b = DBlkNo THEN 1 ELSE 0]
  /\ dirs = {RootInode}

----------------------------------------------------------------------------
(* One action per entry point.                                             *)

Callers == Inode \ ReservedInodes

AllocateInode(pref, directory) ==
  LET r == allocate_inode(a, pref, directory)
  IN  /\ a' = r.a
      /\ dirs' = IF r.ok /\ directory THEN dirs \cup {r.ino} ELSE dirs
      /\ UNCHANGED held

FreeInode(ino) ==
  LET r == free_inode(a, ino, ino \in dirs)
  IN  /\ a' = r.a
      /\ dirs' = IF r.ok THEN dirs \ {ino} ELSE dirs
      /\ UNCHANGED held

Allocate(ino, n) ==
  LET r == allocate_allocation(a, ino, n)
  IN  /\ a' = r.a
      /\ held' = IF r.ok THEN [held EXCEPT ![r.blk] = n] ELSE held
      /\ UNCHANGED dirs

Free(b) ==
  /\ held[b] > 0
  /\ LET r == free_allocation(a, b, held[b])
     IN  /\ a' = r.a
         /\ held' = IF r.ok THEN [held EXCEPT ![b] = 0] ELSE held
         /\ UNCHANGED dirs

Recompute ==
  LET r == recompute_summary_counts(a, dirs)
  IN  /\ a' = r.a
      /\ UNCHANGED <<held, dirs>>

Next ==
  \/ \E pref \in Callers \cup {NoInode}, d \in BOOLEAN : AllocateInode(pref, d)
  \/ \E ino \in Callers \ {RootInode} : FreeInode(ino)
  \/ \E ino \in Callers, n \in 1 .. Frag : Allocate(ino, n)
  \/ \E b \in Block : Free(b)
  \/ Recompute

Spec == Init /\ [][Next]_vars

----------------------------------------------------------------------------
(* Safety.                                                                 *)

\* A fragment of a block is in use on disk exactly when a caller holds it,
\* after any sequence of calls: no allocation is handed out twice (the
\* second caller's run would still be free for the first), none leaks and
\* no free releases a neighbour (set_frag_state in allocate_block,
\* allocate_fragments, free_block, free_allocation).
HeldExact ==
  \A b \in Block :
    /\ a.magic[dtog(b)] = "valid" =>
         Run(b, Frag) \ a.free = Run(b, held[b])
    /\ held[b] > 0 => a.magic[dtog(b)] = "valid"

\* The counters each call adjusts by one stay equal to a recount of the
\* bitmaps, although a group can be laid out lazily in between.
GroupCountsExact ==
  \A cg \in CG : a.magic[cg] = "valid" =>
    /\ a.nbfree[cg] = Cardinality(FreeBlocks(a, cg))
    /\ a.nifree[cg] = Cardinality(FreeInodes(a, cg))
    /\ a.ndir[cg] = Cardinality(dirs \cap InodesOf[cg])

\* The superblock totals, which no call reads back, agree with the groups:
\* a group that is still pristine counts with all its space.
TotalsExact ==
  GoodGroups = CG =>
    /\ a.total.nbfree = Cardinality({b \in Block : BlockFree(Settled, b)})
    /\ a.total.nifree = Cardinality(Inode \ Settled.used)
    /\ a.total.ndir = Cardinality(dirs)

\* A caller is refused only when nothing is left in any usable group: the
\* search visits them all, and the cached nifree by which allocate_inode
\* skips a group never hides a free inode.
RefusalExact ==
  /\ \A ino \in Callers :
       allocate_allocation(a, ino, 1).ok <=>
         \E cg \in GoodGroups : FreeBlocks(Settled, cg) # {}
  /\ \A ino \in Callers \cup {NoInode} :
       allocate_inode(a, ino, FALSE).ok <=>
         \E cg \in GoodGroups : FreeInodes(Settled, cg) # {}

\* recompute_summary_counts, which counts from scratch, finds nothing to
\* correct in the block, inode and directory counts of a laid-out group or
\* in the totals: only the fragment counts can change under it.  When a
\* damaged group ends the pass after some groups were rewritten, no partial
\* sum reaches the totals.
RecomputeConfirms ==
  [][Recompute =>
       /\ \A cg \in CG : a.magic[cg] = "valid" =>
            /\ a'.nbfree[cg] = a.nbfree[cg]
            /\ a'.nifree[cg] = a.nifree[cg]
            /\ a'.ndir[cg] = a.ndir[cg]
       /\ a'.total.nbfree = a.total.nbfree
       /\ a'.total.nifree = a.total.nifree
       /\ a'.total.ndir = a.total.ndir
       /\ GoodGroups # CG => a'.total = a.total]_vars

Pool == INSTANCE BlockPool WITH
  Blocks <- Block,
  BlockLen <- Frag,
  Usable <- AllDataFrags,
  avail <- UNION {DataFrags[cg] \cap Settled.free : cg \in GoodGroups}

\* The allocator implements the pool of BlockPool: groups, search order,
\* lazy layout and counters are invisible to a caller.
ImplementsPool == Pool!PoolSpec

============================================================================
