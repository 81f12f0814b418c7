--------------------------- MODULE UfsBlockCheck ---------------------------
(***************************************************************************)
(* check_filesystem of check.rs, the passes that need no directories: what *)
(* the inodes claim against the bitmaps, and the totals against the        *)
(* groups.  Each pass is TRUE when it finds no problem.                    *)
(***************************************************************************)
EXTENDS UfsInode

UsedInodes(img) == img.a.used \ ReservedInodes

\* The runs of fragments an inode claims, pairs of address and length.
ClaimedRuns(img, ino) ==
  LET data == inode_data_blocks(img, ino)
      size == allocation_sizes(img.ino[ino].size)
      ptrs == inode_pointer_blocks(img, ino)
  IN  [i \in 1 .. Len(data) |->
         <<data[i], IF i <= Len(size) THEN size[i] ELSE Frag>>] \o
      [i \in 1 .. Len(ptrs) |-> <<ptrs[i], Frag>>]

\* Those of the inodes in S, in the order of the inode table.
RunsOf(img, S) ==
  FlattenSeq([k \in 1 .. NCG * IPG |->
                IF k - 1 \in S THEN ClaimedRuns(img, k - 1) ELSE << >>])

\* The fragments of a list of runs, and how many the runs have in all.
RunFrags(runs) == UNION {Run(runs[i][1], runs[i][2]) : i \in DOMAIN runs}

RunLength(runs) == SumSeq([i \in DOMAIN runs |-> runs[i][2]])

\* claim_run: no fragment is claimed twice exactly when the counts agree.
Disjoint(runs) == RunLength(runs) = Cardinality(RunFrags(runs))

\* Pass 1: what each used inode claims.
InodesClean(img) ==
  LET runs == RunsOf(img, UsedInodes(img))
  IN  /\ Disjoint(runs)
      /\ RunFrags(runs) \subseteq 0 .. DSize - 1
      /\ \A i \in UsedInodes(img) :
           /\ Len(inode_data_blocks(img, i)) =
                Len(allocation_sizes(img.ino[i].size))
           /\ img.ino[i].blocks = RunLength(ClaimedRuns(img, i))

\* Pass 2: the bitmap marks exactly the claimed fragments.
BitmapClean(img) ==
  RunFrags(RunsOf(img, UsedInodes(img))) \cap AllDataFrags =
    AllDataFrags \ img.a.free

\* Pass 4: the totals are the sums of the groups' counts.
TotalsClean(img) ==
  LET sum(f) == MapThenSumSet(LAMBDA cg : f[cg], CG)
  IN  img.a.total = [nbfree |-> sum(img.a.nbfree), nifree |-> sum(img.a.nifree),
                     nffree |-> sum(img.a.nffree), ndir |-> sum(img.a.ndir)]

============================================================================
