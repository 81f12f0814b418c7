---------------------------- MODULE UfsGeometry ----------------------------
(***************************************************************************)
(* The layout of a formatted UFS volume, as superblock.rs derives it from  *)
(* the superblock.  Addresses are fragment numbers, as on disk: group cg   *)
(* owns the fragments cg*FPG .. (cg+1)*FPG - 1, its metadata (cylinder     *)
(* group block, inode area) fills the first DBlkNo of them, and its data   *)
(* blocks follow, each an aligned window of Frag fragments.  A group may   *)
(* end in fewer than Frag fragments, and the last group may be short.      *)
(*                                                                         *)
(* Sizes are counted in fragments: the formatter makes a fragment one      *)
(* 512-byte sector, which is also the size of a directory block.           *)
(***************************************************************************)
EXTENDS Integers, FiniteSets, Sequences

CONSTANTS
  NCG,      \* fs_ncg: cylinder groups
  FPG,      \* fs_fpg: fragments per group
  IPG,      \* fs_ipg: inodes per group
  Frag,     \* fs_frag: fragments per block
  DBlkNo,   \* fs_dblkno: first data fragment of a group, within the group
  DSize     \* fs_dsize: fragments of the volume

ASSUME GeometryAssumption ==
  /\ NCG \in Nat \ {0}
  /\ FPG \in Nat \ {0}
  /\ IPG \in Nat /\ IPG > 2
  /\ Frag \in Nat \ {0}
  /\ DBlkNo \in Nat \ {0} /\ DBlkNo % Frag = 0
  /\ DSize \in Nat
  /\ DBlkNo + Frag <= FPG /\ DBlkNo + Frag <= DSize   \* the root directory fits

CG == 0 .. NCG - 1

Inode == 0 .. NCG * IPG - 1

\* Inodes 0 and 1 are never handed out; 2 is the root directory.
ReservedInodes == {0, 1}

RootInode == 2

----------------------------------------------------------------------------
(* The superblock macros.                                                  *)

itog(ino) == ino \div IPG

\* Mutant: the number within the group is not reduced.
LocalInodeUnreduced(ino) == ino

\* The number of an inode within its group.
LocalInode(ino) == ino % IPG

dtog(b) == b \div FPG

cgbase(cg) == FPG * cg

InodesOf == [cg \in CG |-> {i \in Inode : itog(i) = cg}]

\* cg_data_frag_count: the fragments of group cg, fewer in the last group.
cg_ndblk(cg) ==
  LET remaining == DSize - cgbase(cg)
  IN  IF remaining <= 0 THEN 0 ELSE IF FPG <= remaining THEN FPG ELSE remaining

\* The fragments of group cg that hold data.
DataFrags ==
  [cg \in CG |-> cgbase(cg) + DBlkNo .. cgbase(cg) + cg_ndblk(cg) - 1]

AllDataFrags == UNION {DataFrags[cg] : cg \in CG}

\* The n fragments from address b on.
Run(b, n) == b .. b + n - 1

\* The whole blocks the allocator scans in group cg: aligned windows that
\* start at the first data fragment and end inside the group.
DataBlocks ==
  [cg \in CG |->
     {b \in DataFrags[cg] : /\ (b - cgbase(cg)) % Frag = 0
                            /\ b + Frag <= cgbase(cg) + cg_ndblk(cg)}]

Block == UNION {DataBlocks[cg] : cg \in CG}

\* Mutant: the search does not wrap around.
VisitNoWrap(start, attempt) ==
  IF start + attempt < NCG THEN start + attempt ELSE NCG - 1

\* The groups in the order a search from group start visits them.
Visit(start, attempt) == (start + attempt) % NCG

============================================================================
