----------------------------- MODULE UfsFormat -----------------------------
(***************************************************************************)
(* The UFS formatter (format.rs) at its real sizes: how it cuts a slice    *)
(* into cylinder groups and which sectors it writes.  A fragment is one    *)
(* sector, so addresses within the slice are fragment numbers.  What the   *)
(* groups and the root directory then hold is the business of UfsAlloc and *)
(* UfsNames (FormattedImage).                                              *)
(***************************************************************************)
EXTENDS Sectors

UFS_SB_SECTOR   == 16     \* UFS_SB_OFFSET, in sectors
UFS_SB_SECTORS  == 16     \* UFS_SB_SIZE, also the largest block
UFS_DINODE_SIZE == 128
UFS_CSUM_SIZE   == 16
UFS_CG_FREE_OFFSET == 984 \* where the block bitmap starts in a group block
MAXCPG == 32
MAXIPG == 2048

SUMMARY_BLOCK_NUMBER == 4
CG_BLOCK_NUMBER      == 5
INODE_BLOCK_NUMBER   == 6

Lesser(a, b)  == IF a <= b THEN a ELSE b
Greater(a, b) == IF a >= b THEN a ELSE b

----------------------------------------------------------------------------
(* The layout of a slice of "size" sectors.  opts holds block_size,        *)
(* bytes_per_inode, tracks_per_cylinder and sectors_per_track.             *)

spc(opts) == opts.tracks_per_cylinder * opts.sectors_per_track

\* Cylinders one group's block bitmap can describe.
max_cylinders_per_group(opts) ==
  ((opts.block_size - UFS_CG_FREE_OFFSET) * 8) \div spc(opts)

\* The checks that come before the layout; img is the whole image.
Acceptable(img, base, size, opts) ==
  /\ size > 0
  /\ opts.block_size >= 4096
  /\ opts.block_size <= UFS_SB_SECTORS * SECTOR_SIZE
  /\ base + size <= img.len
  /\ opts.block_size \div SECTOR_SIZE \in {2 ^ k : k \in 3 .. 4} \* power_of_two_shift
  /\ opts.block_size % SECTOR_SIZE = 0
  /\ spc(opts) > 0
  /\ size % spc(opts) = 0
  /\ max_cylinders_per_group(opts) > 0
  /\ opts.bytes_per_inode > 0

\* Blocks of inodes in a group: as many as bytes_per_inode asks for, as fit
\* before at least one data block, and as MAXIPG allows.  Zero: refused.
compute_inode_block_count(size, opts, ncg, fpg, inode_block_number) ==
  LET inodes_per_block == opts.block_size \div UFS_DINODE_SIZE
      target_inodes == Greater(1, DivCeil(size * SECTOR_SIZE, opts.bytes_per_inode))
      target_ipg == DivCeil(target_inodes, ncg)
      wanted == DivCeil(target_ipg, inodes_per_block)
      room == fpg \div (opts.block_size \div SECTOR_SIZE) - (inode_block_number + 1)
  IN  Greater(0, Lesser(Lesser(wanted, room), MAXIPG \div inodes_per_block))

\* Blocks by which a large summary area pushes the metadata that follows it.
SummaryPush(opts, ncg) ==
  LET frag == opts.block_size \div SECTOR_SIZE
      summary_fragments == DivCeil(ncg * UFS_CSUM_SIZE, SECTOR_SIZE)
      minimum_cg_block ==
        DivCeil(SUMMARY_BLOCK_NUMBER * frag + summary_fragments, frag)
  IN  Greater(0, minimum_cg_block - CG_BLOCK_NUMBER)

\* The superblock for groups of cpg cylinders.
SuperblockOf(size, opts, cpg) ==
  LET frag == opts.block_size \div SECTOR_SIZE
      ncyl == size \div spc(opts)
      ncg == DivCeil(ncyl, cpg)
      push == SummaryPush(opts, ncg)
      inode_block_number == INODE_BLOCK_NUMBER + push
      count == compute_inode_block_count(size, opts, ncg, cpg * spc(opts),
                                         inode_block_number)
  IN  [kind |-> "ufs", bsize |-> opts.block_size, frag |-> frag,
       dsize |-> size, ncg |-> ncg, fpg |-> cpg * spc(opts),
       ipg |-> count * (opts.block_size \div UFS_DINODE_SIZE),
       csaddr |-> SUMMARY_BLOCK_NUMBER * frag,
       cssize |-> DivCeil(ncg * UFS_CSUM_SIZE, SECTOR_SIZE),
       cblkno |-> (CG_BLOCK_NUMBER + push) * frag,
       iblkno |-> inode_block_number * frag,
       dblkno |-> (inode_block_number + count) * frag]

\* Mutant: the bitmap's capacity does not bound a group.
GroupsByCylindersOnly(size, opts) == Lesser(size \div spc(opts), MAXCPG)

cylinders_per_group(size, opts) ==
  Lesser(Lesser(size \div spc(opts), MAXCPG), max_cylinders_per_group(opts))

\* Mutant: the inode blocks are not set aside.
NoInodeArea(size, opts) ==
  LET sb == SuperblockOf(size, opts, cylinders_per_group(size, opts))
  IN  [sb EXCEPT !.dblkno = sb.iblkno]

Layout(size, opts) ==
  SuperblockOf(size, opts, cylinders_per_group(size, opts))

\* The checks on the layout itself: an inode block, the first group's data,
\* and the summary area clear of the group block.
LayoutAcceptable(sb) ==
  /\ sb.ipg > 0
  /\ sb.dblkno + sb.frag <= sb.dsize
  /\ sb.csaddr + sb.cssize <= sb.cblkno

----------------------------------------------------------------------------
(* What the formatter writes, relative to the slice at sector base.        *)

cgbase(sb, cg) == cg * sb.fpg
cgtod(sb, cg)  == cgbase(sb, cg) + sb.cblkno

SuperblockRun(base, sb) == Extent(base + UFS_SB_SECTOR, 3, sb)

\* initialize_pristine_cg writes one block for every group.
GroupRuns(base, sb) ==
  {Extent(base + cgtod(sb, cg), sb.frag, [kind |-> "cg", cg |-> cg]) :
     cg \in 0 .. sb.ncg - 1}

\* The root inode is in the first inode sector, its directory in the first
\* data fragment, and recompute_summary_counts writes the summary area.
RootRuns(base, sb) ==
  {Extent(base + sb.iblkno, 1, [kind |-> "rootinode", db |-> sb.dblkno]),
   Extent(base + sb.dblkno, 1, [kind |-> "dirblock", names |-> {".", ".."}]),
   Extent(base + sb.csaddr, sb.cssize, [kind |-> "summary", ncg |-> sb.ncg])}

\* A group block past the end of the mapping is an index out of bounds: the
\* process panics with the superblock and the groups before it written.
format(img, base, size, opts) ==
  IF ~ Acceptable(img, base, size, opts)
  THEN [status |-> "refused", img |-> img]
  ELSE LET sb == Layout(size, opts)
           fits == {e \in GroupRuns(base, sb) : e.at + e.n <= img.len}
       IN  IF ~ LayoutAcceptable(sb)
           THEN [status |-> "refused", img |-> img]
           ELSE IF fits # GroupRuns(base, sb)
           THEN [status |-> "panic",
                 img |-> Put(img, fits \cup {SuperblockRun(base, sb)})]
           ELSE [status |-> "done",
                 img |-> Put(img, fits \cup {SuperblockRun(base, sb)}
                                       \cup RootRuns(base, sb))]

\* detect_ufs_at_start, Superblock::parse: the slice must hold a superblock
\* of full size.  A superblock the formatter wrote passes the range checks.
detect_ufs_at_start(img, base, end) ==
  /\ base + UFS_SB_SECTOR + UFS_SB_SECTORS <= end
  /\ WhatAt(img, base + UFS_SB_SECTOR).kind = "ufs"

\* list_root: the names of the root directory, none when its inode is not
\* there to be read.
list_root(img, base) ==
  LET sb == WhatAt(img, base + UFS_SB_SECTOR)
      root == WhatAt(img, base + sb.iblkno)
      block == WhatAt(img, base + root.db)
  IN  IF root.kind # "rootinode" THEN {}
      ELSE IF block.kind # "dirblock" THEN {} ELSE block.names

----------------------------------------------------------------------------
(* What a sound layout is.                                                 *)

\* The groups tile the slice, a group's bitmaps fit in its block, no two
\* areas of a group meet, and what UfsGeometry assumes of a volume holds.
SoundLayout(sb) ==
  /\ sb.fpg * (sb.ncg - 1) < sb.dsize /\ sb.dsize <= sb.fpg * sb.ncg
  /\ UFS_CG_FREE_OFFSET + DivCeil(sb.fpg, 8) <= sb.bsize
  /\ sb.ipg > 2 /\ sb.ipg <= MAXIPG
  /\ sb.dblkno % sb.frag = 0 /\ sb.dblkno + sb.frag <= sb.fpg
  /\ sb.dblkno + sb.frag <= sb.dsize
  /\ UFS_SB_SECTOR + UFS_SB_SECTORS <= sb.csaddr
  /\ sb.csaddr + sb.cssize <= sb.cblkno
  /\ sb.cblkno + sb.frag <= sb.iblkno
  /\ sb.iblkno + (sb.ipg * UFS_DINODE_SIZE) \div SECTOR_SIZE <= sb.dblkno

============================================================================
