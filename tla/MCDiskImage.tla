---------------------------- MODULE MCDiskImage ----------------------------
(***************************************************************************)
(* Requests at the real sizes.  Where a slice has a short last group it is *)
(* the last of its disk, so that format panics; the other case is that of  *)
(* ShortGroupDisk.                                                         *)
(***************************************************************************)
EXTENDS DiskImage

MCBadName(n) == n \in {"", "a/b"}

LayoutOpts(start, stand, swap, align) ==
  [stand_start_sector |-> start, stand_size_mb |-> stand, swap_size_mb |-> swap,
   root_align_sectors |-> align]

LayoutArgs(cylinders, size_mb, heads, sectors, mode, opts) ==
  [cylinders |-> cylinders, size_mb |-> size_mb, heads |-> heads,
   sectors |-> sectors, mode |-> mode, opts |-> opts]

\* The default geometry; cylinders that the alignment does not divide; small
\* cylinders (root a whole number of groups, root with a short last group);
\* two too large for chs; a stand slice over the label; no room for a root.
MCLayouts ==
  {LayoutArgs(50, 0, 16, 63, "chs", LayoutOpts(64, 1, 1, 2048)),
   LayoutArgs(0, 6, 15, 5, "chs", LayoutOpts(64, 1, 1, 2048)),
   LayoutArgs(129, 0, 4, 16, "chs", LayoutOpts(64, 1, 1, 0)),
   LayoutArgs(98, 0, 4, 16, "chs", LayoutOpts(64, 1, 1, 0)),
   LayoutArgs(1025, 0, 4, 16, "chs", LayoutOpts(64, 1, 1, 0)),
   LayoutArgs(0, 700, 4, 16, "chs", LayoutOpts(64, 1, 1, 0)),
   LayoutArgs(0, 4, 1, 16, "chs", LayoutOpts(16, 1, 1, 0)),
   LayoutArgs(40, 0, 4, 16, "chs", LayoutOpts(64, 1, 1, 0))}

Skeleton(cylinders, heads, spt, start, size, slices) ==
  [geometry |-> GeometryOf(cylinders, heads, spt), mode |-> "chs",
   start |-> start, size |-> size, slices |-> slices]

\* A disk with a slice of alternates; an lba28 disk with more than 256 groups
\* in its only slice, so that the summary area is pushed; slices that
\* overlap, one of them empty; a disk too small for its VTOC, and one too small for its
\* alternates; a partition past the end; a slice index used twice.
AltsDisk ==
  Skeleton(20, 4, 16, 64, 1216,
           <<Slice(1, 2, 128, 512), Slice(9, 8, 640, 64), Slice(10, 9, 704, 512)>>)

ManyGroups ==
  [Skeleton(8260, 4, 16, 1, 528639, <<Slice(1, 2, 64, 526336)>>)
     EXCEPT !.mode = "lba28"]

MCSkeletons ==
  {AltsDisk, ManyGroups,
   Skeleton(300, 4, 16, 1, 19199,
            <<Slice(1, 2, 64, 1024), Slice(3, 4, 576, 1024), Slice(4, 0, 64, 0)>>),
   Skeleton(2, 1, 15, 1, 29, <<Slice(1, 2, 1, 29)>>),
   Skeleton(2, 1, 16, 1, 31, <<Slice(1, 2, 1, 31)>>),
   Skeleton(4, 4, 16, 1, 256, <<Slice(1, 2, 64, 128)>>),
   Skeleton(4, 4, 16, 1, 255, <<Slice(1, 2, 64, 64), Slice(1, 9, 128, 64)>>)}

\* A root slice of 33 cylinders of 64 sectors, one more than a group holds,
\* and the stand slice right after it.
ShortGroupDisk ==
  {Skeleton(100, 4, 16, 1, 6399, <<Slice(1, 2, 64, 2112), Slice(10, 9, 2176, 512)>>)}

NoLayouts == {}

MCSelectors ==
  {[index |-> i, name |-> ""] : i \in {0, 1, 3}} \cup
  {[index |-> -1, name |-> t] : t \in {"stand", "dump"}}

Host(name, kind, text, bytes) ==
  [name |-> name, kind |-> kind, data |-> [text |-> text, bytes |-> bytes]]

\* An empty file, files of more than a sector and of whole sectors; a
\* dotfile left out; a name given twice; a subdirectory.
MCStandFiles ==
  {[dir |-> <<>>, files |-> <<>>],
   [dir |-> <<Host(".git", "dot", "g", 3), Host("boot", "file", "", 0),
              Host("unix", "file", "kernel", 700)>>,
    files |-> <<Host("mini", "file", "loader", 512)>>],
   [dir |-> <<Host("boot", "file", "b", 9)>>,
    files |-> <<Host("boot", "file", "c", 8)>>],
   [dir |-> <<Host("etc", "dir", "", 0)>>, files |-> <<>>]}

MCUfsOptions ==
  {[block_size |-> 4096, bytes_per_inode |-> 8192],
   [block_size |-> 8192, bytes_per_inode |-> 2048],
   [block_size |-> 5120, bytes_per_inode |-> 8192]}

Segment(paddr, filesz, signature) ==
  [load |-> TRUE, paddr |-> paddr, filesz |-> filesz, whole |-> TRUE,
   signature |-> signature]

MCPayloads ==
  {[elf |-> TRUE, segments |-> <<Segment(0, 512, TRUE), Segment(512, 14336, FALSE)>>],
   [elf |-> TRUE, segments |-> <<Segment(0, 512, TRUE), Segment(512, 14337, FALSE)>>],
   [elf |-> TRUE, segments |-> <<Segment(0, 512, TRUE), Segment(0, 1024, FALSE)>>]}

\* A bad track of the root slice; a bad sector; a bad sector in the
\* alternate of a bad track, and in the bad track itself.
MCBadBlocks ==
  LET alts(tracks, sectors) ==
        [disk |-> AltsDisk,
         alts |-> [kind |-> "alts", track |-> [base |-> 640, bad |-> tracks],
                   sector |-> [base |-> 688, bad |-> sectors]]]
  IN  {alts(<<9>>, <<>>), alts(<<8, 9>>, <<130, 657, 710>>)}

============================================================================
