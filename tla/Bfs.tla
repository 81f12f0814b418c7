-------------------------------- MODULE Bfs --------------------------------
(***************************************************************************)
(* The boot file system of the /stand slice (svr4-bfs): a superblock, a    *)
(* table of 64-byte inode records, the root directory and the files' data, *)
(* each contiguous and sector-aligned.  The tools only ever format it as a *)
(* whole and read it back.  Block numbers are sectors of the slice, end    *)
(* offsets are bytes of the slice, as on disk, and each is a 32-bit word.  *)
(***************************************************************************)
EXTENDS Sectors, SequencesExt

CONSTANT BadName(_)   \* empty, with a slash, over 14 bytes or not ASCII

BFS_ROOT_INODE  == 2
BFS_DIRENT_SIZE == 64
BFS_LDIR_SIZE   == 16

----------------------------------------------------------------------------
(* format: files is a sequence of [name, data], data a [text, bytes].      *)

total_slots(files) == IF Len(files) + 1 > 16 THEN Len(files) + 1 ELSE 16

\* First sector of the data area, after the superblock and the inode table.
data_start(files) ==
  1 + DivCeil(total_slots(files) * BFS_DIRENT_SIZE, SECTOR_SIZE)

root_dir_alloc(files) ==
  IF files = <<>> THEN 1 ELSE DivCeil(Len(files) * BFS_LDIR_SIZE, SECTOR_SIZE)

allocation(file) == DivCeil(file.data.bytes, SECTOR_SIZE)

\* Where the data of the first k files ends: after the root directory and
\* these files, in sectors of the slice.
DataEnd(files) ==
  LET end[k \in 0 .. Len(files)] ==
        IF k = 0 THEN data_start(files) + root_dir_alloc(files)
        ELSE end[k - 1] + allocation(files[k])
  IN  end

\* First sector of the i-th file.
StartOf(files, i) == DataEnd(files)[i - 1]

Refused(files, n) ==
  \/ n < 2
  \/ \E f \in ToSet(files) : BadName(f.name)
  \/ \E i, j \in DOMAIN files : i # j /\ files[i].name = files[j].name
  \/ StartOf(files, Len(files) + 1) > n

\* The record of the i-th file; a start block of 0 stands for no extent.
FileDirent(files, i) ==
  LET start == StartOf(files, i)
  IN  IF files[i].data.bytes = 0
      THEN [ino |-> BFS_ROOT_INODE + i, sblock |-> 0, eoffset |-> 0]
      ELSE [ino |-> BFS_ROOT_INODE + i, sblock |-> AsU32(start),
            eoffset |-> AsU32(start * SECTOR_SIZE + files[i].data.bytes - 1)]

\* The inode table, indexed by slot, and the root directory's entries.
InodeTable(files) ==
  [slot \in 0 .. Len(files) |->
     IF slot = 0
     THEN [ino |-> BFS_ROOT_INODE, sblock |-> AsU32(data_start(files)),
           eoffset |-> AsU32(data_start(files) * SECTOR_SIZE
                               + Len(files) * BFS_LDIR_SIZE - 1)]
     ELSE FileDirent(files, slot)]

RootDirectory(files) ==
  [i \in DOMAIN files |-> [ino |-> BFS_ROOT_INODE + i, name |-> files[i].name]]

Runs(base, n, files) ==
  {Extent(base, 1, [kind |-> "bfs",
                    data_start |-> AsU32(data_start(files) * SECTOR_SIZE),
                    data_end |-> AsU32(n * SECTOR_SIZE - 1)]),
   Extent(base + 1, data_start(files) - 1,
          [kind |-> "dirents", slots |-> InodeTable(files)]),
   Extent(base + data_start(files), root_dir_alloc(files),
          [kind |-> "ldir", entries |-> RootDirectory(files)])}
  \cup {Extent(base + StartOf(files, i), allocation(files[i]),
               [kind |-> "file", data |-> files[i].data]) :
          i \in {k \in DOMAIN files : files[k].data.bytes > 0}}

format_bfs_slice(img, base, n, files) ==
  IF Refused(files, n) THEN [status |-> "refused", img |-> img]
  ELSE [status |-> "done",
        img |-> Put(Fill0(img, Region(base, n)), Runs(base, n, files))]

----------------------------------------------------------------------------
(* Reading it back.                                                        *)

detect_at_start(img, base, end) ==
  LET super == WhatAt(img, base)
  IN  /\ base < end
      /\ super.kind = "bfs"
      /\ super.data_start >= SECTOR_SIZE
      /\ super.data_end >= super.data_start

\* read_inode: the record of slot ino - 2, if it is the one asked for.
NoInode == [ino |-> 0, sblock |-> 0, eoffset |-> 0]

bfs_read_inode(img, base, ino) ==
  LET table == WhatAt(img, base + 1)
      slot == ino - BFS_ROOT_INODE
  IN  IF table.kind # "dirents" THEN NoInode
      ELSE IF slot \notin DOMAIN table.slots THEN NoInode
      ELSE IF table.slots[slot].ino # ino THEN NoInode ELSE table.slots[slot]

inode_size(dirent) ==
  LET start == dirent.sblock * SECTOR_SIZE
  IN  IF dirent.sblock = 0 \/ dirent.eoffset < start THEN 0
      ELSE dirent.eoffset - start + 1

\* The entries the root directory's extent holds, with the files' sizes.
bfs_list_root(img, base) ==
  LET root == bfs_read_inode(img, base, BFS_ROOT_INODE)
      dir == WhatAt(img, base + root.sblock)
      count == inode_size(root) \div BFS_LDIR_SIZE
      sized(e) == [name |-> e.name, inode |-> e.ino,
                   size |-> inode_size(bfs_read_inode(img, base, e.ino))]
  IN  IF root = NoInode \/ dir.kind # "ldir" THEN <<>>
      ELSE [i \in 1 .. IF count < Len(dir.entries) THEN count
                       ELSE Len(dir.entries) |-> sized(dir.entries[i])]

\* What a run of "size" bytes from a sector on reads as.
NoData == [text |-> "none", bytes |-> 0]

Garbage == [text |-> "garbage", bytes |-> 0]

EmptyData == [text |-> "", bytes |-> 0]

BytesAt(img, at, size) ==
  LET run == WhatAt(img, at)
  IN  IF size = 0 THEN EmptyData
      ELSE IF run.kind # "file" THEN Garbage
      ELSE IF run.data.bytes # size THEN Garbage ELSE run.data

read_file(img, base, name) ==
  LET listed == bfs_list_root(img, base)
      named == {i \in DOMAIN listed : listed[i].name = name}
      dirent == bfs_read_inode(img, base, listed[Min(named)].inode)
  IN  IF named = {} THEN NoData
      ELSE BytesAt(img, base + dirent.sblock, inode_size(dirent))

============================================================================
