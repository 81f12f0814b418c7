----------------------------- MODULE UfsInode -----------------------------
(***************************************************************************)
(* Inode contents: how the bytes of a file are spread over the volume and  *)
(* how they are replaced (inode.rs, reader.rs and the content half of      *)
(* write.rs).                                                              *)
(*                                                                         *)
(* An image is a record of the allocation state (UfsAlloc), the inode      *)
(* table and the contents of the data fragments.  One fragment holds one   *)
(* cell: a piece of file data, one directory block, or one block pointer   *)
(* (so a pointer block holds Frag pointers).  File contents are sequences  *)
(* of cells and sizes count cells.                                         *)
(***************************************************************************)
EXTENDS UfsAlloc, SequencesExt, TLC

CONSTANTS
  NDADDR,   \* UFS_NDADDR: direct block pointers in an inode
  NIADDR    \* UFS_NIADDR: indirect roots, of 1 .. NIADDR levels

ASSUME AddrAssumption == NDADDR \in Nat \ {0} /\ NIADDR \in 0 .. 3

NINDIR == Frag   \* fs_nindir

\* The contents of a fragment that was zeroed.
ZeroCell == 0

InodeMode == {"none", "file", "dir", "symlink", "device"}

\* initialize_inode; clear_inode is mode "none" with no links.
NewInode(mode, nlink) ==
  [mode |-> mode, nlink |-> nlink, size |-> 0, blocks |-> 0,
   db |-> [i \in 1 .. NDADDR |-> NoBlock],
   ib |-> [i \in 1 .. NIADDR |-> NoBlock]]

ClearedInode == NewInode("none", 0)

----------------------------------------------------------------------------
(* Reading.                                                                *)

MinOf(x, y) == IF x <= y THEN x ELSE y

BlocksNeeded(size) == (size + Frag - 1) \div Frag

\* allocation_byte_sizes: whole blocks and a fragment tail, unless the file
\* needs indirect blocks; then every block is whole.
allocation_sizes(size) ==
  [i \in 1 .. BlocksNeeded(size) |->
     IF BlocksNeeded(size) > NDADDR THEN Frag
     ELSE MinOf(Frag, size - (i - 1) * Frag)]

NonZero(blocks) == SelectSeq(blocks, LAMBDA b : b # NoBlock)

\* read_pointer_block, without the empty slots.
Pointers(store, b) == NonZero([k \in 1 .. NINDIR |-> store[b + k - 1]])

\* The blocks at depth d of the pointer tree under root: depth 0 is the root,
\* depth l of a tree of l levels is the data.
TreeLevel(store, root, d) ==
  LET level[k \in 0 .. d] ==
        LET above == level[k - 1]
        IN  IF k = 0 THEN NonZero(<<root>>)
            ELSE FlattenSeq([i \in DOMAIN above |-> Pointers(store, above[i])])
  IN  level[d]

\* inode_data_blocks: direct, then indirect, cut to what the size needs.
inode_data_blocks(img, ino) ==
  LET di   == img.ino[ino]
      all  == NonZero(di.db) \o
              FlattenSeq([l \in 1 .. NIADDR |->
                            TreeLevel(img.store, di.ib[l], l)])
  IN  SubSeq(all, 1, MinOf(Len(all), BlocksNeeded(di.size)))

\* Mutant: only the root of each tree.
RootsOnly(img, ino) == NonZero(img.ino[ino].ib)

\* inode_pointer_blocks: every block above the data.
inode_pointer_blocks(img, ino) ==
  FlattenSeq([l \in 1 .. NIADDR |->
    FlattenSeq([d \in 1 .. l |->
      TreeLevel(img.store, img.ino[ino].ib[l], d - 1)])])

\* read_data_range over a list of blocks: size cells from offset on.
ReadRange(store, blocks, offset, size) ==
  LET stop == MinOf(offset + size, Len(blocks) * Frag)
      cell(k) == store[blocks[k \div Frag + 1] + (k % Frag)]
  IN  [k \in 1 .. stop - offset |-> cell(offset + k - 1)]

\* read_inode_bytes.
read_inode_bytes(img, ino) ==
  ReadRange(img.store, inode_data_blocks(img, ino), 0, img.ino[ino].size)

----------------------------------------------------------------------------
(* Writing cells.                                                          *)

\* data is copied to the fragments from address b on.
PutCells(store, b, data) ==
  [f \in Run(b, Len(data)) |-> data[f - b + 1]] @@ store

Zeros(n) == [k \in 1 .. n |-> ZeroCell]

\* write_data_range: data goes to logical offset, block by block, clipped to
\* what is allocated.
write_data_range(store, blocks, sizes, offset, data) ==
  LET hit == {i \in DOMAIN blocks :
                /\ (i - 1) * Frag < offset + Len(data)
                /\ offset < (i - 1) * Frag + sizes[i]}
      at(f)      == Max({i \in hit : f \in Run(blocks[i], sizes[i])})
      logical(f) == (at(f) - 1) * Frag + (f - blocks[at(f)])
      span(i)    == {f \in Run(blocks[i], sizes[i]) :
                       (i - 1) * Frag + (f - blocks[i])
                         \in offset .. offset + Len(data) - 1}
      touched    == UNION {span(i) : i \in hit}
  IN  [f \in touched |-> data[logical(f) - offset + 1]] @@ store

----------------------------------------------------------------------------
(* Allocation inside an operation: a step that fails ends the operation    *)
(* where it stands, keeping everything done so far.                        *)

\* allocate_allocation on an image; the new run is zeroed.
AllocRun(img, ino, n) ==
  LET zeroed(r) ==
        [ok  |-> r.ok, blk |-> r.blk,
         img |-> IF r.ok
                   THEN [img EXCEPT !.a = r.a,
                                    !.store = PutCells(@, r.blk, Zeros(n))]
                   ELSE [img EXCEPT !.a = r.a]]
  IN  zeroed(allocate_allocation(img.a, ino, n))

\* The loop that allocates one run per size; blks grows until one fails.
AllocRuns(img, ino, sizes) ==
  LET add(blks, r) == [ok |-> r.ok, img |-> r.img,
                       blks |-> IF r.ok THEN Append(blks, r.blk) ELSE blks]
  IN  FoldLeft(LAMBDA acc, n : IF ~acc.ok THEN acc
                               ELSE add(acc.blks, AllocRun(acc.img, ino, n)),
               [ok |-> TRUE, img |-> img, blks |-> << >>], sizes)

\* The loop that frees runs, each a pair of address and length.
FreeRuns(img, runs) ==
  LET step(acc, run) ==
        IF ~acc.ok THEN acc
        ELSE LET r == free_allocation(acc.img.a, run[1], run[2])
             IN  [ok |-> r.ok, img |-> [acc.img EXCEPT !.a = r.a]]
  IN  FoldLeft(step, [ok |-> TRUE, img |-> img], runs)

\* Mutant: the last block that is kept is freed as well.
RunsFromOneEarly(img, ino, k) ==
  LET data  == inode_data_blocks(img, ino)
      sizes == allocation_sizes(img.ino[ino].size)
      ptrs  == Reverse(inode_pointer_blocks(img, ino))
      first == IF k > 1 THEN k - 1 ELSE 1
  IN  [i \in DOMAIN ptrs |-> <<ptrs[i], Frag>>] \o
      [i \in 1 .. MinOf(Len(data), Len(sizes)) - first + 1 |->
         <<data[Len(data) - i + 1], sizes[Len(sizes) - i + 1]>>]

\* What a replacement of the data from block k on frees: the pointer blocks
\* and the data blocks from k on, last first, paired with their lengths.
RunsFrom(img, ino, k) ==
  LET data  == inode_data_blocks(img, ino)
      sizes == allocation_sizes(img.ino[ino].size)
      ptrs  == Reverse(inode_pointer_blocks(img, ino))
      n     == MinOf(Len(data), Len(sizes))
  IN  [i \in DOMAIN ptrs |-> <<ptrs[i], Frag>>] \o
      [i \in 1 .. n - k + 1 |->
         <<data[Len(data) - i + 1], sizes[Len(sizes) - i + 1]>>]

----------------------------------------------------------------------------
(* Pointer trees.                                                          *)

Power(n, k) == IF k = 0 THEN 1 ELSE IF k = 1 THEN n
               ELSE IF k = 2 THEN n * n ELSE n * n * n

\* blocks cut into pieces of at most n.
Chunks(blocks, n) ==
  [c \in 1 .. (Len(blocks) + n - 1) \div n |->
     SubSeq(blocks, (c - 1) * n + 1, MinOf(c * n, Len(blocks)))]

\* Allocate a pointer block and fill it (write_pointer_block).
PointerBlock(img, ino, ptrs, count) ==
  LET filled(r) ==
        [ok |-> r.ok, root |-> r.blk, count |-> count + 1,
         img |-> IF r.ok THEN [r.img EXCEPT !.store = PutCells(@, r.blk, ptrs)]
                 ELSE r.img]
  IN  filled(AllocRun(img, ino, Frag))

\* What has been built of a list of trees, and one tree more.
NoTrees(img) == [ok |-> TRUE, img |-> img, count |-> 0, roots |-> << >>]

AddTree(acc, r) ==
  [ok |-> r.ok, img |-> r.img, count |-> acc.count + r.count,
   roots |-> Append(acc.roots, r.root)]

\* The children of a tree node are built left to right, then the node.
TreeOver(child(_, _, _), capacity, img, ino, blocks) ==
  LET over(kids) ==
        IF kids.ok THEN PointerBlock(kids.img, ino, kids.roots, kids.count)
        ELSE [ok |-> FALSE, root |-> NoBlock, count |-> kids.count,
              img |-> kids.img]
  IN  over(FoldLeft(LAMBDA acc, chunk :
                      IF ~acc.ok THEN acc
                      ELSE AddTree(acc, child(acc.img, ino, chunk)),
                    NoTrees(img), Chunks(blocks, capacity)))

\* build_pointer_tree for one, two and three levels.
Tree1(img, ino, blocks) == PointerBlock(img, ino, blocks, 0)

Tree2(img, ino, blocks) == TreeOver(Tree1, NINDIR, img, ino, blocks)

\* Mutant: the capacity of a subtree of one level is used for two.
Tree3Narrow(img, ino, blocks) == TreeOver(Tree2, NINDIR, img, ino, blocks)

Tree3(img, ino, blocks) ==
  TreeOver(Tree2, Power(NINDIR, 2), img, ino, blocks)

build_pointer_tree(img, ino, levels, blocks) ==
  CASE levels = 1 -> Tree1(img, ino, blocks)
    [] levels = 2 -> Tree2(img, ino, blocks)
    [] levels = 3 -> Tree3(img, ino, blocks)

\* build_inode_pointer_structure: the block lists reach the inode only when
\* every tree was built.
build_inode_pointer_structure(img, ino, blocks) ==
  LET before(l) == NDADDR + (IF l > 1 THEN Power(NINDIR, 1) ELSE 0)
                          + (IF l > 2 THEN Power(NINDIR, 2) ELSE 0)
      level(l)  == SubSeq(blocks, before(l) + 1,
                          MinOf(Len(blocks), before(l) + Power(NINDIR, l)))
      direct == [i \in 1 .. NDADDR |->
                   IF i <= Len(blocks) THEN blocks[i] ELSE NoBlock]
      listed(built) ==
        [ok |-> built.ok, count |-> built.count,
         img |-> IF built.ok
                   THEN [built.img EXCEPT !.ino[ino].db = direct,
                                          !.ino[ino].ib = built.roots]
                   ELSE built.img]
  IN  listed(FoldLeft(LAMBDA acc, l :
                        IF ~acc.ok THEN acc
                        ELSE IF level(l) = << >>
                          THEN [acc EXCEPT !.roots = Append(@, NoBlock)]
                          ELSE AddTree(acc, build_pointer_tree(acc.img, ino, l,
                                                               level(l))),
                      NoTrees(img), [l \in 1 .. NIADDR |-> l]))

SumSeq(s) == FoldLeft(LAMBDA x, y : x + y, 0, s)

\* Mutant: the size is rounded up to what is allocated.
RepointRounded(img, ino, blocks, sizes, size) ==
  LET sized(p) ==
        [ok |-> p.ok, blks |-> blocks,
         img |-> IF p.ok
                   THEN [p.img EXCEPT
                           !.ino[ino].size = SumSeq(sizes),
                           !.ino[ino].blocks = SumSeq(sizes) + p.count * Frag]
                   ELSE p.img]
  IN  sized(build_inode_pointer_structure(img, ino, blocks))

\* The last steps of a replacement: pointers, then size and block count.
Repoint(img, ino, blocks, sizes, size) ==
  LET sized(p) ==
        [ok |-> p.ok, blks |-> blocks,
         img |-> IF p.ok
                   THEN [p.img EXCEPT
                           !.ino[ino].size = size,
                           !.ino[ino].blocks = SumSeq(sizes) + p.count * Frag]
                   ELSE p.img]
  IN  sized(build_inode_pointer_structure(img, ino, blocks))

----------------------------------------------------------------------------
(* Replacing and extending contents.                                       *)


\* The new runs are allocated, if the old ones could be freed.
AllocAfter(freed, ino, sizes) ==
  IF freed.ok THEN AllocRuns(freed.img, ino, sizes) ELSE freed

\* The new runs (got) are filled with seed and pointed to after the blocks
\* that are kept, if all were allocated.
FillAndPoint(got, ino, kept, tail, seed, sizes, size) ==
  IF got.ok
    THEN Repoint([got.img EXCEPT
                    !.store = write_data_range(@, got.blks, tail, 0, seed)],
                 ino, kept \o got.blks, sizes, size)
    ELSE [ok |-> FALSE, img |-> got.img]

\* set_inode_contents: everything the inode has is freed, then the new runs
\* are allocated, filled and pointed to.
set_inode_contents(img, ino, data) ==
  LET sizes == allocation_sizes(Len(data))
  IN  FillAndPoint(AllocAfter(FreeRuns(img, RunsFrom(img, ino, 1)), ino, sizes),
                   ino, << >>, sizes, data, sizes, Len(data))

\* truncate: cut or extend with zeros.
truncate(img, ino, size) ==
  LET old == read_inode_bytes(img, ino)
  IN  IF img.ino[ino].size = size
        THEN [ok |-> TRUE, img |-> img]
        ELSE set_inode_contents(img, ino,
               [k \in 1 .. size |-> IF k <= Len(old) THEN old[k] ELSE ZeroCell])

\* Mutant: only the lengths of the lists are compared.
PrefixByLength(s, t) == MinOf(Len(s), Len(t))

\* common_allocation_prefix.
CommonPrefix(s, t) ==
  LET differ == {i \in 1 .. MinOf(Len(s), Len(t)) : s[i] # t[i]}
  IN  IF differ = {} THEN MinOf(Len(s), Len(t)) ELSE Min(differ) - 1

\* The contents from block keep + 1 on.
TailCells(img, ino, blocks, keep) ==
  LET skip == keep * Frag
      size == img.ino[ino].size
  IN  ReadRange(img.store, SubSeq(blocks, keep + 1, Len(blocks)), 0,
                IF size > skip THEN size - skip ELSE 0)

\* The runs after the first keep are freed and allocated anew, for sizes;
\* their old contents are copied over.
Reallocate(img, ino, blocks, keep, sizes, size) ==
  LET tail == SubSeq(sizes, keep + 1, Len(sizes))
  IN  FillAndPoint(AllocAfter(FreeRuns(img, RunsFrom(img, ino, keep + 1)), ino, tail),
                   ino, SubSeq(blocks, 1, keep), tail,
                   TailCells(img, ino, blocks, keep), sizes, size)

\* The last step of a write: the data, over what the inode now has.
PutData(step, sizes, offset, data) ==
  IF step.ok
    THEN [step EXCEPT !.img.store =
            write_data_range(@, step.blks, sizes, offset, data)]
    ELSE step

\* apply_inode_write: in place when the allocation stays, else the runs after
\* the common prefix are replaced; then data is written at offset.
apply_inode_write(img, ino, offset, data) ==
  LET old  == img.ino[ino].size
      new  == IF offset + Len(data) > old THEN offset + Len(data) ELSE old
      have == allocation_sizes(old)
      want == allocation_sizes(new)
      blks == inode_data_blocks(img, ino)
  IN  PutData(IF want = have
                THEN [ok |-> TRUE, blks |-> blks,
                      img |-> [img EXCEPT !.ino[ino].size = new]]
                ELSE Reallocate(img, ino, blks, CommonPrefix(have, want), want, new),
              want, offset, data)

============================================================================
