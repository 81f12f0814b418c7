------------------------------- MODULE UfsDir -------------------------------
(***************************************************************************)
(* The layout of a directory (dir.rs and the entry half of write.rs).  A   *)
(* directory is a sequence of blocks of DIRBLKSIZ bytes, a block is a      *)
(* sequence of variable-length records, and a record knows its length but  *)
(* not its position.  A record of inode 0 is free space; a live record may *)
(* be longer than its name needs, and the slack is space for another.      *)
(***************************************************************************)
EXTENDS Integers, Sequences, SequencesExt, FiniteSetsExt

CONSTANTS
  Names,       \* the names entries are given
  NameLen,     \* their lengths
  DIRBLKSIZ    \* bytes per directory block (512 on disk)

NoName == ""   \* of a record that is free space

ASSUME NamesAssumption ==
  /\ NameLen \in [Names -> 1 .. 255] /\ IsFiniteSet(Names)
  /\ {".", "..", NoName} \cap Names = {}
  /\ DIRBLKSIZ \in Nat /\ DIRBLKSIZ % 4 = 0 /\ DIRBLKSIZ >= 24

FreeIno == 0

namlen(name) == IF name \in Names THEN NameLen[name]
                ELSE CASE name = NoName -> 0 [] name = "." -> 1 [] name = ".." -> 2

\* ufs_dirsiz: the header and the name with its NUL, rounded up to 4.
ufs_dirsiz(len) == 8 + ((len + 4) \div 4) * 4

\* encode_entry.
Record(ino, name, len) == [ino |-> ino, name |-> name, len |-> len]

\* build_directory_block.
build_directory_block(self, parent) ==
  <<Record(self, ".", ufs_dirsiz(1)),
    Record(parent, "..", DIRBLKSIZ - ufs_dirsiz(1))>>

----------------------------------------------------------------------------
(* Insertion.                                                              *)

\* The bytes a record could give to a new entry.
Room(rec) == IF rec.ino = FreeIno THEN rec.len
             ELSE rec.len - ufs_dirsiz(namlen(rec.name))

\* Mutant: a record that fits exactly is passed over.
LargerRecords(block, need) == {r \in DOMAIN block : Room(block[r]) > need}

\* The records of a block that have room for a new entry.
RoomyRecords(block, need) == {r \in DOMAIN block : Room(block[r]) >= need}

\* find_insert_slot: the first record with room, as <<block, record>>; a new
\* block at the end when there is none (record 0).
find_insert_slot(dir, need) ==
  LET roomy == {b \in DOMAIN dir : RoomyRecords(dir[b], need) # {}}
      first == Min(roomy)
  IN  IF roomy = {} THEN <<Len(dir) + 1, 0>>
      ELSE <<first, Min(RoomyRecords(dir[first], need))>>

\* Mutant: a free record is made of any remainder, even of none.
FillAny(ino, name, len) ==
  LET need == ufs_dirsiz(namlen(name))
  IN  <<Record(ino, name, need), Record(FreeIno, NoName, len - need)>>

\* Mutant: the remainder keeps the new entry's inode.
FillLive(ino, name, len) ==
  LET need == ufs_dirsiz(namlen(name))
  IN  IF len - need >= 8
        THEN <<Record(ino, name, need), Record(ino, NoName, len - need)>>
        ELSE <<Record(ino, name, len)>>

\* The new record in len bytes of free space: what it does not need becomes
\* a free record, if it can hold a header.
FillSpace(ino, name, len) ==
  LET need == ufs_dirsiz(namlen(name))
  IN  IF len - need >= 8
        THEN <<Record(ino, name, need), Record(FreeIno, NoName, len - need)>>
        ELSE <<Record(ino, name, len)>>

\* insert_entry: free space is filled, or slack is cut off a live record and
\* given to the new one whole.
insert_entry(dir, ino, name) ==
  LET new(old)    == IF old.ino = FreeIno THEN FillSpace(ino, name, old.len)
                     ELSE <<[old EXCEPT !.len = @ - Room(old)],
                            Record(ino, name, Room(old))>>
      put(blk, r) == SubSeq(blk, 1, r - 1) \o new(blk[r]) \o
                     SubSeq(blk, r + 1, Len(blk))
      at(slot)    == IF slot[2] = 0
                       THEN Append(dir, FillSpace(ino, name, DIRBLKSIZ))
                       ELSE [dir EXCEPT ![slot[1]] = put(@, slot[2])]
      need        == ufs_dirsiz(namlen(name))
  IN  IF need > DIRBLKSIZ THEN [ok |-> FALSE, dir |-> dir]
      ELSE [ok |-> TRUE, dir |-> at(find_insert_slot(dir, need))]

----------------------------------------------------------------------------
(* Removal, lookup and rewriting.                                          *)

Live(rec, name) == rec.ino # FreeIno /\ rec.name = name

Matches(block, name) == {r \in DOMAIN block : Live(block[r], name)}

\* Mutant: the space of a removed record is not given to its predecessor.
RemoveUnmerged(block, name) ==
  LET r == Min(Matches(block, name))
  IN  IF r > 2 THEN RemoveAt(block, r)
      ELSE [block EXCEPT ![r] = Record(FreeIno, NoName, @.len)]

\* remove_entry, in the block that has the name: the record joins its
\* predecessor, except that the block's first record is never grown.
remove_entry(block, name) ==
  LET r == Min(Matches(block, name))
  IN  IF r > 2
        THEN [RemoveAt(block, r) EXCEPT ![r - 1].len = @ + block[r].len]
        ELSE [block EXCEPT ![r] = Record(FreeIno, NoName, @.len)]

\* rewrite_entry_inode.
rewrite_entry_inode(block, name, ino) ==
  [block EXCEPT ![Min(Matches(block, name))].ino = ino]

\* The blocks that hold the name; all searches stop at the first.
BlocksWith(dir, name) == {b \in DOMAIN dir : Matches(dir[b], name) # {}}

\* lookup_directory_entry: the inode, or FreeIno when there is no such name.
LookupIno(dir, name) ==
  IF BlocksWith(dir, name) = {} THEN FreeIno
  ELSE LET block == dir[Min(BlocksWith(dir, name))]
       IN  block[Min(Matches(block, name))].ino

\* iter_directory_entries: the live records of all blocks.
Entries(dir) ==
  UNION {{<<b, r>> : r \in {k \in DOMAIN dir[b] : dir[b][k].ino # FreeIno}} :
           b \in DOMAIN dir}

============================================================================
