---------------------------- MODULE UfsDirectory ----------------------------
(***************************************************************************)
(* One directory under any sequence of insertions, removals and rewrites   *)
(* of ".." (rename of a directory).  named is what the directory should    *)
(* hold; it is what the layout must implement.                             *)
(***************************************************************************)
EXTENDS UfsDir, FiniteSets

CONSTANTS
  Inodes,      \* inode numbers entries may have
  MaxBlocks    \* bound on the blocks of the directory

ASSUME DirectoryAssumption ==
  /\ Inodes \subseteq Nat \ {0} /\ Inodes # {}
  /\ MaxBlocks \in Nat \ {0}

VARIABLES
  dir,         \* the directory: its blocks of records
  named        \* [Names -> Inodes, or FreeIno when absent]

vars == <<dir, named>>

TypeOK ==
  /\ named \in [Names -> Inodes \cup {FreeIno}]
  /\ Len(dir) \in 1 .. MaxBlocks
  /\ \A b \in DOMAIN dir : \A r \in DOMAIN dir[b] :
       /\ dir[b][r].ino \in Inodes \cup {FreeIno}
       /\ dir[b][r].name \in Names \cup {".", "..", NoName}
       /\ dir[b][r].len \in 8 .. DIRBLKSIZ

Self == CHOOSE i \in Inodes : \A j \in Inodes : i <= j

Init ==
  /\ dir = <<build_directory_block(Self, Self)>>
  /\ named = [n \in Names |-> FreeIno]

\* add_directory_entry: the last block is tried alone when it is not the
\* only one, then the whole directory.
AddEntry(name, ino) ==
  LET hit(last)   == Len(dir) > 1 /\ last.ok /\ Len(last.dir) = 1
      put(new)    == dir' = new.dir /\ Len(new.dir) <= MaxBlocks
                     /\ named' = IF new.ok THEN [named EXCEPT ![name] = ino] ELSE named
      try(last)   == put(IF hit(last)
                           THEN [last EXCEPT !.dir = Front(dir) \o @]
                           ELSE insert_entry(dir, ino, name))
  IN  /\ named[name] = FreeIno
      /\ try(insert_entry(<<Last(dir)>>, ino, name))

\* delete_directory_entry.
DeleteEntry(name) ==
  /\ named[name] # FreeIno
  /\ LET b == Min(BlocksWith(dir, name))
     IN  dir' = [dir EXCEPT ![b] = remove_entry(@, name)]
  /\ named' = [named EXCEPT ![name] = FreeIno]

\* update_directory_dotdot.
Reparent(ino) ==
  /\ LET b == Min(BlocksWith(dir, ".."))
     IN  dir' = [dir EXCEPT ![b] = rewrite_entry_inode(@, "..", ino)]
  /\ UNCHANGED named

Next ==
  \/ \E name \in Names, ino \in Inodes : AddEntry(name, ino)
  \/ \E name \in Names : DeleteEntry(name)
  \/ \E ino \in Inodes : Reparent(ino)

Spec == Init /\ [][Next]_vars

----------------------------------------------------------------------------

\* Where the records of a block end; the first starts at 0.
Offsets(block) ==
  LET end[r \in 0 .. Len(block)] == IF r = 0 THEN 0 ELSE end[r - 1] + block[r].len
  IN  end

Length(block) == Offsets(block)[Len(block)]

\* The records of a block fill it exactly, each is 4-aligned and long enough
\* for its own name: no insertion or merge loses or invents a byte, so the
\* next reader finds every record that follows.
Tiled ==
  \A b \in DOMAIN dir :
    /\ Length(dir[b]) = DIRBLKSIZ
    /\ \A r \in DOMAIN dir[b] :
         LET rec == dir[b][r]
         IN  /\ rec.len % 4 = 0
             /\ rec.ino # FreeIno => rec.len >= ufs_dirsiz(namlen(rec.name))

\* The directory holds each name exactly once and with its inode, and nothing
\* else: reuse of freed records, slack and merging never hide, resurrect or
\* duplicate an entry.
EntriesExact ==
  /\ \A n \in Names : LookupIno(dir, n) = named[n]
  /\ Cardinality(Entries(dir)) =
       2 + Cardinality({n \in Names : named[n] # FreeIno})

\* The directory grows only if no block has room for the entry: freed space
\* is found again whatever it was merged into.
GrowsOnlyWhenFull ==
  [][Len(dir') > Len(dir) =>
       \E n \in Names : /\ named[n] # named'[n]
                        /\ \A b \in DOMAIN dir : \A r \in DOMAIN dir[b] :
                             Room(dir[b][r]) < ufs_dirsiz(namlen(n))]_vars

============================================================================
