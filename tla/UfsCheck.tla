------------------------------ MODULE UfsCheck ------------------------------
(***************************************************************************)
(* check_filesystem of check.rs: the passes of UfsBlockCheck and the walk  *)
(* of the directory tree.                                                  *)
(***************************************************************************)
EXTENDS UfsNames, UfsBlockCheck

\* The entries of every used directory, as <<directory, name, inode>>, one
\* for each live record (the records are numbered to keep duplicates apart).
AllRecords(img) ==
  UNION {LET dir == read_inode_bytes(img, d)
         IN  {<<d, s, dir[s[1]][s[2]].name, dir[s[1]][s[2]].ino>> :
                s \in Entries(dir)} :
         d \in {i \in UsedInodes(img) : IsDirectory(img, i)}}

\* Pass 3: "." and ".." are there, "." is the directory itself, every name
\* leads to a used inode, and the links of an inode are the records that
\* name it, of which every inode but the root has one.
TreeClean(img) ==
  LET recs == AllRecords(img)
  IN  /\ \A d \in UsedInodes(img) : IsDirectory(img, d) =>
           /\ \E r \in recs : r[1] = d /\ r[3] = "."
           /\ \E r \in recs : r[1] = d /\ r[3] = ".."
      /\ \A r \in recs :
           /\ r[3] = "." => r[4] = r[1]
           /\ r[3] \notin {".", ".."} => r[4] \in UsedInodes(img)
      /\ \A i \in UsedInodes(img) :
           LET refs == Cardinality({r \in recs : r[4] = i})
           IN  refs = img.ino[i].nlink /\ (i # RootInode => refs > 0)

check_filesystem(img) ==
  InodesClean(img) /\ BitmapClean(img) /\ TreeClean(img) /\ TotalsClean(img)

============================================================================
