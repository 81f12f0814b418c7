---------------------------- MODULE UfsNamespace ----------------------------
(***************************************************************************)
(* A volume under any sequence of name operations, from svr4-ufs-populate  *)
(* (path-based calls) or from the FUSE daemon (parent-based calls, which   *)
(* the kernel makes only for names it has looked up).  Histories are       *)
(* followed up to the first operation that finds no space.                 *)
(***************************************************************************)
EXTENDS UfsCheck

CONSTANTS
  Kinds,      \* the kinds of object that are created: bounds the model
  Rdev,       \* a device number
  Target      \* the target of a symbolic link: a sequence of cells

VARIABLES
  img,        \* the image
  full,       \* whether an operation has found no space
  seen        \* the tree of names a walk of the image finds

vars == <<img, full, seen>>

\* The names of an image: those of its directories, and the kind of every
\* inode.
TreeOf(image) ==
  [entry |-> {<<r[1], r[3], r[4]>> :
                r \in {s \in AllRecords(image) : s[3] \notin {".", ".."}}},
   kind  |-> [i \in Inode |-> image.ino[i].mode]]

Init ==
  /\ img = FormattedImage
  /\ full = FALSE
  /\ seen = TreeOf(img)

----------------------------------------------------------------------------

Dirs == {i \in UsedInodes(img) : IsDirectory(img, i)}

NameIn(d, name) == lookup_directory_entry(img, d, name)

\* Populate and the kernel walk the tree, so a parent is a directory in use.
\* A call that is refused changes nothing: it is no step.
Done(r) ==
  /\ r.status # "refused"
  /\ img' = r.img
  /\ full' = (r.status = "full")
  /\ seen' = TreeOf(r.img)

\* create: from the daemon, for a name the kernel found absent.
CreateEmpty(d, n) ==
  /\ ~full /\ NameIn(d, n) = FreeIno
  /\ Done(create_empty_in_parent(img, d, n))

\* create_file with contents, from populate.
CreateFile(d, n) == ~full /\ Done(create_file(img, d, n, Target))

MakeDirectory(d, n) == ~full /\ Done(make_directory(img, d, n))

Symlink(d, n) == ~full /\ Done(symlink(img, d, n, Target))

Mknod(d, n) ==
  /\ ~full /\ NameIn(d, n) = FreeIno
  /\ Done(mknod_in_parent(img, d, n, Rdev))

Link(d, n, i) ==
  /\ ~full /\ i \in UsedInodes(img)
  /\ Done(link(img, d, n, i))

Unlink(d, n) == ~full /\ Done(unlink_in_parent(img, d, n))

Rmdir(d, n) == ~full /\ Done(rmdir_in_parent(img, d, n))

\* Whether directory d lies at or below directory top; the kernel refuses to
\* move a directory below itself before it calls the daemon.
Below(d, top) ==
  LET up[k \in 0 .. NCG * IPG] ==
        LET below == up[k - 1]
        IN  IF k = 0 THEN {d}
            ELSE below \cup {lookup_directory_entry(img, x, "..") : x \in below}
  IN  top \in up[NCG * IPG]

Rename(d, n, e, m) ==
  /\ ~full
  /\ NameIn(d, n) # FreeIno => ~(NameIn(d, n) \in Dirs /\ Below(e, NameIn(d, n)))
  /\ Done(rename_in_parent(img, d, n, e, m))

\* destroy: recompute_summary_counts on unmount.
Unmount ==
  /\ img' = [img EXCEPT !.a = recompute_summary_counts(@, Dirs).a]
  /\ UNCHANGED <<full, seen>>

Next ==
  \/ \E d \in Dirs, n \in Names :
       \/ "empty" \in Kinds /\ CreateEmpty(d, n)
       \/ "file" \in Kinds /\ CreateFile(d, n)
       \/ "dir" \in Kinds /\ MakeDirectory(d, n)
       \/ "symlink" \in Kinds /\ Symlink(d, n)
       \/ "device" \in Kinds /\ Mknod(d, n)
       \/ Unlink(d, n)
       \/ Rmdir(d, n)
       \/ \E i \in Inode : Link(d, n, i)
       \/ \E e \in Dirs, m \in Names : Rename(d, n, e, m)
  \/ Unmount

Spec == Init /\ [][Next]_vars

----------------------------------------------------------------------------

TypeOK ==
  /\ img.a \in AllocState
  /\ full \in BOOLEAN
  /\ \A i \in Inode : img.ino[i].mode \in InodeMode /\ img.ino[i].nlink \in Nat

\* The checker the test suite uses as its oracle finds nothing after any
\* sequence of operations that found the space they needed.
FsckClean == ~full => check_filesystem(img)

\* Every directory's ".." is the directory that holds its name (the root's
\* is the root), which the checker does not compare: rename across
\* directories re-roots what it moves.
ParentsExact ==
  ~full =>
    LET recs == AllRecords(img)
        up(d) == IF d = RootInode THEN {RootInode}
                 ELSE {r[1] : r \in {s \in recs :
                                       s[4] = d /\ s[3] \notin {".", ".."}}}
    IN  \A d \in Dirs : up(d) = {lookup_directory_entry(img, d, "..")}

\* Symbolic links and device nodes read back as made, whatever is created,
\* moved and removed around them.
ContentsKept ==
  ~full => \A i \in UsedInodes(img) :
    /\ img.ino[i].mode = "symlink" => read_inode_bytes(img, i) = Target
    /\ img.ino[i].mode = "device" => img.ino[i].db[1] = Rdev

Tree == INSTANCE NameTree WITH
  Objects <- Inode,
  AllNames <- Names,
  Root <- RootInode,
  entry <- seen.entry,
  kind <- seen.kind,
  intact <- ~full

\* The operations implement a tree of names: each adds, removes or moves just
\* the name it was asked to, and an object goes with its last name.
ImplementsTree == Tree!TreeSpec

============================================================================
