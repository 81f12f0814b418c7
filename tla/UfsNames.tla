------------------------------ MODULE UfsNames ------------------------------
(***************************************************************************)
(* The name operations of write.rs, as operators on an image: create,      *)
(* mkdir, symlink, mknod, link, unlink, rmdir, rename, and the path-based  *)
(* variants that check the name first.  Each returns the image it leaves,  *)
(* the inode it made or removed, and a status: "ok", "refused" (rejected   *)
(* by a check) or "full" (a step found no space; what the steps before it  *)
(* did stays).                                                             *)
(***************************************************************************)
EXTENDS UfsInode, UfsDir

Result(status, img, ino) == [status |-> status, img |-> img, ino |-> ino]

Refused(img) == Result("refused", img, NoInode)

Full(img) == Result("full", img, NoInode)

\* The result of the last step of an operation.
Finish(step, ino) == Result(IF step.ok THEN "ok" ELSE "full", step.img, ino)

IsDirectory(img, ino) == img.ino[ino].mode = "dir"

----------------------------------------------------------------------------
(* Directories on disk: one directory block per fragment.                  *)

\* lookup_directory_entry, and resolve_path one step at a time.
lookup_directory_entry(img, d, name) == LookupIno(read_inode_bytes(img, d), name)

\* Directory block k is written back in place.
PutDirBlock(img, d, k, block) ==
  LET home == inode_data_blocks(img, d)[(k - 1) \div Frag + 1] + ((k - 1) % Frag)
  IN  [ok |-> TRUE, img |-> [img EXCEPT !.store = PutCells(@, home, <<block>>)]]

\* The general path of add_directory_entry: all is the directory with the
\* entry in its first slot, which is in a block of its own or a new one.
InsertAnywhere(img, d, dir, all) ==
  LET dirty == {k \in DOMAIN dir : dir[k] # all.dir[k]}
  IN  IF ~all.ok THEN [ok |-> FALSE, img |-> img]
      ELSE IF Len(all.dir) = Len(dir)
        THEN PutDirBlock(img, d, Min(dirty), all.dir[Min(dirty)])
      ELSE apply_inode_write(img, d, Len(dir), <<Last(all.dir)>>)

\* The fast path: the last block is tried alone when it is not the only one.
InsertInLast(img, d, dir, name, ino) ==
  LET fast == insert_entry(<<Last(dir)>>, ino, name)
  IN  IF Len(dir) > 1 /\ fast.ok /\ Len(fast.dir) = 1
        THEN PutDirBlock(img, d, Len(dir), fast.dir[1])
        ELSE InsertAnywhere(img, d, dir, insert_entry(dir, ino, name))

add_directory_entry(img, d, name, ino) ==
  InsertInLast(img, d, read_inode_bytes(img, d), name, ino)

\* The block that has the name is written back as edited.
EditEntry(img, d, name, edited(_)) ==
  LET put(dir, k) == PutDirBlock(img, d, k, edited(dir[k]))
      edit(dir)   == IF BlocksWith(dir, name) = {} THEN [ok |-> FALSE, img |-> img]
                     ELSE put(dir, Min(BlocksWith(dir, name)))
  IN  edit(read_inode_bytes(img, d))

delete_directory_entry(img, d, name) ==
  LET removed(block) == remove_entry(block, name)
  IN  EditEntry(img, d, name, removed)

update_directory_dotdot(img, d, parent) ==
  LET rewritten(block) == rewrite_entry_inode(block, "..", parent)
  IN  EditEntry(img, d, "..", rewritten)

\* directory_is_empty.
directory_is_empty(img, d) ==
  LET empty(dir) == \A s \in Entries(dir) : dir[s[1]][s[2]].name \in {".", ".."}
  IN  empty(read_inode_bytes(img, d))

\* Mutant: the link is counted the wrong way.
AddLinksReversed(img, read, ino, n) ==
  [img EXCEPT !.ino[ino].nlink = read.ino[ino].nlink - n]

\* Mutant: the link is not counted.
AddNoLinks(img, read, ino, n) == img

\* write_inode_nlink: the count is that of a copy of the inode, read when
\* the image was "read", and n, never below zero.
AddLinks(img, read, ino, n) ==
  LET count == read.ino[ino].nlink + n
  IN  [img EXCEPT !.ino[ino].nlink = IF count < 0 THEN 0 ELSE count]

\* format: every group is laid out and the root directory made.
FormattedImage ==
  LET laid   == initialize_pristine_cgs(BlankAlloc, CG)
      marked == [laid EXCEPT !.used = @ \cup {RootInode}]
      blank  == [a |-> marked,
                 ino |-> [i \in Inode |-> ClearedInode],
                 store |-> [f \in AllDataFrags |-> ZeroCell]]
      rooted == set_inode_contents(
                  [blank EXCEPT !.ino[RootInode] = NewInode("dir", 2)],
                  RootInode, <<build_directory_block(RootInode, RootInode)>>).img
  IN  [rooted EXCEPT !.a = recompute_summary_counts(@, {RootInode}).a]

----------------------------------------------------------------------------
(* Creation: the inode, its contents if it has any, its name, and a link   *)
(* more for the parent of a directory.                                     *)

\* The inode: allocated near its parent and initialised.
MakeInode(img, parent, fresh) ==
  LET made(r) == [ok |-> r.ok, ino |-> r.ino,
                  img |-> IF r.ok THEN [img EXCEPT !.a = r.a, !.ino[r.ino] = fresh]
                          ELSE [img EXCEPT !.a = r.a]]
  IN  made(allocate_inode(img.a, parent, fresh.mode = "dir"))

\* The name, once the inode is made and filled (step).
NameInode(step, parent, name, ino) ==
  IF step.ok THEN Finish(add_directory_entry(step.img, parent, name, ino), ino)
  ELSE Full(step.img)

MakeNamed(img, parent, name, fresh) ==
  LET m == MakeInode(img, parent, fresh)
  IN  IF IsDirectory(img, parent) THEN NameInode(m, parent, name, m.ino)
      ELSE Refused(img)

create_empty_in_parent(img, parent, name) ==
  MakeNamed(img, parent, name, NewInode("file", 1))

\* mknod_in_parent: the device number lies where block addresses go.
mknod_in_parent(img, parent, name, rdev) ==
  MakeNamed(img, parent, name,
            [NewInode("device", 1) EXCEPT
               !.db = [i \in 1 .. NDADDR |-> IF i <= 2 THEN rdev ELSE NoBlock]])

\* The contents of a new inode m, if that was made and data is not empty.
FillInode(m, data) ==
  IF m.ok /\ data # << >> THEN set_inode_contents(m.img, m.ino, data) ELSE m

\* One link more to ino than it was read with, if r went well.
WithLink(r, read, ino) ==
  IF r.status = "ok" THEN [r EXCEPT !.img = AddLinks(@, read, ino, 1)] ELSE r

\* A file, directory or symbolic link with contents.
MakeFilled(parent, name, m, data) ==
  NameInode(FillInode(m, data), parent, name, m.ino)

mkdir_in_parent(img, parent, name) ==
  LET m == MakeInode(img, parent, NewInode("dir", 2))
  IN  IF IsDirectory(img, parent)
        THEN WithLink(MakeFilled(parent, name, m,
                                 <<build_directory_block(m.ino, parent)>>),
                      img, parent)
        ELSE Refused(img)

symlink_in_parent(img, parent, name, target) ==
  MakeFilled(parent, name, MakeInode(img, parent, NewInode("symlink", 1)), target)

link_in_parent(img, parent, name, ino) ==
  IF IsDirectory(img, ino) THEN Refused(img)
  ELSE WithLink(Finish(add_directory_entry(img, parent, name, ino), ino), img, ino)

----------------------------------------------------------------------------
(* The path-based variants: resolve_creation_parent wants a directory      *)
(* without the name.                                                       *)

CreationParent(img, parent, name) ==
  IsDirectory(img, parent) /\ lookup_directory_entry(img, parent, name) = FreeIno

create_file(img, parent, name, data) ==
  IF CreationParent(img, parent, name)
    THEN MakeFilled(parent, name, MakeInode(img, parent, NewInode("file", 1)), data)
    ELSE Refused(img)

make_directory(img, parent, name) ==
  IF CreationParent(img, parent, name) THEN mkdir_in_parent(img, parent, name)
  ELSE Refused(img)

symlink(img, parent, name, target) ==
  IF CreationParent(img, parent, name)
    THEN symlink_in_parent(img, parent, name, target) ELSE Refused(img)

link(img, parent, name, ino) ==
  IF CreationParent(img, parent, name) THEN link_in_parent(img, parent, name, ino)
  ELSE Refused(img)

----------------------------------------------------------------------------
(* Removal.                                                                *)

\* The last steps of a removal, once free_inode_contents (c) has succeeded:
\* clear_inode, free_inode.
ReleaseInode(c, ino, directory) ==
  LET f == free_inode(c.img.a, ino, directory)
  IN  IF ~c.ok THEN Full(c.img)
      ELSE Result(IF f.ok THEN "ok" ELSE "full",
                  [c.img EXCEPT !.ino[ino] = ClearedInode, !.a = f.a], ino)

\* The inode goes once its last name is gone.
DropInode(img, ino, directory) ==
  ReleaseInode(set_inode_contents(img, ino, << >>), ino, directory)

\* Mutant: the contents are freed whether or not another name is left.
UnlinkFreesAlways(img, parent, name) ==
  LET ino == lookup_directory_entry(img, parent, name)
      emptied == set_inode_contents(delete_directory_entry(img, parent, name).img,
                                    ino, << >>)
  IN  IF ino = FreeIno \/ IsDirectory(img, ino) THEN Refused(img)
      ELSE IF img.ino[ino].nlink > 1
        THEN Result("ok", [emptied.img EXCEPT !.ino[ino].nlink = @ - 1], ino)
        ELSE ReleaseInode(emptied, ino, FALSE)

unlink_in_parent(img, parent, name) ==
  LET ino == lookup_directory_entry(img, parent, name)
      unnamed == delete_directory_entry(img, parent, name).img
  IN  IF ino = FreeIno \/ IsDirectory(img, ino) THEN Refused(img)
      ELSE IF img.ino[ino].nlink > 1
        THEN Result("ok", AddLinks(unnamed, img, ino, -1), ino)
        ELSE DropInode(unnamed, ino, FALSE)

rmdir_in_parent(img, parent, name) ==
  LET ino == lookup_directory_entry(img, parent, name)
      unnamed == delete_directory_entry(img, parent, name).img
  IN  IF ino = FreeIno \/ ~IsDirectory(img, ino) \/ ~directory_is_empty(img, ino)
        THEN Refused(img)
        ELSE DropInode(AddLinks(unnamed, img, parent, -1), ino, TRUE)

----------------------------------------------------------------------------
(* rename_in_parent: an existing target is removed, the new name is added, *)
(* a directory that changes parents is re-rooted, and the old name goes.   *)

\* The parents are read again before their counts are written.
MoveLink(img, src, dst) ==
  LET less == AddLinks(img, img, src, -1) IN AddLinks(less, less, dst, 1)

\* Mutant: ".." still names the old parent.
RerootLinksOnly(img, ino, src, dst) ==
  IF ~IsDirectory(img, ino) \/ src = dst THEN [ok |-> TRUE, img |-> img]
  ELSE [ok |-> TRUE, img |-> MoveLink(img, src, dst)]

\* A moved directory points to its new parent, which gains the link.
Reroot(img, ino, src, dst) ==
  LET linked(r) == IF r.ok THEN [r EXCEPT !.img = MoveLink(@, src, dst)] ELSE r
  IN  IF ~IsDirectory(img, ino) \/ src = dst THEN [ok |-> TRUE, img |-> img]
      ELSE linked(update_directory_dotdot(img, ino, dst))

\* Mutant: the old name stays.
KeepName(r, src, srcName, ino) == Result(IF r.ok THEN "ok" ELSE "full", r.img, ino)

\* The old name goes, after Reroot (r).
UnnameSource(r, src, srcName, ino) ==
  IF r.ok THEN Finish(delete_directory_entry(r.img, src, srcName), ino)
  ELSE Full(r.img)

\* The steps after the new name was added (e).
LeaveSource(e, ino, src, srcName, dst) ==
  IF e.ok THEN UnnameSource(Reroot(e.img, ino, src, dst), src, srcName, ino)
  ELSE Full(e.img)

\* The target is removed as unlink and rmdir do.
RemoveTarget(img, dst, dstName, old) ==
  IF old = FreeIno THEN Result("ok", img, NoInode)
  ELSE IF IsDirectory(img, old) THEN rmdir_in_parent(img, dst, dstName)
  ELSE unlink_in_parent(img, dst, dstName)

\* The steps after the target is out of the way (gone).
MoveEntry(gone, ino, src, srcName, dst, dstName) ==
  IF gone.status = "ok"
    THEN LeaveSource(add_directory_entry(gone.img, dst, dstName, ino),
                     ino, src, srcName, dst)
    ELSE gone

\* Mutant: the new parent's count is written from the copy read before the
\* target was removed.
RenameStale(img, src, srcName, dst, dstName) ==
  LET ino == lookup_directory_entry(img, src, srcName)
      old == lookup_directory_entry(img, dst, dstName)
      moved == MoveEntry(RemoveTarget(img, dst, dstName, old),
                         ino, src, srcName, dst, dstName)
  IN  IF \/ ino = FreeIno \/ old = ino
         \/ old # FreeIno /\ IsDirectory(img, ino) # IsDirectory(img, old)
        THEN Refused(img)
      ELSE IF IsDirectory(img, ino) /\ src # dst THEN WithLink(moved, img, dst)
      ELSE moved

rename_in_parent(img, src, srcName, dst, dstName) ==
  LET ino == lookup_directory_entry(img, src, srcName)
      old == lookup_directory_entry(img, dst, dstName)
  IN  IF src = dst /\ srcName = dstName THEN Result("ok", img, NoInode)
      ELSE IF ino = FreeIno THEN Refused(img)
      ELSE IF old = ino THEN Result("ok", img, ino)
      ELSE IF old # FreeIno /\ IsDirectory(img, ino) # IsDirectory(img, old)
        THEN Refused(img)
      ELSE MoveEntry(RemoveTarget(img, dst, dstName, old),
                     ino, src, srcName, dst, dstName)

============================================================================
