---------------------------- MODULE UfsPopulate ----------------------------
(***************************************************************************)
(* svr4-ufs-populate: a walk of a host directory tree that writes each     *)
(* entry into a fresh volume, then the lines of a node table, then a       *)
(* recount.  Any step that is refused or finds no space ends the program   *)
(* where it stands.                                                        *)
(*                                                                         *)
(* A host tree is a record: the objects by host inode, [kind, links, data, *)
(* readable], and the sorted entries <<name, inode>> of each directory.    *)
(* links is st_nlink, which counts names outside the tree as well.  A name *)
(* that is not UTF-8 is one outside Names, and an object that cannot be    *)
(* read (or a link target that is not UTF-8) is not readable.  Modes,      *)
(* owners and times are left out, and a device number is one value.        *)
(***************************************************************************)
EXTENDS UfsCheck

CONSTANTS
  HostTrees,   \* the trees that are copied
  HostRoot,    \* the host inode of the sysroot
  Tables       \* the node tables: sequences of parsed lines

VARIABLES
  img,         \* the image
  host,        \* the host tree
  table,       \* the node table; none is the empty one
  walk,        \* the calls of populate_dir: entries left, inode of the copy
  hardlinks,   \* hardlinks: host inode -> inode of its copy
  line,        \* the next line of the table
  status       \* how far the program is

vars == <<img, host, table, walk, hardlinks, line, status>>

Init ==
  /\ img = FormattedImage
  /\ host \in HostTrees
  /\ table \in Tables
  /\ walk = <<[left |-> host.names[HostRoot], ino |-> RootInode]>>
  /\ hardlinks = << >>
  /\ line = 1
  /\ status = "walk"

----------------------------------------------------------------------------
(* populate_dir: the next entry of the innermost directory.                *)

Here   == Last(walk)
Name   == Head(Here.left)[1]
Source == Head(Here.left)[2]
Object == host.node[Source]

\* The entry is one of the kinds, and not skipped for its name.
AtEntry(kinds) ==
  /\ status = "walk" /\ Here.left # << >>
  /\ Name \in Names /\ Object.kind \in kinds

\* The innermost call goes on with its next entry.
Advanced == [walk EXCEPT ![Len(walk)].left = Tail(@)]

\* Mutant: the walk goes on after a step that found no space.
TookAnyway(r) ==
  /\ img' = r.img
  /\ status' = IF r.status = "refused" THEN "refused" ELSE status
  /\ UNCHANGED <<host, table>>

\* The steps of an operation are over: with any result but "ok" the whole
\* program is.
Took(r) ==
  /\ img' = r.img
  /\ status' = IF r.status = "ok" THEN status ELSE r.status
  /\ UNCHANGED <<host, table>>

\* What cannot be read ends the program before it changes the image.
IfReadable(r) == IF Object.readable THEN r ELSE Refused(img)

\* read_dir fails after the copy was made.
IfListable(r) == IF Object.readable \/ r.status # "ok" THEN r
                 ELSE Result("refused", r.img, r.ino)

\* The recursive call of populate_dir, into the new directory.
Enter(r) ==
  /\ Took(IfListable(r))
  /\ walk' = Append(Advanced, [left |-> host.names[Source], ino |-> r.ino])
  /\ UNCHANGED <<hardlinks, line>>

CopyDirectory ==
  AtEntry({"dir"}) /\ Enter(mkdir_in_parent(img, Here.ino, Name))

CopySymlink ==
  /\ AtEntry({"symlink"})
  /\ Took(IfReadable(symlink_in_parent(img, Here.ino, Name, Object.data)))
  /\ walk' = Advanced
  /\ UNCHANGED <<hardlinks, line>>

\* Mutant: every name is copied as a file of its own.
NeverKnown(source) == FALSE

\* Whether a copy of the file is known under another name.
Known(source) == host.node[source].links > 1 /\ source \in DOMAIN hardlinks

CopyLink ==
  /\ AtEntry({"file"}) /\ Known(Source)
  /\ Took(link_in_parent(img, Here.ino, Name, hardlinks[Source]))
  /\ walk' = Advanced
  /\ UNCHANGED <<hardlinks, line>>

\* The contents follow the name.
Filled(r, data) ==
  IF r.status = "ok" THEN Finish(set_inode_contents(r.img, r.ino, data), r.ino)
  ELSE r

\* The copy is remembered if there may be other names for it.
Remember(r) ==
  /\ Took(r)
  /\ hardlinks' = IF r.status = "ok" /\ Object.links > 1
                    THEN (Source :> r.ino) @@ hardlinks ELSE hardlinks

CopyFile ==
  /\ AtEntry({"file"}) /\ ~Known(Source)
  /\ Remember(IfReadable(Filled(create_empty_in_parent(img, Here.ino, Name),
                                Object.data)))
  /\ walk' = Advanced
  /\ UNCHANGED line

CopyDevice ==
  /\ AtEntry({"device"})
  /\ Took(mknod_in_parent(img, Here.ino, Name, Object.data[1]))
  /\ walk' = Advanced
  /\ UNCHANGED <<hardlinks, line>>

\* A name that is not UTF-8, or a socket or a pipe.
SkipEntry ==
  /\ status = "walk" /\ Here.left # << >>
  /\ Name \notin Names \/ Object.kind = "other"
  /\ walk' = Advanced
  /\ UNCHANGED <<img, host, table, hardlinks, line, status>>

\* populate_dir returns; after the outermost call the table is applied.
LeaveDirectory ==
  /\ status = "walk" /\ Here.left = << >>
  /\ walk' = Front(walk)
  /\ status' = IF Len(walk) = 1 THEN "table" ELSE "walk"
  /\ UNCHANGED <<img, host, table, hardlinks, line>>

----------------------------------------------------------------------------
(* apply_device_table: paths are sequences of names.                       *)

\* One component of a path: looked up (ino), or made if it is missing.
DescendTo(at, comp, ino) ==
  IF at.status # "ok" THEN at
  ELSE IF ino = FreeIno THEN mkdir_in_parent(at.img, at.ino, comp)
  ELSE IF IsDirectory(at.img, ino) THEN Result("ok", at.img, ino)
  ELSE Refused(at.img)

Descend(at, comp) ==
  DescendTo(at, comp, IF at.status = "ok"
                        THEN lookup_directory_entry(at.img, at.ino, comp)
                        ELSE FreeIno)

\* The directory that is to hold the last name of the path.
ensure_parent_dirs(image, path) ==
  IF path = << >> THEN Refused(image)
  ELSE FoldLeft(Descend, Result("ok", image, RootInode), Front(path))

\* A file's bytes read as records are taken to hold no such name.
resolve_path(image, path) ==
  FoldLeft(LAMBDA at, comp :
             IF at = FreeIno \/ ~IsDirectory(image, at) THEN FreeIno
             ELSE lookup_directory_entry(image, at, comp),
           RootInode, path)

\* The parent (at) was found or made: the line's last name goes there.  A
\* directory is one step down more (ensure_dir_with_mode).
Placed(at, l) ==
  IF at.status # "ok" THEN at
  ELSE CASE l.op = "node" -> mknod_in_parent(at.img, at.ino, Last(l.path), l.rdev)
         [] l.op = "dir"  -> Descend(at, Last(l.path))
         [] l.op = "link" -> link_in_parent(at.img, at.ino, Last(l.path),
                                            resolve_path(img, l.target))

\* A line that does not parse has op "bad"; the target of a link must exist
\* before anything is made.
Rejected(l) ==
  l.op = "bad" \/ (l.op = "link" /\ resolve_path(img, l.target) = FreeIno)

Applied(l) ==
  IF Rejected(l) THEN Refused(img) ELSE Placed(ensure_parent_dirs(img, l.path), l)

ApplyLine ==
  /\ status = "table" /\ line <= Len(table)
  /\ Took(Applied(table[line]))
  /\ line' = line + 1
  /\ UNCHANGED <<walk, hardlinks>>

----------------------------------------------------------------------------

\* Mutant: the counts are left as the allocator kept them.
NoRecount(image) == image

Recounted(image) ==
  [image EXCEPT !.a = recompute_summary_counts(@,
     {i \in UsedInodes(image) : IsDirectory(image, i)}).a]

\* recompute_summary_counts and the flush.
Complete ==
  /\ status = "table" /\ line > Len(table)
  /\ img' = Recounted(img)
  /\ status' = "done"
  /\ UNCHANGED <<host, table, walk, hardlinks, line>>

Next ==
  \/ CopyDirectory \/ CopySymlink \/ CopyLink \/ CopyFile \/ CopyDevice
  \/ SkipEntry \/ LeaveDirectory \/ ApplyLine \/ Complete

Spec == Init /\ [][Next]_vars

----------------------------------------------------------------------------
(* What the volume should hold: for each path the kind and contents of its *)
(* object, and an identity that two paths share if they name one file.     *)

Deepest == NCG * IPG

\* The paths of the host tree that are copied, with their host inodes.
HostPaths ==
  LET below[k \in 0 .. Deepest] ==
        IF k = 0 THEN {<< << >>, HostRoot>>}
        ELSE UNION {{<<Append(p[1], e[1]), e[2]>> : e \in Range(host.names[p[2]])} :
                    p \in {q \in below[k - 1] : host.node[q[2]].kind = "dir"}}
      kept(p) == /\ Range(p[1]) \subseteq Names
                 /\ host.node[p[2]].kind # "other"
  IN  {p \in UNION {below[k] : k \in 1 .. Deepest} : kept(p)}

Thing(kind, data, id) == [kind |-> kind, data |-> data, id |-> id]

\* Only regular files keep their identity.
HostThing(path, source) ==
  LET o == host.node[source]
  IN  Thing(o.kind, IF o.kind = "dir" THEN << >> ELSE o.data,
            IF o.kind = "file" THEN <<"host", source>> ELSE <<"path", path>>)

\* A line adds its path, the directories above it, and nothing else.
WithLine(tree, l) ==
  LET above == {SubSeq(l.path, 1, k) : k \in 1 .. Len(l.path) - 1}
      it    == CASE l.op = "node" -> Thing("device", <<l.rdev>>, <<"path", l.path>>)
                 [] l.op = "dir"  -> Thing("dir", << >>, <<"path", l.path>>)
                 [] l.op = "link" -> tree[l.target]
  IN  IF l.op = "bad" \/ (l.op = "link" /\ l.target \notin DOMAIN tree) THEN tree
      ELSE tree @@ (l.path :> it)
                @@ [p \in above |-> Thing("dir", << >>, <<"path", p>>)]

Wanted ==
  FoldLeft(WithLine,
           [p \in {q[1] : q \in HostPaths} |->
              HostThing(p, (CHOOSE q \in HostPaths : q[1] = p)[2])],
           table)

----------------------------------------------------------------------------

\* The paths of the image, with their inodes.
ImagePaths ==
  LET recs == {r \in AllRecords(img) : r[3] \notin {".", ".."}}
      below[k \in 0 .. Deepest] ==
        IF k = 0 THEN {<< << >>, RootInode>>}
        ELSE {<<Append(p[1], r[3]), r[4]>> :
                <<p, r>> \in {q \in below[k - 1] \X recs : q[2][1] = q[1][2]}}
  IN  UNION {below[k] : k \in 1 .. Deepest}

\* What an inode holds, as Wanted has it.
Contents(ino) ==
  CASE img.ino[ino].mode = "dir"    -> << >>
    [] img.ino[ino].mode = "device" -> <<img.ino[ino].db[1]>>
    [] OTHER -> read_inode_bytes(img, ino)

\* The walk has one call per directory on the way down, each copying into a
\* directory of the image; the files remembered for their links are files.
PopulateTypeOK ==
  /\ img.a \in AllocState
  /\ status \in {"walk", "table", "done", "refused", "full"}
  /\ line \in 1 .. Len(table) + 1
  /\ status = "walk" => \A k \in DOMAIN walk :
       walk[k].ino \in Inode /\ IsDirectory(img, walk[k].ino)
  /\ \A s \in DOMAIN hardlinks : img.ino[hardlinks[s]].mode = "file"

\* At every step before the volume is full, what the image holds is what the
\* host tree and the table ask for: no path but theirs, none twice, the same
\* kind and contents, and two paths are one inode exactly if they are links to
\* one host file.  When the program succeeds, all of it is there.
TreeCopied ==
  status # "full" =>
    LET have == ImagePaths
        want == Wanted
    IN  /\ \A p \in have :
             /\ p[1] \in DOMAIN want
             /\ want[p[1]].kind = img.ino[p[2]].mode
             /\ want[p[1]].data = Contents(p[2])
        /\ \A p, q \in have :
             (p[2] = q[2]) <=> (want[p[1]].id = want[q[1]].id)
        /\ Cardinality({r \in AllRecords(img) : r[3] \notin {".", ".."}})
             = Cardinality({<<r[1], r[3]>> : r \in {s \in AllRecords(img) :
                                                      s[3] \notin {".", ".."}}})
        /\ status = "done" => {p[1] : p \in have} = DOMAIN want

\* A volume that was populated successfully has nothing for the checker to
\* find, and its counts, fragments and directories included, are those of a
\* recount: recompute_summary_counts ran after the last change.
CleanWhenDone ==
  status = "done" =>
    /\ check_filesystem(img)
    /\ \A cg \in CG :
         /\ img.a.nbfree[cg] = Cardinality(FreeBlocks(img.a, cg))
         /\ img.a.nifree[cg] = Cardinality(FreeInodes(img.a, cg))
         /\ img.a.nffree[cg] = Cardinality(LooseFrags(img.a, cg))
         /\ img.a.ndir[cg] = Cardinality({i \in UsedInodes(img) :
                                            itog(i) = cg /\ IsDirectory(img, i)})

============================================================================
