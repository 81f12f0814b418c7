------------------------------ MODULE UfsMount ------------------------------
(***************************************************************************)
(* The FUSE daemon (svr4-ufs-mount): one action per handler that changes   *)
(* state.  A handler holds the daemon's one mutex from start to end, so    *)
(* handlers are atomic and the interleaving is that of the kernel's        *)
(* requests.  File bodies are buffered per inode while the file is open    *)
(* and committed by whole-file replacement on flush, fsync and release.    *)
(*                                                                         *)
(* The kernel is external: it sends requests for names it looked up and    *)
(* for files it has open, releases every open file once and ignores the    *)
(* answer, and unmounts when no file is open.                              *)
(***************************************************************************)
EXTENDS UfsNamespace

CONSTANTS
  Handle,           \* file handle numbers: bounds the files open at once
  MaxLen,           \* bound on the length of a file
  KeepsOpenNames    \* whether users leave the last name of an open file alone

ASSUME MountAssumption ==
  /\ Handle \subseteq Nat     \* next_fh is a u64
  /\ MaxLen \in Nat
  /\ KeepsOpenNames \in BOOLEAN

VARIABLES
  handles,    \* [Handle -> Inode or NoInode]: the daemon's table
  buffers,    \* [Inode -> NoBuffer or a FileBuf]
  kopen,      \* the handles the kernel has not released
  phase,      \* "mounted", "unmounted" (by destroy) or "killed"
  want        \* [Inode -> Seq of cells]: what was last written to each file

daemon == <<handles, buffers, kopen, phase, want>>

mountVars == <<img, full, seen, handles, buffers, kopen, phase, want>>

FileBuf(data, dirty) == [there |-> TRUE, data |-> data, dirty |-> dirty]

NoBuffer == [there |-> FALSE, data |-> << >>, dirty |-> FALSE]

Data == 1   \* a cell of file data

MountInit ==
  /\ Init
  /\ handles = [h \in Handle |-> NoInode]
  /\ buffers = [i \in Inode |-> NoBuffer]
  /\ kopen = {}
  /\ phase = "mounted"
  /\ want = [i \in Inode |-> << >>]

mounted == phase = "mounted"

----------------------------------------------------------------------------
(* State of the daemon.                                                    *)

\* next_fh only grows; a number is as good as any other that is not in use.
FreshHandles == {h \in Handle \ kopen : handles[h] = NoInode}

fresh == Min(FreshHandles)

IsOpen(i) == \E h \in Handle : handles[h] = i

\* What read answers, and attr_for as the size: the buffer when there is one.
Visible(i) == IF buffers[i].there THEN buffers[i].data
              ELSE read_inode_bytes(img, i)

\* ensure_buffer: the body is loaded from the disk unless it is there.
ensure_buffer(i) ==
  IF buffers[i].there THEN buffers[i] ELSE FileBuf(read_inode_bytes(img, i), FALSE)

\* resize(n, 0).
Resized(data, n) == [k \in 1 .. n |-> IF k <= Len(data) THEN data[k] ELSE ZeroCell]

\* Mutant: the data is inserted, not written over what is there.
Inserted(data, off) ==
  [Resized(data, IF off < Len(data) THEN Len(data) + 1 ELSE off + 1)
     EXCEPT ![off + 1] = Data]

\* One cell of data at offset off, after a hole of zeros if need be.
Spliced(data, off) ==
  [Resized(data, IF off < Len(data) THEN Len(data) ELSE off + 1)
     EXCEPT ![off + 1] = Data]

\* Mutant: an empty buffer counts as nothing to write.
CommitNonEmpty(i) ==
  IF buffers[i].dirty /\ buffers[i].data # << >>
    THEN set_inode_contents(img, i, buffers[i].data)
    ELSE [ok |-> TRUE, img |-> img]

\* commit: a dirty buffer replaces the body of the inode.
commit(i) ==
  IF buffers[i].dirty THEN set_inode_contents(img, i, buffers[i].data)
  ELSE [ok |-> TRUE, img |-> img]

\* The image after commit r: a failed one has found no space.
Committed(r) ==
  /\ img' = r.img
  /\ full' = (full \/ ~r.ok)
  /\ seen' = TreeOf(r.img)

NameSpaceOnly == mounted /\ UNCHANGED daemon

----------------------------------------------------------------------------
(* Handlers on open files.                                                 *)

\* create: the new file starts with an empty clean buffer and a handle.
FuseCreate(d, n) ==
  LET opened(i) ==
        /\ handles' = [handles EXCEPT ![fresh] = i]
        /\ buffers' = [buffers EXCEPT ![i] = FileBuf(<< >>, FALSE)]
        /\ want' = [want EXCEPT ![i] = << >>]
        /\ kopen' = kopen \cup {fresh}
      answer(r) ==
        /\ Done(r)
        /\ IF r.status = "ok" THEN opened(r.ino)
           ELSE UNCHANGED <<handles, buffers, want, kopen>>
  IN  /\ mounted /\ ~full /\ FreshHandles # {} /\ NameIn(d, n) = FreeIno
      /\ answer(create_empty_in_parent(img, d, n))
      /\ UNCHANGED phase

\* open: a handle and nothing else; the buffer waits for the first write.
FuseOpen(i) ==
  /\ mounted /\ FreshHandles # {}
  /\ i \in UsedInodes(img) /\ img.ino[i].mode = "file"
  /\ handles' = [handles EXCEPT ![fresh] = i]
  /\ kopen' = kopen \cup {fresh}
  /\ UNCHANGED <<img, full, seen, buffers, phase, want>>

\* write: ensure_buffer, then the data is spliced in.
FuseWrite(h, off) ==
  LET i == handles[h]
  IN  /\ mounted /\ h \in kopen
      /\ buffers' = [buffers EXCEPT ![i] =
                        FileBuf(Spliced(ensure_buffer(i).data, off), TRUE)]
      /\ want' = [want EXCEPT ![i] = Spliced(@, off)]
      /\ UNCHANGED <<img, full, seen, handles, kopen, phase>>

\* Mutant: the buffer is left as it is.
TruncateDisk(i, n) ==
  /\ mounted /\ i \in UsedInodes(img) /\ img.ino[i].mode = "file"
  /\ Committed(truncate(img, i, n))
  /\ want' = [want EXCEPT ![i] = Resized(@, n)]
  /\ UNCHANGED <<buffers, handles, kopen, phase>>

\* setattr with a size: the buffer when there is one, else the disk.
FuseTruncate(i, n) ==
  /\ mounted /\ i \in UsedInodes(img) /\ img.ino[i].mode = "file"
  /\ \/ /\ buffers[i].there
        /\ buffers' = [buffers EXCEPT ![i] = FileBuf(Resized(@.data, n), TRUE)]
        /\ UNCHANGED <<img, full, seen>>
     \/ /\ ~buffers[i].there
        /\ Committed(truncate(img, i, n))
        /\ UNCHANGED buffers
  /\ want' = [want EXCEPT ![i] = Resized(@, n)]
  /\ UNCHANGED <<handles, kopen, phase>>

\* flush (on every close) and fsync (which also syncs the mapping).
FuseFlush(h) ==
  LET clean(i, r) ==
        /\ Committed(r)
        /\ buffers' = IF r.ok THEN [buffers EXCEPT ![i].dirty = FALSE] ELSE buffers
  IN  /\ mounted /\ h \in kopen
      /\ clean(handles[h], commit(handles[h]))
      /\ UNCHANGED <<handles, kopen, phase, want>>

\* Mutant: the handle that is going counts as open.
NoOtherHandleYet(h) == \A g \in Handle : handles[g] # handles[h]

\* still_open is false: no other handle has the inode.
LastHandle(h) == \A g \in Handle \ {h} : handles[g] # handles[h]

\* Mutant: only the last handle commits.
ReleaseLastCommits(h) ==
  LET drop(i, r) ==
        /\ Committed(r)
        /\ handles' = IF r.ok THEN [handles EXCEPT ![h] = NoInode] ELSE handles
        /\ buffers' = IF r.ok /\ LastHandle(h) THEN [buffers EXCEPT ![i] = NoBuffer]
                      ELSE buffers
  IN  /\ mounted /\ h \in kopen
      /\ kopen' = kopen \ {h}
      /\ drop(handles[h], IF LastHandle(h) THEN commit(handles[h])
                          ELSE [ok |-> TRUE, img |-> img])
      /\ UNCHANGED <<phase, want>>

\* release: commit first, and on an error return with the handle and the
\* buffer still there; else both go, the buffer with the last handle.
FuseRelease(h) ==
  LET drop(i, r) ==
        /\ Committed(r)
        /\ handles' = IF r.ok THEN [handles EXCEPT ![h] = NoInode] ELSE handles
        /\ buffers' = IF ~r.ok THEN buffers
                      ELSE IF LastHandle(h) THEN [buffers EXCEPT ![i] = NoBuffer]
                      ELSE [buffers EXCEPT ![i].dirty = FALSE]
  IN  /\ mounted /\ h \in kopen
      /\ kopen' = kopen \ {h}
      /\ drop(handles[h], commit(handles[h]))
      /\ UNCHANGED <<phase, want>>

----------------------------------------------------------------------------
(* Handlers that only change names.                                        *)

\* What goes with a name that unlink or rename removes: a file without
\* another name.
GoesWith(d, n) == IF img.ino[NameIn(d, n)].nlink > 1 THEN {} ELSE {NameIn(d, n)}

\* External: users who leave the last name of an open file alone.
MayUnname(d, n) == KeepsOpenNames => \A i \in GoesWith(d, n) : ~IsOpen(i)

FuseMkdir(d, n) == NameIn(d, n) = FreeIno /\ MakeDirectory(d, n) /\ NameSpaceOnly

FuseMknod(d, n) == Mknod(d, n) /\ NameSpaceOnly

FuseSymlink(d, n) == NameIn(d, n) = FreeIno /\ Symlink(d, n) /\ NameSpaceOnly

FuseLink(d, n, i) == NameIn(d, n) = FreeIno /\ Link(d, n, i) /\ NameSpaceOnly

FuseUnlink(d, n) == MayUnname(d, n) /\ Unlink(d, n) /\ NameSpaceOnly

FuseRmdir(d, n) == Rmdir(d, n) /\ NameSpaceOnly

FuseRename(d, n, e, m) ==
  MayUnname(e, m) /\ Rename(d, n, e, m) /\ NameSpaceOnly

----------------------------------------------------------------------------
(* The end of a mount and the next one.                                    *)

\* The process and its tables are gone; main starts with empty ones.
Exit(how) ==
  /\ phase' = how
  /\ handles' = [h \in Handle |-> NoInode]
  /\ buffers' = [i \in Inode |-> NoBuffer]
  /\ kopen' = {}

\* Mutant: the counts are left as they are.
DestroyAsIs ==
  mounted /\ kopen = {} /\ Exit("unmounted") /\ UNCHANGED <<img, full, seen, want>>

\* destroy: the counts are recomputed; buffers are not looked at.
Destroy ==
  /\ mounted /\ kopen = {}
  /\ img' = [img EXCEPT !.a = recompute_summary_counts(@, Dirs).a]
  /\ Exit("unmounted")
  /\ UNCHANGED <<full, seen, want>>

\* The daemon is killed between two requests: what is only in its buffers is
\* lost, what it wrote to the shared mapping is not.
Kill ==
  /\ mounted
  /\ want' = [i \in Inode |-> IF buffers[i].dirty THEN read_inode_bytes(img, i)
                              ELSE want[i]]
  /\ Exit("killed")
  /\ UNCHANGED <<img, full, seen>>

Mount ==
  /\ ~mounted
  /\ phase' = "mounted"
  /\ UNCHANGED <<img, full, seen, handles, buffers, kopen, want>>

MountNext ==
  \/ \E d \in Dirs, n \in Names :
       \/ FuseCreate(d, n)
       \/ "dir" \in Kinds /\ FuseMkdir(d, n)
       \/ "symlink" \in Kinds /\ FuseSymlink(d, n)
       \/ "device" \in Kinds /\ FuseMknod(d, n)
       \/ FuseUnlink(d, n)
       \/ FuseRmdir(d, n)
       \/ \E i \in Inode : FuseLink(d, n, i)
       \/ \E e \in Dirs, m \in Names : FuseRename(d, n, e, m)
  \/ \E i \in Inode : FuseOpen(i)
  \/ \E i \in Inode, n \in 0 .. MaxLen : FuseTruncate(i, n)
  \/ \E h \in Handle, off \in 0 .. MaxLen - 1 : FuseWrite(h, off)
  \/ \E h \in Handle : FuseFlush(h)
  \/ \E h \in Handle : FuseRelease(h)
  \/ Destroy
  \/ Kill
  \/ Mount

MountSpec == MountInit /\ [][MountNext]_mountVars

\* A step after which the kernel no longer has handle h open: its release
\* (which is possible whenever h is open), or the end of the daemon.
Closes(h) == mounted /\ h \in kopen /\ kopen' = kopen \ {h}

\* Users close what they open, and the kernel then releases it.
FairMountSpec == MountSpec /\ \A h \in Handle : WF_kopen(Closes(h))

----------------------------------------------------------------------------

MountTypeOK ==
  /\ TypeOK
  /\ handles \in [Handle -> Inode \cup {NoInode}]
  /\ \A i \in Inode : /\ Len(want[i]) \in 0 .. MaxLen
                      /\ Len(buffers[i].data) \in 0 .. MaxLen
                      /\ buffers[i].there \in BOOLEAN
                      /\ buffers[i].dirty \in BOOLEAN
  /\ kopen \subseteq Handle
  /\ phase \in {"mounted", "unmounted", "killed"}

Files == {i \in UsedInodes(img) : img.ino[i].mode = "file"}

\* A read sees every write and truncation before it, through whichever
\* handle they came, whether the body is buffered, committed, or buffered
\* again after a release.
ReadsLatest == ~full => \A i \in Files : Visible(i) = want[i]

\* Nothing is only in memory once a file is closed: a file without handles,
\* and every file of an unmounted image, has its contents on disk.  destroy
\* relies on it: it does not look at the buffers.
ClosedIsOnDisk ==
  ~full => \A i \in Files : ~IsOpen(i) => read_inode_bytes(img, i) = want[i]

\* The module comment: a buffer is "freed when the last handle to that inode
\* is released".  Handles the kernel has released are not open.
BufferFreed ==
  mounted => \A i \in Inode :
    buffers[i].there => \E h \in kopen : handles[h] = i

\* The same while every commit finds space.
BufferFreedUnlessFull == ~full => BufferFreed

\* "recompute_summary_counts runs once in destroy so the unmounted image is
\* fsck-clean": the checker finds nothing in an unmounted image, and the
\* counts are those of a recount.
UnmountedClean ==
  phase = "unmounted" /\ ~full =>
    /\ check_filesystem(img)
    /\ \A cg \in CG : /\ img.a.nbfree[cg] = Cardinality(FreeBlocks(img.a, cg))
                      /\ img.a.nifree[cg] = Cardinality(FreeInodes(img.a, cg))
                      /\ img.a.nffree[cg] = Cardinality(LooseFrags(img.a, cg))

\* Data that was written reaches the disk, unless the daemon is killed or
\* the volume is full: a file that some handle always keeps open is still
\* committed, for every release commits and not just the last.
DirtyIsCommitted ==
  \A i \in Inode : buffers[i].dirty ~> (~buffers[i].dirty \/ full)

============================================================================
