--------------------------- MODULE UfsMountProofs ---------------------------
(***************************************************************************)
(* Proofs about the FUSE daemon of UfsMount, for any number of handles,    *)
(* any volume and any requests: the file bodies it keeps in memory are     *)
(* those of the files the kernel has open; and over an image that serves   *)
(* it, reads answer the latest writes and closed files are on the image.   *)
(***************************************************************************)
EXTENDS UfsMount, UfsGeometryLemmas

----------------------------------------------------------------------------
(* The tables of the daemon.                                               *)

\* Both tables are total, and a buffer has the three fields of FileBuf.
TablesOK ==
  /\ DOMAIN handles = Handle
  /\ kopen \subseteq Handle
  /\ DOMAIN buffers = Inode
  /\ \A i \in Inode : DOMAIN buffers[i] = {"there", "data", "dirty"}

\* While every commit has found space, a handle in the table is one that the
\* kernel has open: without it, a release that is not the last one by the
\* table could still be the last one for the kernel.
HandlesOK == ~full => \A h \in Handle : handles[h] # NoInode => h \in kopen

\* BufferFreed in every phase: a daemon that is gone holds no buffers.
BuffersOK ==
  ~full => \A i \in Inode :
    buffers[i].there => \E h \in kopen : handles[h] = i

MountInv == TablesOK /\ HandlesOK /\ BuffersOK

\* The number open and create hand out is not in use.
LEMMA FreshIsFree ==
  ASSUME FreshHandles # {}
  PROVE  fresh \in Handle /\ fresh \notin kopen /\ handles[fresh] = NoInode
<1>1. FreshHandles \subseteq Nat  BY MountAssumption DEF FreshHandles
<1>2. fresh \in FreshHandles  BY <1>1, MinInSet DEF fresh
<1> QED  BY <1>2 DEF FreshHandles

\* No inode has the number that marks a handle as unused.
LEMMA NoInodeIsNone == NoInode \notin Inode
  BY GeometryAssumption DEF NoInode, Inode

\* The fields of the buffers a handler stores.
LEMMA BufferFields ==
  /\ \A data, dirty : /\ DOMAIN FileBuf(data, dirty) = {"there", "data", "dirty"}
                      /\ FileBuf(data, dirty).there
  /\ DOMAIN NoBuffer = {"there", "data", "dirty"} /\ ~NoBuffer.there
  BY DEF FileBuf, NoBuffer

----------------------------------------------------------------------------
(* The handlers.                                                           *)

\* A freshly started daemon has empty tables.
LEMMA MountInitInv == MountInit => MountInv
<1> SUFFICES ASSUME MountInit  PROVE MountInv  OBVIOUS
<1>1. /\ handles = [h \in Handle |-> NoInode]
      /\ buffers = [i \in Inode |-> NoBuffer] /\ kopen = {}
  BY DEF MountInit
<1>2. TablesOK  BY <1>1, BufferFields DEF TablesOK
<1>3. HandlesOK  BY <1>1 DEF HandlesOK
<1>4. BuffersOK  BY <1>1, BufferFields DEF BuffersOK
<1> QED  BY <1>2, <1>3, <1>4 DEF MountInv

\* open and create: a new handle on i, whose buffer may be set.
LEMMA OpenKeeps ==
  ASSUME MountInv, FreshHandles # {}, full' \/ ~full, NEW i,
         handles' = [handles EXCEPT ![fresh] = i],
         kopen' = kopen \cup {fresh},
         \/ buffers' = buffers
         \/ buffers' = [buffers EXCEPT ![i] = FileBuf(<< >>, FALSE)]
  PROVE  MountInv'
<1>1. fresh \in Handle /\ fresh \notin kopen /\ handles[fresh] = NoInode
  BY FreshIsFree
<1>2. TablesOK'
  <2>1. DOMAIN handles' = Handle /\ kopen' \subseteq Handle
    BY <1>1 DEF MountInv, TablesOK
  <2>2. DOMAIN buffers' = Inode /\ \A j \in Inode :
          DOMAIN buffers'[j] = {"there", "data", "dirty"}
    <3>1. CASE buffers' = buffers  BY <3>1 DEF MountInv, TablesOK
    <3>2. CASE buffers' = [buffers EXCEPT ![i] = FileBuf(<< >>, FALSE)]
      BY <3>2, BufferFields DEF MountInv, TablesOK
    <3> QED  BY <3>1, <3>2
  <2> QED  BY <2>1, <2>2 DEF TablesOK
<1>3. handles'[fresh] = i /\ \A h \in Handle : h # fresh => handles'[h] = handles[h]
  BY <1>1 DEF MountInv, TablesOK
<1>4. HandlesOK'  BY <1>1, <1>3 DEF MountInv, HandlesOK
<1>5. BuffersOK'
  <2> SUFFICES ASSUME ~full', NEW j \in Inode, buffers'[j].there
               PROVE  \E h \in kopen' : handles'[h] = j
    BY DEF BuffersOK
  <2>1. CASE j = i  BY <1>3, <2>1
  <2>2. CASE j # i
    <3>1. buffers'[j] = buffers[j]  BY <2>2 DEF MountInv, TablesOK
    <3>2. PICK h \in kopen : handles[h] = j  BY <3>1 DEF MountInv, BuffersOK
    <3>3. h \in Handle /\ h # fresh  BY <1>1, <3>2 DEF MountInv, TablesOK
    <3> QED  BY <1>3, <3>2, <3>3
  <2> QED  BY <2>1, <2>2
<1> QED  BY <1>2, <1>4, <1>5 DEF MountInv

\* A handler that leaves the handles alone and creates no buffer but that of
\* an open file.
LEMMA BufferStepKeeps ==
  ASSUME MountInv, handles' = handles, kopen' = kopen, full' \/ ~full,
         DOMAIN buffers' = Inode,
         \A i \in Inode :
           /\ DOMAIN buffers'[i] = {"there", "data", "dirty"}
           /\ buffers'[i].there =>
                buffers[i].there \/ \E h \in kopen : handles[h] = i
  PROVE  MountInv'
<1>1. TablesOK'  BY DEF MountInv, TablesOK
<1>2. HandlesOK'  BY DEF MountInv, HandlesOK
<1>3. BuffersOK'  BY DEF MountInv, BuffersOK
<1> QED  BY <1>1, <1>2, <1>3 DEF MountInv

\* The handlers that only change names.
LEMMA NamesKeep ==
  ASSUME MountInv, NameSpaceOnly, ~full  PROVE MountInv'
<1>1. handles' = handles /\ kopen' = kopen /\ buffers' = buffers
  BY DEF NameSpaceOnly, daemon
<1> QED  BY <1>1, BufferStepKeeps DEF MountInv, TablesOK

\* The daemon ends, and its tables with it.
LEMMA ExitKeeps ==
  ASSUME NEW how, Exit(how)  PROVE MountInv'
<1>1. /\ handles' = [h \in Handle |-> NoInode]
      /\ buffers' = [i \in Inode |-> NoBuffer] /\ kopen' = {}
  BY DEF Exit
<1>2. TablesOK'  BY <1>1, BufferFields DEF TablesOK
<1>3. HandlesOK'  BY <1>1 DEF HandlesOK
<1>4. BuffersOK'  BY <1>1, BufferFields DEF BuffersOK
<1> QED  BY <1>2, <1>3, <1>4 DEF MountInv

\* A buffer keeps its fields when it is marked clean.
LEMMA CleanKeeps ==
  ASSUME TablesOK, NEW i
  PROVE  LET b == [buffers EXCEPT ![i].dirty = FALSE]
         IN  /\ DOMAIN b = Inode
             /\ \A j \in Inode : /\ DOMAIN b[j] = {"there", "data", "dirty"}
                                 /\ b[j].there = buffers[j].there
<1> DEFINE c == [buffers[i] EXCEPT !.dirty = FALSE]
           b == [buffers EXCEPT ![i].dirty = FALSE]
<1>1. DOMAIN b = Inode /\ \A j \in Inode : b[j] = IF j = i THEN c ELSE buffers[j]
  BY DEF TablesOK
<1>2. i \in Inode => DOMAIN c = {"there", "data", "dirty"} /\ c.there = buffers[i].there
  BY DEF TablesOK
<1> HIDE DEF b, c
<1>3. \A j \in Inode : /\ DOMAIN b[j] = {"there", "data", "dirty"}
                       /\ b[j].there = buffers[j].there
  BY <1>1, <1>2 DEF TablesOK
<1> QED  BY <1>1, <1>3 DEF b

\* release: the buffer goes with the last handle, so what stays is open.
LEMMA ReleaseKeeps ==
  ASSUME MountInv, NEW h \in Handle, FuseRelease(h)  PROVE MountInv'
<1> DEFINE i == handles[h]
           r == commit(i)
<1>1. /\ h \in kopen /\ kopen' = kopen \ {h} /\ full' = (full \/ ~r.ok)
      /\ handles' = IF r.ok THEN [handles EXCEPT ![h] = NoInode] ELSE handles
      /\ buffers' = IF ~r.ok THEN buffers
                    ELSE IF LastHandle(h) THEN [buffers EXCEPT ![i] = NoBuffer]
                    ELSE [buffers EXCEPT ![i].dirty = FALSE]
  BY DEF FuseRelease, Committed
<1> HIDE DEF r
<1>2. TablesOK'
  <2>1. DOMAIN handles' = Handle /\ kopen' \subseteq Handle
    BY <1>1 DEF MountInv, TablesOK
  <2>2. DOMAIN buffers' = Inode /\ \A j \in Inode :
          DOMAIN buffers'[j] = {"there", "data", "dirty"}
    <3>1. CASE buffers' = buffers  BY <3>1 DEF MountInv, TablesOK
    <3>2. CASE buffers' = [buffers EXCEPT ![i] = NoBuffer]
      BY <3>2, BufferFields DEF MountInv, TablesOK
    <3>3. CASE buffers' = [buffers EXCEPT ![i].dirty = FALSE]
      BY <3>3, CleanKeeps DEF MountInv
    <3> QED  BY <1>1, <3>1, <3>2, <3>3
  <2> QED  BY <2>1, <2>2 DEF TablesOK
<1>3. CASE full'
  BY <1>2, <1>3 DEF MountInv, HandlesOK, BuffersOK
<1>4. CASE ~full'
  <2>1. ~full /\ r.ok  BY <1>1, <1>4
  <2>2. /\ handles'[h] = NoInode
        /\ \A g \in Handle : g # h => handles'[g] = handles[g]
    BY <1>1, <2>1 DEF MountInv, TablesOK
  <2>3. HandlesOK'  BY <1>1, <2>1, <2>2 DEF MountInv, HandlesOK
  <2>4. BuffersOK'
    <3> SUFFICES ASSUME NEW j \in Inode, buffers'[j].there
                 PROVE  \E g \in kopen' : handles'[g] = j
      BY DEF BuffersOK
    <3>1. CASE j # i
      <4>1. buffers'[j] = buffers[j]
        BY <1>1, <2>1, <3>1 DEF MountInv, TablesOK
      <4>2. PICK g \in kopen : handles[g] = j
        BY <2>1, <4>1 DEF MountInv, BuffersOK
      <4>3. g \in Handle /\ g # h  BY <3>1, <4>2 DEF MountInv, TablesOK
      <4> QED  BY <1>1, <2>2, <4>2, <4>3
    <3>2. CASE j = i
      <4>1. ~LastHandle(h)
        <5>1. LastHandle(h) => buffers'[j] = NoBuffer
          BY <1>1, <2>1, <3>2 DEF MountInv, TablesOK
        <5> QED  BY <5>1, BufferFields
      <4>2. PICK g \in Handle \ {h} : handles[g] = handles[h]
        BY <4>1 DEF LastHandle
      <4>3. g \in kopen
        BY <2>1, <3>2, <4>2, NoInodeIsNone DEF MountInv, HandlesOK
      <4> QED  BY <1>1, <2>2, <3>2, <4>2, <4>3
    <3> QED  BY <3>1, <3>2
  <2> QED  BY <1>2, <2>3, <2>4 DEF MountInv
<1> QED  BY <1>3, <1>4

\* Every request, the end of the daemon, its restart, and stuttering.
LEMMA MountNextInv == MountInv /\ [MountNext]_mountVars => MountInv'
<1> SUFFICES ASSUME MountInv, [MountNext]_mountVars  PROVE MountInv'
  OBVIOUS
<1>1. ASSUME NEW d, NEW n, FuseCreate(d, n)  PROVE MountInv'
  <2> DEFINE r == create_empty_in_parent(img, d, n)
  <2>1. /\ ~full /\ FreshHandles # {}
        /\ IF r.status = "ok"
             THEN /\ handles' = [handles EXCEPT ![fresh] = r.ino]
                  /\ buffers' = [buffers EXCEPT ![r.ino] = FileBuf(<< >>, FALSE)]
                  /\ kopen' = kopen \cup {fresh}
             ELSE handles' = handles /\ buffers' = buffers /\ kopen' = kopen
    BY <1>1, Zenon DEF FuseCreate
  <2> HIDE DEF r
  <2>2. CASE r.status = "ok"  BY <2>1, <2>2, OpenKeeps
  <2>3. CASE r.status # "ok"
    BY <2>1, <2>3, BufferStepKeeps DEF MountInv, TablesOK
  <2> QED  BY <2>2, <2>3
<1>2. ASSUME NEW d, NEW n,
             \/ FuseMkdir(d, n) \/ FuseSymlink(d, n) \/ FuseMknod(d, n)
             \/ FuseUnlink(d, n) \/ FuseRmdir(d, n)
             \/ \E i \in Inode : FuseLink(d, n, i)
             \/ \E e \in Dirs, m \in Names : FuseRename(d, n, e, m)
      PROVE  MountInv'
  <2>1. NameSpaceOnly /\ ~full
    BY <1>2, Zenon DEF FuseMkdir, FuseSymlink, FuseMknod, FuseUnlink, FuseRmdir,
       FuseLink, FuseRename, MakeDirectory, Symlink, Mknod, Unlink, Rmdir, Link,
       Rename
  <2> QED  BY <2>1, NamesKeep
<1>3. ASSUME NEW i \in Inode, FuseOpen(i)  PROVE MountInv'
  <2>1. /\ FreshHandles # {} /\ full' = full /\ buffers' = buffers
        /\ handles' = [handles EXCEPT ![fresh] = i] /\ kopen' = kopen \cup {fresh}
    BY <1>3, Zenon DEF FuseOpen
  <2> QED  BY <2>1, OpenKeeps
<1>4. ASSUME NEW i \in Inode, NEW n, FuseTruncate(i, n)  PROVE MountInv'
  <2> DEFINE r == truncate(img, i, n)
             new == [buffers EXCEPT ![i] = FileBuf(Resized(buffers[i].data, n), TRUE)]
  <2>1. /\ handles' = handles /\ kopen' = kopen
        /\ \/ buffers[i].there /\ buffers' = new /\ full' = full
           \/ buffers' = buffers /\ full' = (full \/ ~r.ok)
    BY <1>4, Zenon DEF FuseTruncate, Committed
  <2> HIDE DEF r, new
  <2>1a. full' \/ ~full  BY <2>1
  <2>2. CASE buffers' = buffers
    BY <2>1, <2>1a, <2>2, BufferStepKeeps DEF MountInv, TablesOK
  <2>3. CASE buffers[i].there /\ buffers' = new /\ full' = full
    <3>1. DOMAIN buffers' = Inode /\ \A j \in Inode :
            /\ DOMAIN buffers'[j] = {"there", "data", "dirty"}
            /\ buffers'[j].there => buffers[j].there
      BY <2>3, BufferFields DEF MountInv, TablesOK, new
    <3> QED  BY <2>1, <2>1a, <3>1, BufferStepKeeps
  <2> QED  BY <2>1, <2>2, <2>3
<1>5. ASSUME NEW h \in Handle, NEW off, FuseWrite(h, off)  PROVE MountInv'
  <2>1. /\ handles' = handles /\ kopen' = kopen /\ full' = full /\ h \in kopen
        /\ \E data : buffers' = [buffers EXCEPT ![handles[h]] = FileBuf(data, TRUE)]
    BY <1>5, Zenon DEF FuseWrite
  <2>2. PICK data : buffers' = [buffers EXCEPT ![handles[h]] = FileBuf(data, TRUE)]
    BY <2>1
  <2>3. DOMAIN buffers' = Inode /\ \A j \in Inode :
          /\ DOMAIN buffers'[j] = {"there", "data", "dirty"}
          /\ buffers'[j].there => buffers[j].there \/ handles[h] = j
    BY <2>2, BufferFields DEF MountInv, TablesOK
  <2> QED  BY <2>1, <2>3, BufferStepKeeps
<1>6. ASSUME NEW h \in Handle, FuseFlush(h)  PROVE MountInv'
  <2>1. /\ handles' = handles /\ kopen' = kopen /\ (full' \/ ~full)
        /\ \/ buffers' = buffers
           \/ buffers' = [buffers EXCEPT ![handles[h]].dirty = FALSE]
    BY <1>6 DEF FuseFlush, Committed
  <2>2. DOMAIN buffers' = Inode /\ \A j \in Inode :
          /\ DOMAIN buffers'[j] = {"there", "data", "dirty"}
          /\ buffers'[j].there = buffers[j].there
    <3>1. CASE buffers' = buffers  BY <3>1 DEF MountInv, TablesOK
    <3>2. CASE buffers' = [buffers EXCEPT ![handles[h]].dirty = FALSE]
      BY <3>2, CleanKeeps DEF MountInv
    <3> QED  BY <2>1, <3>1, <3>2
  <2> QED  BY <2>1, <2>2, BufferStepKeeps
<1>7. ASSUME NEW h \in Handle, FuseRelease(h)  PROVE MountInv'
  BY <1>7, ReleaseKeeps
<1>8. ASSUME Destroy  PROVE MountInv'
  <2>1. Exit("unmounted")  BY <1>8, Zenon DEF Destroy
  <2> QED  BY <2>1, ExitKeeps
<1>9. ASSUME Kill  PROVE MountInv'
  <2>1. Exit("killed")  BY <1>9, Zenon DEF Kill
  <2> QED  BY <2>1, ExitKeeps
<1>10. ASSUME Mount \/ UNCHANGED mountVars  PROVE MountInv'
  <2>1. handles' = handles /\ kopen' = kopen /\ buffers' = buffers /\ full' = full
    BY <1>10, Zenon DEF Mount, mountVars
  <2> QED  BY <2>1, BufferStepKeeps DEF MountInv, TablesOK
<1> QED
  BY <1>1, <1>2, <1>3, <1>4, <1>5, <1>6, <1>7, <1>8, <1>9, <1>10, Zenon
  DEF MountNext

\* The daemon's memory is that of its open files: while commits find space, a
\* body is buffered only for a file the kernel still has open, whichever of
\* several handles is released first, and across kills and remounts
\* (release's still_open test).
THEOREM BuffersAreFreed == MountSpec => []BufferFreedUnlessFull
<1>1. MountInv => BufferFreedUnlessFull
  BY DEF MountInv, BuffersOK, BufferFreedUnlessFull, BufferFreed
<1> QED  BY <1>1, MountInitInv, MountNextInv, PTL DEF MountSpec

----------------------------------------------------------------------------
(* What the daemon relies on the image layer for.                          *)

\* The regular files of an image.
FilesIn(image) == {i \in UsedInodes(image) : image.ino[i].mode = "file"}

\* The bodies a file can have: the data of writes, and zeros.
Bodies == UNION {[1 .. n -> {ZeroCell, Data}] : n \in 0 .. MaxLen}

\* The call with result r, if it succeeded, left body in file i and the other
\* files as they were.
Replaces(r, i, body) ==
  r.ok => /\ FilesIn(r.img) = Files
          /\ \A j \in Files : read_inode_bytes(r.img, j) =
                                IF j = i THEN body ELSE read_inode_bytes(img, j)

\* The name operation with result r, unless it found no space, made no file,
\* removed none but those of gone, and left the bodies of the others alone.
KeepsFiles(r, gone) ==
  r.status # "full" =>
    /\ FilesIn(r.img) \subseteq Files
    /\ Files \ gone \subseteq FilesIn(r.img)
    /\ \A j \in FilesIn(r.img) : read_inode_bytes(r.img, j) = read_inode_bytes(img, j)

\* The operation with result r, if it succeeded, made one empty file.
MakesFile(r) ==
  r.status = "ok" =>
    /\ r.ino \in Inode \ Files /\ FilesIn(r.img) = Files \cup {r.ino}
    /\ read_inode_bytes(r.img, r.ino) = << >>
    /\ \A j \in Files : read_inode_bytes(r.img, j) = read_inode_bytes(img, j)

\* Replacement and truncation.
BodiesServed ==
  \A i \in Files :
    /\ \A body \in Bodies : Replaces(set_inode_contents(img, i, body), i, body)
    /\ \A n \in 0 .. MaxLen :
         Replaces(truncate(img, i, n), i, Resized(read_inode_bytes(img, i), n))

\* The name operations.
NamesServed ==
  \A d \in Dirs, n \in Names :
    /\ MakesFile(create_empty_in_parent(img, d, n))
    /\ KeepsFiles(make_directory(img, d, n), {})
    /\ KeepsFiles(symlink(img, d, n, Target), {})
    /\ KeepsFiles(mknod_in_parent(img, d, n, Rdev), {})
    /\ \A i \in UsedInodes(img) : KeepsFiles(link(img, d, n, i), {})
    /\ KeepsFiles(unlink_in_parent(img, d, n), GoesWith(d, n))
    /\ KeepsFiles(rmdir_in_parent(img, d, n), {})
    /\ \A e \in Dirs, m \in Names :
         KeepsFiles(rename_in_parent(img, d, n, e, m), GoesWith(e, m))

\* A formatted image has no files, and a recount changes none.
RestServed ==
  LET recounted == [img EXCEPT !.a = recompute_summary_counts(img.a, Dirs).a]
  IN  /\ FilesIn(FormattedImage) = {}
      /\ FilesIn(recounted) = Files
      /\ \A j \in Files : read_inode_bytes(recounted, j) = read_inode_bytes(img, j)

ImageServes == ~full => BodiesServed /\ NamesServed /\ RestServed

----------------------------------------------------------------------------
(* Bodies and what was written.                                            *)

\* What the kernel has open is a file in use.
OpenFiles == Files \subseteq Inode /\ \A h \in kopen : handles[h] \in Files

\* The body a read answers is the one last written; what is not dirty is on
\* the image; only a buffer can be dirty.
BodiesOK ==
  /\ \A i \in Files : Visible(i) = want[i]
  /\ \A i \in Files : ~buffers[i].dirty => read_inode_bytes(img, i) = want[i]
  /\ \A i \in Inode : buffers[i].dirty => buffers[i].there

\* Every body is one that replacement is relied on for.
SizesOK == \A i \in Files : want[i] \in Bodies /\ read_inode_bytes(img, i) \in Bodies

DataInv == DOMAIN want = Inode /\ (~full => OpenFiles /\ BodiesOK /\ SizesOK)

\* Files after a step are those of the new image.
LEMMA FilesNow == Files = FilesIn(img) /\ Files' = FilesIn(img')
  BY DEF Files, FilesIn

\* The bodies the daemon makes: empty, resized, and spliced.
LEMMA BodiesMade ==
  /\ << >> \in Bodies
  /\ \A b \in Bodies, n \in 0 .. MaxLen : Resized(b, n) \in Bodies
  /\ \A b \in Bodies, off \in 0 .. MaxLen - 1 : Spliced(b, off) \in Bodies
<1>1. MaxLen \in Nat  BY MountAssumption
<1>2. \A b \in Bodies : \E k \in 0 .. MaxLen :
        b \in [1 .. k -> {ZeroCell, Data}] /\ Len(b) = k
  BY <1>1 DEF Bodies
<1>3. << >> \in Bodies
  BY <1>1 DEF Bodies
<1>4. ASSUME NEW b \in Bodies, NEW n \in 0 .. MaxLen
      PROVE  Resized(b, n) \in [1 .. n -> {ZeroCell, Data}]
  BY <1>1, <1>2 DEF Resized
<1>5. \A b \in Bodies, n \in 0 .. MaxLen : Resized(b, n) \in Bodies
  BY <1>4 DEF Bodies
<1>6. ASSUME NEW b \in Bodies, NEW off \in 0 .. MaxLen - 1
      PROVE  Spliced(b, off) \in Bodies
  <2> DEFINE n == IF off < Len(b) THEN Len(b) ELSE off + 1
  <2>1. n \in 0 .. MaxLen /\ off + 1 \in 1 .. n  BY <1>1, <1>2
  <2>2. Spliced(b, off) = [Resized(b, n) EXCEPT ![off + 1] = Data]
    BY DEF Spliced
  <2> HIDE DEF n
  <2>3. Spliced(b, off) \in [1 .. n -> {ZeroCell, Data}]
    BY <2>1, <2>2, <1>4
  <2> QED  BY <2>1, <2>3 DEF Bodies
<1> QED  BY <1>3, <1>5, <1>6

\* Before the first request nothing is open, and there is no file.
LEMMA DataInit == MountInit /\ RestServed => DataInv
<1> SUFFICES ASSUME MountInit, RestServed  PROVE DataInv  OBVIOUS
<1>1. img = FormattedImage /\ kopen = {} /\ buffers = [i \in Inode |-> NoBuffer]
  BY DEF MountInit, Init
<1>2. Files = {}  BY <1>1, FilesNow DEF RestServed
<1>3. DOMAIN want = Inode  BY DEF MountInit
<1>4. \A i \in Inode : ~buffers[i].dirty  BY <1>1 DEF NoBuffer
<1> QED
  BY <1>1, <1>2, <1>3, <1>4 DEF DataInv, OpenFiles, BodiesOK, SizesOK

\* A name operation: the files that stay keep their bodies, and no file that
\* goes is open.
LEMMA NamesKeepData ==
  ASSUME DataInv, ~full, NEW r, NEW gone, Done(r), KeepsFiles(r, gone),
         handles' = handles, kopen' = kopen, buffers' = buffers, want' = want,
         \A h \in kopen : handles[h] \notin gone
  PROVE  DataInv'
<1> SUFFICES ASSUME ~full'  PROVE OpenFiles' /\ BodiesOK' /\ SizesOK'
  BY DEF DataInv
<1>0. OpenFiles /\ BodiesOK /\ SizesOK  BY DEF DataInv
<1>1. img' = r.img /\ r.status # "full"  BY DEF Done
<1>2. /\ Files' \subseteq Files /\ Files \ gone \subseteq Files'
      /\ \A j \in Files' : read_inode_bytes(img', j) = read_inode_bytes(img, j)
  BY <1>1, FilesNow DEF KeepsFiles
<1>3. OpenFiles'  BY <1>0, <1>2 DEF OpenFiles
<1>4. \A j \in Files' : Visible(j)' = Visible(j)  BY <1>2 DEF Visible
<1>5. BodiesOK'  BY <1>0, <1>2, <1>4 DEF BodiesOK
<1>6. SizesOK'  BY <1>0, <1>2 DEF SizesOK
<1> QED  BY <1>3, <1>5, <1>6

\* What commit leaves of file i is what was last written to it.
LEMMA CommitWrites ==
  ASSUME DataInv, BodiesServed, ~full, NEW i \in Files, commit(i).ok,
         img' = commit(i).img
  PROVE  /\ Files' = Files
         /\ \A j \in Files : read_inode_bytes(img', j) =
              IF j = i THEN want[i] ELSE read_inode_bytes(img, j)
<1>0. OpenFiles /\ BodiesOK /\ SizesOK  BY DEF DataInv
<1>1. CASE buffers[i].dirty
  <2> DEFINE r == set_inode_contents(img, i, want[i])
  <2>1. buffers[i].there /\ i \in Inode
    BY <1>0, <1>1 DEF OpenFiles, BodiesOK
  <2>2. buffers[i].data = want[i]  BY <1>0, <2>1 DEF BodiesOK, Visible
  <2>3. commit(i) = r  BY <1>1, <2>2 DEF commit
  <2>4. Replaces(r, i, want[i])  BY <1>0 DEF BodiesServed, SizesOK
  <2> HIDE DEF r
  <2> QED  BY <2>3, <2>4, FilesNow DEF Replaces
<1>2. CASE ~buffers[i].dirty
  <2>1. img' = img  BY <1>2 DEF commit
  <2> QED  BY <1>0, <1>2, <2>1, FilesNow DEF BodiesOK
<1> QED  BY <1>1, <1>2

\* A step that commits file i, after which its buffer is clean or gone.
LEMMA CommitKeepsData ==
  ASSUME MountInv, DataInv, BodiesServed, ~full, NEW i \in Files, commit(i).ok,
         img' = commit(i).img, want' = want, DOMAIN buffers' = Inode,
         \A j \in Inode \ {i} : buffers'[j] = buffers[j],
         ~buffers'[i].dirty,
         buffers'[i].there => buffers[i].there /\ buffers'[i].data = buffers[i].data,
         \A h \in kopen' : h \in kopen /\ handles'[h] = handles[h]
  PROVE  DataInv'
<1> SUFFICES ASSUME ~full'  PROVE OpenFiles' /\ BodiesOK' /\ SizesOK'
  BY DEF DataInv
<1>0. OpenFiles /\ BodiesOK /\ SizesOK  BY DEF DataInv
<1>1. /\ Files' = Files
      /\ \A j \in Files : read_inode_bytes(img', j) =
           IF j = i THEN want[i] ELSE read_inode_bytes(img, j)
  BY CommitWrites
<1>2. OpenFiles'  BY <1>0, <1>1 DEF OpenFiles
<1>3. SizesOK'  BY <1>0, <1>1 DEF SizesOK
<1>4. Files \subseteq Inode  BY <1>0 DEF OpenFiles
<1>5. Visible(i)' = want[i]
  <2>1. CASE buffers'[i].there  BY <1>0, <2>1 DEF BodiesOK, Visible
  <2>2. CASE ~buffers'[i].there  BY <1>1, <2>2 DEF Visible
  <2> QED  BY <2>1, <2>2
<1>6. \A j \in Files : j # i => Visible(j)' = Visible(j)
  BY <1>1, <1>4 DEF Visible
<1>7. \A j \in Files : Visible(j)' = want[j]
  BY <1>0, <1>5, <1>6 DEF BodiesOK
<1>8. \A j \in Files : ~buffers'[j].dirty => read_inode_bytes(img', j) = want[j]
  BY <1>0, <1>1, <1>4 DEF BodiesOK
<1>9. \A j \in Inode : buffers'[j].dirty => buffers'[j].there
  BY <1>0 DEF BodiesOK
<1> QED  BY <1>1, <1>2, <1>3, <1>7, <1>8, <1>9 DEF BodiesOK

\* A step that changes the body of file i in memory only.
LEMMA BufferKeepsData ==
  ASSUME MountInv, DataInv, NEW i \in Files, NEW body \in Bodies, img' = img,
         full' = full, handles' = handles, kopen' = kopen,
         buffers' = [buffers EXCEPT ![i] = FileBuf(body, TRUE)],
         want' = [want EXCEPT ![i] = body]
  PROVE  DataInv'
<1> SUFFICES ASSUME ~full  PROVE OpenFiles' /\ BodiesOK' /\ SizesOK'
  BY DEF DataInv
<1>0. OpenFiles /\ BodiesOK /\ SizesOK  BY DEF DataInv
<1>1. Files' = Files  BY FilesNow
<1>2. Files \subseteq Inode  BY <1>0 DEF OpenFiles
<1>3. /\ buffers'[i] = FileBuf(body, TRUE) /\ want'[i] = body
      /\ \A j \in Inode \ {i} : buffers'[j] = buffers[j] /\ want'[j] = want[j]
  BY <1>2 DEF MountInv, TablesOK, DataInv
<1>4. buffers'[i].there /\ buffers'[i].dirty /\ buffers'[i].data = body
  BY <1>3 DEF FileBuf
<1>5. OpenFiles'  BY <1>0, <1>1 DEF OpenFiles
<1>6. SizesOK'  BY <1>0, <1>1, <1>2, <1>3 DEF SizesOK
<1>7. Visible(i)' = body  BY <1>4 DEF Visible
<1>8. \A j \in Files : j # i => Visible(j)' = Visible(j)
  BY <1>2, <1>3 DEF Visible
<1>9. BodiesOK'
  BY <1>0, <1>1, <1>2, <1>3, <1>4, <1>7, <1>8 DEF BodiesOK
<1> QED  BY <1>5, <1>6, <1>9

\* The status of a create is one of the three.
LEMMA CreateStatus ==
  ASSUME NEW d, NEW n
  PROVE  create_empty_in_parent(img, d, n).status \in {"ok", "refused", "full"}
<1>1. \A status, image, i : Result(status, image, i).status = status
  BY DEF Result
<1>2. \A step, i : Finish(step, i).status \in {"ok", "full"}
  <2> SUFFICES ASSUME NEW step, NEW i  PROVE Finish(step, i).status \in {"ok", "full"}
    OBVIOUS
  <2> DEFINE s == IF step.ok THEN "ok" ELSE "full"
  <2>1. Finish(step, i) = Result(s, step.img, i)  BY DEF Finish
  <2>2. s \in {"ok", "full"}  OBVIOUS
  <2> HIDE DEF s
  <2> QED  BY <1>1, <2>1, <2>2
<1>3. \A image : Full(image).status = "full" /\ Refused(image).status = "refused"
  BY <1>1 DEF Full, Refused
<1>4. ASSUME NEW m, NEW i
      PROVE  NameInode(m, d, n, i).status \in {"ok", "full"}
  <2>1. CASE m.ok
    BY <1>2, <2>1 DEF NameInode
  <2>2. CASE ~m.ok  BY <1>3, <2>2 DEF NameInode
  <2> QED  BY <2>1, <2>2
<1> DEFINE m == MakeInode(img, d, NewInode("file", 1))
           r == create_empty_in_parent(img, d, n)
<1>5. r = IF IsDirectory(img, d) THEN NameInode(m, d, n, m.ino) ELSE Refused(img)
  BY DEF create_empty_in_parent, MakeNamed
<1> HIDE DEF m, r
<1>6. CASE IsDirectory(img, d)
  <2>1. r = NameInode(m, d, n, m.ino)  BY <1>5, <1>6
  <2>2. r.status \in {"ok", "full"}  BY <1>4, <2>1
  <2> QED  BY <2>2 DEF r
<1>7. CASE ~IsDirectory(img, d)
  <2>1. r = Refused(img)  BY <1>5, <1>7
  <2>2. r.status = "refused"  BY <1>3, <2>1
  <2> QED  BY <2>2 DEF r
<1> QED  BY <1>6, <1>7

\* create: the new file is empty on the image, in the buffer and in want.
LEMMA CreateKeepsData ==
  ASSUME MountInv, DataInv, ~full, NamesServed, NEW d \in Dirs, NEW n \in Names,
         FuseCreate(d, n)
  PROVE  DataInv'
<1> DEFINE r == create_empty_in_parent(img, d, n)
<1>1. /\ Done(r) /\ FreshHandles # {}
      /\ IF r.status = "ok"
           THEN /\ handles' = [handles EXCEPT ![fresh] = r.ino]
                /\ buffers' = [buffers EXCEPT ![r.ino] = FileBuf(<< >>, FALSE)]
                /\ want' = [want EXCEPT ![r.ino] = << >>]
                /\ kopen' = kopen \cup {fresh}
           ELSE handles' = handles /\ buffers' = buffers /\ want' = want /\ kopen' = kopen
  BY Zenon DEF FuseCreate
<1>2. MakesFile(r)  BY DEF NamesServed
<1>3. r.status \in {"ok", "refused", "full"}  BY CreateStatus
<1> HIDE DEF r
<1>4. r.status # "refused" /\ img' = r.img /\ full' = (r.status = "full")
  BY <1>1 DEF Done
<1>5. CASE r.status # "ok"  BY <1>1, <1>3, <1>4, <1>5 DEF DataInv
<1>6. CASE r.status = "ok"
  <2>i. PICK i : i = r.ino  OBVIOUS
  <2>0. OpenFiles /\ BodiesOK /\ SizesOK  BY DEF DataInv
  <2>1. /\ i \in Inode /\ i \notin Files /\ Files' = Files \cup {i}
        /\ read_inode_bytes(img', i) = << >>
        /\ \A j \in Files : read_inode_bytes(img', j) = read_inode_bytes(img, j)
    BY <1>2, <1>4, <1>6, <2>i, FilesNow DEF MakesFile
  <2>2. /\ handles' = [handles EXCEPT ![fresh] = i]
        /\ buffers' = [buffers EXCEPT ![i] = FileBuf(<< >>, FALSE)]
        /\ want' = [want EXCEPT ![i] = << >>]
        /\ kopen' = kopen \cup {fresh}
    BY <1>1, <1>6, <2>i
  <2>3. fresh \in Handle /\ fresh \notin kopen  BY <1>1, FreshIsFree
  <2>4. /\ buffers'[i] = FileBuf(<< >>, FALSE) /\ want'[i] = << >>
        /\ \A j \in Inode \ {i} : buffers'[j] = buffers[j] /\ want'[j] = want[j]
    BY <2>1, <2>2 DEF MountInv, TablesOK, DataInv
  <2>5. buffers'[i].there /\ ~buffers'[i].dirty /\ buffers'[i].data = << >>
    BY <2>4 DEF FileBuf
  <2>6. \A h \in kopen' : handles'[h] = IF h = fresh THEN i ELSE handles[h]
    BY <2>2, <2>3 DEF MountInv, TablesOK
  <2>7. Files \subseteq Inode \ {i}  BY <2>0, <2>1 DEF OpenFiles
  <2>8. OpenFiles'  BY <2>0, <2>1, <2>2, <2>6 DEF OpenFiles
  <2>9. Visible(i)' = << >> /\ \A j \in Files : Visible(j)' = Visible(j)
    BY <2>1, <2>4, <2>5, <2>7 DEF Visible
  <2>10. BodiesOK'
    BY <2>0, <2>1, <2>4, <2>5, <2>7, <2>9 DEF BodiesOK
  <2>11. SizesOK'
    BY <2>0, <2>1, <2>4, <2>7, BodiesMade DEF SizesOK
  <2>12. DOMAIN want' = Inode  BY <2>2 DEF DataInv
  <2> QED  BY <2>8, <2>10, <2>11, <2>12 DEF DataInv
<1> QED  BY <1>5, <1>6

\* setattr with a size, in memory or on the image.
LEMMA TruncateKeepsData ==
  ASSUME MountInv, DataInv, BodiesServed, ~full, NEW i, NEW n \in 0 .. MaxLen,
         FuseTruncate(i, n)
  PROVE  DataInv'
<1> DEFINE r == truncate(img, i, n)
<1>1. /\ i \in Files /\ want' = [want EXCEPT ![i] = Resized(want[i], n)]
      /\ handles' = handles /\ kopen' = kopen
      /\ \/ /\ buffers[i].there /\ img' = img /\ full' = full
            /\ buffers' = [buffers EXCEPT ![i] =
                             FileBuf(Resized(buffers[i].data, n), TRUE)]
         \/ /\ ~buffers[i].there /\ buffers' = buffers
            /\ img' = r.img /\ full' = (full \/ ~r.ok)
  BY Zenon DEF FuseTruncate, Committed, Files
<1>0. OpenFiles /\ BodiesOK /\ SizesOK  BY DEF DataInv
<1>2. Resized(want[i], n) \in Bodies  BY <1>0, <1>1, BodiesMade DEF SizesOK
<1>3. Replaces(r, i, Resized(read_inode_bytes(img, i), n))
  BY <1>1 DEF BodiesServed
<1> HIDE DEF r
<1>4. CASE buffers[i].there
  <2>1. buffers[i].data = want[i]  BY <1>0, <1>1, <1>4 DEF BodiesOK, Visible
  <2>2. /\ img' = img /\ full' = full
        /\ buffers' = [buffers EXCEPT ![i] = FileBuf(Resized(want[i], n), TRUE)]
    BY <1>1, <1>4, <2>1
  <2> QED  BY <1>1, <1>2, <2>2, BufferKeepsData
<1>5. CASE ~buffers[i].there
  <2>1. read_inode_bytes(img, i) = want[i]
    BY <1>0, <1>1, <1>5 DEF BodiesOK, Visible
  <2>2. buffers' = buffers /\ img' = r.img /\ full' = (full \/ ~r.ok)
    BY <1>1, <1>5
  <2> SUFFICES ASSUME r.ok
               PROVE  DOMAIN want' = Inode /\ OpenFiles' /\ BodiesOK' /\ SizesOK'
    BY <1>1, <2>2 DEF DataInv
  <2>3. /\ Files' = Files
        /\ \A j \in Files : read_inode_bytes(img', j) =
             IF j = i THEN Resized(want[i], n) ELSE read_inode_bytes(img, j)
    BY <1>3, <2>1, <2>2, FilesNow DEF Replaces
  <2>4. Files \subseteq Inode  BY <1>0 DEF OpenFiles
  <2>5. DOMAIN want' = Inode /\ \A j \in Inode :
          want'[j] = IF j = i THEN Resized(want[i], n) ELSE want[j]
    BY <1>1 DEF DataInv
  <2>6. \A j \in Files : Visible(j)' = want'[j]
    BY <1>0, <1>5, <2>2, <2>3, <2>4, <2>5 DEF Visible, BodiesOK
  <2>7. OpenFiles'  BY <1>0, <1>1, <2>3 DEF OpenFiles
  <2>8. BodiesOK'
    <3>1. \A j \in Files : ~buffers[j].dirty => read_inode_bytes(img', j) = want'[j]
      BY <1>0, <2>3, <2>4, <2>5 DEF BodiesOK
    <3> QED  BY <1>0, <2>2, <2>3, <2>6, <3>1 DEF BodiesOK
  <2>9. SizesOK'
    <3>1. \A j \in Files : want'[j] \in Bodies /\ read_inode_bytes(img', j) \in Bodies
      BY <1>0, <1>2, <2>3, <2>4, <2>5 DEF SizesOK
    <3> QED  BY <2>3, <3>1 DEF SizesOK
  <2> QED  BY <2>5, <2>7, <2>8, <2>9
<1> QED  BY <1>4, <1>5

\* flush and fsync: the body is on the image, and the buffer clean.
LEMMA FlushKeepsData ==
  ASSUME MountInv, DataInv, BodiesServed, ~full, NEW h \in Handle, FuseFlush(h)
  PROVE  DataInv'
<1>i. PICK i : i = handles[h]  OBVIOUS
<1> DEFINE r == commit(i)
<1>1. /\ h \in kopen /\ handles' = handles /\ kopen' = kopen /\ want' = want
      /\ img' = r.img /\ full' = (full \/ ~r.ok)
      /\ buffers' = IF r.ok THEN [buffers EXCEPT ![i].dirty = FALSE] ELSE buffers
  BY <1>i DEF FuseFlush, Committed
<1> HIDE DEF r
<1>2. i \in Files /\ i \in Inode  BY <1>1, <1>i DEF DataInv, OpenFiles
<1>3. CASE ~r.ok  BY <1>1, <1>3 DEF DataInv
<1>4. CASE r.ok
  <2>1. /\ DOMAIN buffers' = Inode
        /\ buffers'[i] = [buffers[i] EXCEPT !.dirty = FALSE]
        /\ \A j \in Inode \ {i} : buffers'[j] = buffers[j]
    BY <1>1, <1>2, <1>4 DEF MountInv, TablesOK
  <2>2. /\ ~buffers'[i].dirty /\ buffers'[i].there = buffers[i].there
        /\ buffers'[i].data = buffers[i].data
    BY <1>2, <2>1 DEF MountInv, TablesOK
  <2>3. commit(i).ok /\ img' = commit(i).img  BY <1>1, <1>4 DEF r
  <2> QED  BY <1>1, <1>2, <2>1, <2>2, <2>3, CommitKeepsData
<1> QED  BY <1>3, <1>4

\* release: the same, and the buffer goes with the last handle.
LEMMA ReleaseKeepsData ==
  ASSUME MountInv, DataInv, BodiesServed, ~full, NEW h \in Handle, FuseRelease(h)
  PROVE  DataInv'
<1>i. PICK i : i = handles[h]  OBVIOUS
<1> DEFINE r == commit(i)
<1>1. /\ h \in kopen /\ kopen' = kopen \ {h} /\ want' = want
      /\ img' = r.img /\ full' = (full \/ ~r.ok)
      /\ handles' = IF r.ok THEN [handles EXCEPT ![h] = NoInode] ELSE handles
      /\ buffers' = IF ~r.ok THEN buffers
                    ELSE IF LastHandle(h) THEN [buffers EXCEPT ![i] = NoBuffer]
                    ELSE [buffers EXCEPT ![i].dirty = FALSE]
  BY <1>i DEF FuseRelease, Committed
<1> HIDE DEF r
<1>2. i \in Files /\ i \in Inode  BY <1>1, <1>i DEF DataInv, OpenFiles
<1>3. CASE ~r.ok  BY <1>1, <1>3 DEF DataInv
<1>4. CASE r.ok
  <2>1. /\ DOMAIN buffers' = Inode
        /\ \/ buffers'[i] = NoBuffer
           \/ buffers'[i] = [buffers[i] EXCEPT !.dirty = FALSE]
        /\ \A j \in Inode \ {i} : buffers'[j] = buffers[j]
    BY <1>1, <1>2, <1>4 DEF MountInv, TablesOK
  <2>2. /\ ~buffers'[i].dirty
        /\ buffers'[i].there =>
             buffers[i].there /\ buffers'[i].data = buffers[i].data
    <3>1. CASE buffers'[i] = NoBuffer  BY <3>1 DEF NoBuffer
    <3>2. CASE buffers'[i] = [buffers[i] EXCEPT !.dirty = FALSE]
      BY <1>2, <3>2 DEF MountInv, TablesOK
    <3> QED  BY <2>1, <3>1, <3>2
  <2>3. commit(i).ok /\ img' = commit(i).img  BY <1>1, <1>4 DEF r
  <2>4. \A g \in kopen' : g \in kopen /\ handles'[g] = handles[g]
    BY <1>1, <1>4 DEF MountInv, TablesOK
  <2> QED  BY <1>1, <1>2, <2>1, <2>2, <2>3, <2>4, CommitKeepsData
<1> QED  BY <1>3, <1>4

\* write: the buffer that ensure_buffer has or loads is what was last written.
LEMMA WriteKeepsData ==
  ASSUME MountInv, DataInv, ~full, NEW h \in Handle, NEW off \in 0 .. MaxLen - 1,
         FuseWrite(h, off)
  PROVE  DataInv'
<1>i. PICK i : i = handles[h]  OBVIOUS
<1>1. /\ h \in kopen /\ handles' = handles /\ kopen' = kopen
      /\ img' = img /\ full' = full
      /\ buffers' = [buffers EXCEPT ![i] =
                       FileBuf(Spliced(ensure_buffer(i).data, off), TRUE)]
      /\ want' = [want EXCEPT ![i] = Spliced(want[i], off)]
  BY <1>i, Zenon DEF FuseWrite
<1>0. OpenFiles /\ BodiesOK /\ SizesOK  BY DEF DataInv
<1>2. i \in Files  BY <1>0, <1>1, <1>i DEF OpenFiles
<1>3. ensure_buffer(i).data = want[i]
  <2>1. ensure_buffer(i).data = Visible(i)  BY DEF ensure_buffer, Visible, FileBuf
  <2> QED  BY <1>0, <1>2, <2>1 DEF BodiesOK
<1>4. Spliced(want[i], off) \in Bodies  BY <1>0, <1>2, BodiesMade DEF SizesOK
<1> QED  BY <1>1, <1>2, <1>3, <1>4, BufferKeepsData

\* The end of the daemon: every file on the image has what counts as written.
LEMMA ExitKeepsData ==
  ASSUME DataInv, ~full, NEW how, Exit(how), Files' = Files,
         \A j \in Files : read_inode_bytes(img', j) = read_inode_bytes(img, j),
         DOMAIN want' = Inode,
         \A j \in Files : want'[j] = read_inode_bytes(img, j)
  PROVE  DataInv'
<1>0. OpenFiles /\ BodiesOK /\ SizesOK  BY DEF DataInv
<1>1. kopen' = {} /\ \A j \in Inode : buffers'[j] = NoBuffer  BY DEF Exit
<1>2. \A j \in Inode : ~buffers'[j].there /\ ~buffers'[j].dirty
  BY <1>1 DEF NoBuffer
<1>3. Files \subseteq Inode  BY <1>0 DEF OpenFiles
<1>4. OpenFiles'  BY <1>1, <1>3 DEF OpenFiles
<1>5. \A j \in Files : Visible(j)' = want'[j]  BY <1>2, <1>3 DEF Visible
<1>6. BodiesOK'  BY <1>2, <1>3, <1>5 DEF BodiesOK
<1>7. SizesOK'  BY <1>0 DEF SizesOK
<1> QED  BY <1>4, <1>6, <1>7 DEF DataInv

\* What is closed is on the image: without a handle there is no buffer.
LEMMA ClosedOnDisk ==
  ASSUME MountInv, DataInv, ~full, NEW i \in Files, ~IsOpen(i)
  PROVE  read_inode_bytes(img, i) = want[i]
<1>0. OpenFiles /\ BodiesOK  BY DEF DataInv
<1>1. i \in Inode  BY <1>0 DEF OpenFiles
<1>2. ~buffers[i].there
  BY <1>1 DEF MountInv, BuffersOK, TablesOK, IsOpen
<1> QED  BY <1>0, <1>1, <1>2 DEF BodiesOK

\* unlink and rename leave the last name of an open file alone, if users do.
LEMMA OpenNotUnnamed ==
  ASSUME MountInv, KeepsOpenNames, NEW d, NEW n, MayUnname(d, n)
  PROVE  \A h \in kopen : handles[h] \notin GoesWith(d, n)
  BY DEF MountInv, TablesOK, MayUnname, IsOpen

\* The handlers that only change names.
LEMMA NameHandlersKeepData ==
  ASSUME MountInv, DataInv, KeepsOpenNames, NamesServed, ~full,
         NEW d \in Dirs, NEW n \in Names,
         \/ FuseMkdir(d, n) \/ FuseSymlink(d, n) \/ FuseMknod(d, n)
         \/ FuseUnlink(d, n) \/ FuseRmdir(d, n)
         \/ \E i \in Inode : FuseLink(d, n, i)
         \/ \E e \in Dirs, m \in Names : FuseRename(d, n, e, m)
  PROVE  DataInv'
<1>0. \A h \in kopen : handles[h] \notin {}  OBVIOUS
<1>u. NameSpaceOnly => /\ handles' = handles /\ kopen' = kopen
                       /\ buffers' = buffers /\ want' = want
  BY DEF NameSpaceOnly, daemon
<1>1. CASE FuseMkdir(d, n)
  <2>1. KeepsFiles(make_directory(img, d, n), {})  BY DEF NamesServed
  <2>2. Done(make_directory(img, d, n)) /\ NameSpaceOnly
    BY <1>1, Zenon DEF FuseMkdir, MakeDirectory
  <2> QED  BY <1>0, <2>1, <2>2, <1>u, NamesKeepData
<1>2. CASE FuseSymlink(d, n)
  <2>1. KeepsFiles(symlink(img, d, n, Target), {})  BY DEF NamesServed
  <2>2. Done(symlink(img, d, n, Target)) /\ NameSpaceOnly
    BY <1>2, Zenon DEF FuseSymlink, Symlink
  <2> QED  BY <1>0, <2>1, <2>2, <1>u, NamesKeepData
<1>3. CASE FuseMknod(d, n)
  <2>1. KeepsFiles(mknod_in_parent(img, d, n, Rdev), {})  BY DEF NamesServed
  <2>2. Done(mknod_in_parent(img, d, n, Rdev)) /\ NameSpaceOnly
    BY <1>3, Zenon DEF FuseMknod, Mknod
  <2> QED  BY <1>0, <2>1, <2>2, <1>u, NamesKeepData
<1>4. CASE FuseUnlink(d, n)
  <2>1. KeepsFiles(unlink_in_parent(img, d, n), GoesWith(d, n))  BY DEF NamesServed
  <2>2. Done(unlink_in_parent(img, d, n)) /\ NameSpaceOnly /\ MayUnname(d, n)
    BY <1>4, Zenon DEF FuseUnlink, Unlink
  <2>3. \A h \in kopen : handles[h] \notin GoesWith(d, n)  BY <2>2, OpenNotUnnamed
  <2> QED  BY <2>1, <2>2, <2>3, <1>u, NamesKeepData
<1>5. CASE FuseRmdir(d, n)
  <2>1. KeepsFiles(rmdir_in_parent(img, d, n), {})  BY DEF NamesServed
  <2>2. Done(rmdir_in_parent(img, d, n)) /\ NameSpaceOnly
    BY <1>5, Zenon DEF FuseRmdir, Rmdir
  <2> QED  BY <1>0, <2>1, <2>2, <1>u, NamesKeepData
<1>6. ASSUME NEW i \in Inode, FuseLink(d, n, i)  PROVE DataInv'
  <2>1. Done(link(img, d, n, i)) /\ NameSpaceOnly /\ i \in UsedInodes(img)
    BY <1>6, Zenon DEF FuseLink, Link
  <2>2. KeepsFiles(link(img, d, n, i), {})  BY <2>1 DEF NamesServed
  <2> QED  BY <1>0, <2>1, <2>2, <1>u, NamesKeepData
<1>7. ASSUME NEW e \in Dirs, NEW m \in Names, FuseRename(d, n, e, m)
      PROVE  DataInv'
  <2>1. Done(rename_in_parent(img, d, n, e, m)) /\ NameSpaceOnly /\ MayUnname(e, m)
    BY <1>7, Zenon DEF FuseRename, Rename
  <2>2. KeepsFiles(rename_in_parent(img, d, n, e, m), GoesWith(e, m))
    BY DEF NamesServed
  <2>3. \A h \in kopen : handles[h] \notin GoesWith(e, m)  BY <2>1, OpenNotUnnamed
  <2> QED  BY <2>1, <2>2, <2>3, <1>u, NamesKeepData
<1> QED  BY <1>1, <1>2, <1>3, <1>4, <1>5, <1>6, <1>7

\* Once an operation has found no space nothing is claimed; a name operation
\* ends the history there.
LEMMA FullKeepsData ==
  ASSUME DataInv, full, [MountNext]_mountVars  PROVE DataInv'
<1>1. full' /\ DOMAIN want' = Inode
  <2>1. ASSUME NEW d, NEW n,
               \/ FuseCreate(d, n)
               \/ FuseMkdir(d, n) \/ FuseSymlink(d, n) \/ FuseMknod(d, n)
               \/ FuseUnlink(d, n) \/ FuseRmdir(d, n)
               \/ \E i \in Inode : FuseLink(d, n, i)
               \/ \E e \in Dirs, m \in Names : FuseRename(d, n, e, m)
        PROVE  FALSE
    BY <2>1, Zenon DEF FuseCreate, FuseMkdir, FuseSymlink, FuseMknod, FuseUnlink,
       FuseRmdir, FuseLink, FuseRename, MakeDirectory, Symlink, Mknod, Unlink,
       Rmdir, Link, Rename
  <2>2. ASSUME \/ \E i \in Inode : FuseOpen(i)
               \/ Destroy \/ Mount \/ UNCHANGED mountVars
        PROVE  full' = full /\ want' = want
    BY <2>2, Zenon DEF FuseOpen, Destroy, Mount, mountVars
  <2>3. ASSUME Kill
        PROVE  /\ full' = full
               /\ want' = [i \in Inode |-> IF buffers[i].dirty
                             THEN read_inode_bytes(img, i) ELSE want[i]]
    BY <2>3, Zenon DEF Kill
  <2>4. ASSUME NEW i, NEW n, FuseTruncate(i, n)
        PROVE  /\ full' = full \/ \E r : full' = (full \/ ~r.ok)
               /\ \E v : want' = [want EXCEPT ![i] = v]
    BY <2>4, Zenon DEF FuseTruncate, Committed
  <2>5. ASSUME NEW h, NEW off, FuseWrite(h, off)
        PROVE  full' = full /\ \E i, v : want' = [want EXCEPT ![i] = v]
    BY <2>5, Zenon DEF FuseWrite
  <2>6. ASSUME NEW h, FuseFlush(h) \/ FuseRelease(h)
        PROVE  want' = want /\ \E r : full' = (full \/ ~r.ok)
    BY <2>6, Zenon DEF FuseFlush, FuseRelease, Committed
  <2>7. CASE full' = full /\ want' = want  BY <2>7 DEF DataInv
  <2>8. CASE Kill  BY <2>3, <2>8
  <2>9. CASE \E i \in Inode, n \in 0 .. MaxLen : FuseTruncate(i, n)
    BY <2>4, <2>9 DEF DataInv
  <2>10. CASE \E h \in Handle, off \in 0 .. MaxLen - 1 : FuseWrite(h, off)
    BY <2>5, <2>10 DEF DataInv
  <2>11. CASE \E h \in Handle : FuseFlush(h) \/ FuseRelease(h)
    BY <2>6, <2>11 DEF DataInv
  <2> QED
    BY <2>1, <2>2, <2>7, <2>8, <2>9, <2>10, <2>11, Zenon DEF MountNext
<1> QED  BY <1>1 DEF DataInv

\* Every request, the end of the daemon, its restart, and stuttering.
LEMMA DataNext ==
  ASSUME MountInv, DataInv, KeepsOpenNames, ImageServes, [MountNext]_mountVars
  PROVE  DataInv'
<1>1. CASE full  BY <1>1, FullKeepsData
<1>2. CASE ~full
  <2>0. BodiesServed /\ NamesServed /\ RestServed  BY <1>2 DEF ImageServes
  <2>1. ASSUME NEW d \in Dirs, NEW n \in Names, FuseCreate(d, n)  PROVE DataInv'
    BY <1>2, <2>0, <2>1, CreateKeepsData
  <2>2. ASSUME NEW d \in Dirs, NEW n \in Names,
               \/ FuseMkdir(d, n) \/ FuseSymlink(d, n) \/ FuseMknod(d, n)
               \/ FuseUnlink(d, n) \/ FuseRmdir(d, n)
               \/ \E i \in Inode : FuseLink(d, n, i)
               \/ \E e \in Dirs, m \in Names : FuseRename(d, n, e, m)
        PROVE  DataInv'
    BY <1>2, <2>0, <2>2, NameHandlersKeepData
  <2>3. ASSUME NEW i \in Inode, FuseOpen(i)  PROVE DataInv'
    <3>1. /\ FreshHandles # {} /\ i \in Files /\ img' = img /\ full' = full
          /\ buffers' = buffers /\ want' = want
          /\ handles' = [handles EXCEPT ![fresh] = i] /\ kopen' = kopen \cup {fresh}
      BY <2>3, Zenon DEF FuseOpen, Files
    <3>2. fresh \in Handle /\ fresh \notin kopen  BY <3>1, FreshIsFree
    <3>3. \A h \in kopen' : handles'[h] = IF h = fresh THEN i ELSE handles[h]
      BY <3>1, <3>2 DEF MountInv, TablesOK
    <3>4. Files' = Files  BY <3>1, FilesNow
    <3>5. OpenFiles'  BY <1>2, <3>1, <3>3, <3>4 DEF DataInv, OpenFiles
    <3>6. \A j \in Files : Visible(j)' = Visible(j)  BY <3>1 DEF Visible
    <3>7. BodiesOK' /\ SizesOK'
      BY <1>2, <3>1, <3>4, <3>6 DEF DataInv, BodiesOK, SizesOK
    <3> QED  BY <3>1, <3>5, <3>7 DEF DataInv
  <2>4. ASSUME NEW i \in Inode, NEW n \in 0 .. MaxLen, FuseTruncate(i, n)
        PROVE  DataInv'
    BY <1>2, <2>0, <2>4, TruncateKeepsData
  <2>5. ASSUME NEW h \in Handle, NEW off \in 0 .. MaxLen - 1, FuseWrite(h, off)
        PROVE  DataInv'
    BY <1>2, <2>5, WriteKeepsData
  <2>6. ASSUME NEW h \in Handle, FuseFlush(h)  PROVE DataInv'
    BY <1>2, <2>0, <2>6, FlushKeepsData
  <2>7. ASSUME NEW h \in Handle, FuseRelease(h)  PROVE DataInv'
    BY <1>2, <2>0, <2>7, ReleaseKeepsData
  <2>8. ASSUME Destroy  PROVE DataInv'
    <3>1. /\ kopen = {} /\ Exit("unmounted") /\ want' = want
          /\ img' = [img EXCEPT !.a = recompute_summary_counts(img.a, Dirs).a]
      BY <2>8, Zenon DEF Destroy
    <3>2. /\ Files' = Files
          /\ \A j \in Files : read_inode_bytes(img', j) = read_inode_bytes(img, j)
      BY <2>0, <3>1, FilesNow DEF RestServed
    <3>3. \A j \in Files : want'[j] = read_inode_bytes(img, j)
      <4>1. \A j \in Inode : ~buffers[j].there
        BY <1>2, <3>1 DEF MountInv, BuffersOK
      <4> QED  BY <1>2, <3>1, <4>1 DEF DataInv, OpenFiles, BodiesOK
    <3> QED  BY <1>2, <3>1, <3>2, <3>3, ExitKeepsData DEF DataInv
  <2>9. ASSUME Kill  PROVE DataInv'
    <3>1. /\ Exit("killed") /\ img' = img
          /\ want' = [i \in Inode |-> IF buffers[i].dirty
                        THEN read_inode_bytes(img, i) ELSE want[i]]
      BY <2>9, Zenon DEF Kill
    <3>2. Files' = Files  BY <3>1, FilesNow
    <3>3. DOMAIN want' = Inode /\ \A j \in Files : want'[j] = read_inode_bytes(img, j)
      BY <1>2, <3>1 DEF DataInv, OpenFiles, BodiesOK
    <3> QED  BY <1>2, <3>1, <3>2, <3>3, ExitKeepsData
  <2>10. ASSUME Mount \/ UNCHANGED mountVars  PROVE DataInv'
    <3>1. /\ handles' = handles /\ kopen' = kopen /\ buffers' = buffers
          /\ full' = full /\ img' = img /\ want' = want
      BY <2>10, Zenon DEF Mount, mountVars
    <3>2. Files' = Files  BY <3>1, FilesNow
    <3>3. \A j \in Files : Visible(j)' = Visible(j)  BY <3>1 DEF Visible
    <3> QED
      BY <3>1, <3>2, <3>3 DEF DataInv, OpenFiles, BodiesOK, SizesOK
  <2> QED
    BY <2>1, <2>2, <2>3, <2>4, <2>5, <2>6, <2>7, <2>8, <2>9, <2>10, Zenon
    DEF MountNext
<1> QED  BY <1>1, <1>2

\* The invariant of the daemon over an image that serves it.
LEMMA DataInvariant ==
  ASSUME KeepsOpenNames
  PROVE  MountSpec /\ []ImageServes => [](MountInv /\ DataInv)
<1>1. MountInit /\ ImageServes => MountInv /\ DataInv
  <2>1. MountInit => ~full  BY DEF MountInit, Init
  <2> QED  BY <2>1, MountInitInv, DataInit DEF ImageServes
<1>2. MountInv /\ DataInv /\ ImageServes /\ [MountNext]_mountVars
        => MountInv' /\ DataInv'
  BY MountNextInv, DataNext
<1> QED  BY <1>1, <1>2, PTL DEF MountSpec

\* A read answers what was last written through any handle, whether the body
\* is buffered, committed, truncated in memory or on the image, or buffered
\* again after a release, for any number of handles and any order of requests,
\* kills and remounts (ensure_buffer, commit, setattr and release in the
\* daemon), over every image whose operations keep ImageServes.
THEOREM ReadsSeeWrites ==
  ASSUME KeepsOpenNames
  PROVE  MountSpec /\ []ImageServes => []ReadsLatest
<1>1. DataInv => ReadsLatest  BY DEF DataInv, BodiesOK, ReadsLatest
<1> QED  BY <1>1, DataInvariant, PTL

\* Over such an image, a file without handles has on it what was last written:
\* neither a release that is not the last one, nor destroy, which does not
\* look at the buffers, loses a body.
THEOREM ClosedFilesAreOnDisk ==
  ASSUME KeepsOpenNames
  PROVE  MountSpec /\ []ImageServes => []ClosedIsOnDisk
<1>1. MountInv /\ DataInv => ClosedIsOnDisk
  BY ClosedOnDisk DEF ClosedIsOnDisk
<1> QED  BY <1>1, DataInvariant, PTL

============================================================================
