-------------------------- MODULE DiskLabelProofs --------------------------
(***************************************************************************)
(* Proofs about the image file of DiskImage, for every disk, every slice   *)
(* and every option: it stays a set of disjoint structures inside it,      *)
(* inspect_disk_image reports what the last create command asked for, a    *)
(* command writes in its slice only, and a slice reads back as what it was *)
(* formatted with.                                                         *)
(***************************************************************************)
EXTENDS DiskImageProofs, SequenceTheorems, FiniteSetTheorems

----------------------------------------------------------------------------
(* The inductive invariant.                                                *)

\* The file has a length, and structures inside it that do not overlap.
IsRun(e) == e.at \in Nat /\ e.n \in Nat \ {0}

RunsApart(runs) == \A e, f \in runs : e # f => Apart(e, f)

FileOK(img) ==
  /\ "len" \in DOMAIN img /\ "ext" \in DOMAIN img
  /\ img.len \in Nat
  /\ \A e \in img.ext : IsRun(e) /\ e.at + e.n <= img.len
  /\ RunsApart(img.ext)

\* An MBR, a label or alternates anywhere in the file are in the request's
\* place; the first two are the request's.
Own(e, r) ==
  /\ e.what.kind = "mbr" =>
       /\ e.at = 0 /\ e.n = 1
       /\ \E c : e.what = [kind |-> "mbr", code |-> c, table |-> build_mbr(r).table]
  /\ e.what.kind = "label" =>
       e.at = LabelSector(r) /\ e.n = 1 /\ e.what \in {build_pdinfo(r), WithVtoc(r)}
  /\ e.what.kind = "alts" => e.at = r.start + AltPtr /\ e.n = AltLen

HasMbr(img, r) ==
  \E e \in img.ext : e.at = 0 /\ e.n = 1 /\ e.what.kind = "mbr"
                       /\ e.what.table = build_mbr(r).table

HasLabel(img, r) == Extent(LabelSector(r), 1, WithVtoc(r)) \in img.ext

HasAlts(img, r) ==
  \E e \in img.ext : e.at = r.start + AltPtr /\ e.n = AltLen /\ e.what.kind = "alts"

\* A slice over the label was formatted.
LabelOverwritten ==
  \E p \in ToSet(asked.slices) :
    p.index \in DOMAIN contents /\ ~ Apart(SliceRegion(p), LabelRegion(asked))

\* A disk whose sector numbers are kept by the signed words of the VTOC: the
\* partition ends below 2^31 sectors.
Narrow(r) == r.start + r.size < WordMod \div 2

NarrowDisk == asked # NoRequest => Narrow(asked)

NothingYet ==
  asked = NoRequest /\ image = Blank(0) /\ pc = "none" /\ made = FALSE /\ contents = <<>>

\* The writes of the create command are made in order, so what each one
\* relies on is there; nothing that may follow it touches sector 0 but
\* install-boot, which keeps the table.
Created ==
  /\ asked \in RequestType /\ Valid(asked) /\ Narrow(asked)
  /\ total_sectors(asked.geometry) <= image.len
  /\ pc # "none"
  /\ ~ Idle => ~ made
  /\ DOMAIN contents \subseteq {p.index : p \in ToSet(asked.slices)}
  /\ \A e \in image.ext : Own(e, asked)
  /\ pc \in {"pdinfo", "vtoc", "alts"} \/ made => HasMbr(image, asked)
  /\ pc = "alts" => HasLabel(image, asked)
  /\ made =>
       /\ asked.start + AltPtr + AltLen <= total_sectors(asked.geometry)
       /\ LabelOverwritten \/ (HasLabel(image, asked) /\ HasAlts(image, asked))

LabelInv ==
  /\ ImageInv /\ FileOK(image)
  /\ pc \in {"none", "idle", "mbr", "pdinfo", "vtoc", "alts"}
  /\ made \in BOOLEAN
  /\ NothingYet \/ Created

----------------------------------------------------------------------------
(* Writing and reading the file.                                           *)

\* write_at of runs that fit and do not overlap each other keeps the file's
\* length; what was there stays where no run is written.
LEMMA PutFits ==
  ASSUME NEW img, FileOK(img), NEW runs, RunsApart(runs),
         \A e \in runs : IsRun(e) /\ e.at + e.n <= img.len
  PROVE  /\ FileOK(Put(img, runs)) /\ Put(img, runs).len = img.len
         /\ Put(img, runs).ext
              = {e \in img.ext : \A f \in runs : Apart(e, f)} \cup runs
<1> DEFINE ends == {e.at + e.n : e \in runs} \cup {img.len}
           m == CHOOSE m \in ends : \A x \in ends : x <= m
           old == {e \in img.ext : \A f \in runs : Apart(e, f)}
<1>1. img.len \in Nat /\ img.len \in ends /\ \A x \in ends : x <= img.len
  BY DEF FileOK
<1>2. m \in ends /\ \A x \in ends : x <= m  BY <1>1
<1>3. m \in Nat
  BY <1>1, <1>2 DEF IsRun
<1>4. m = img.len
  <2> HIDE DEF ends, m
  <2>1. m <= img.len /\ img.len <= m  BY <1>1, <1>2
  <2> QED  BY <1>1, <1>3, <2>1
<1>5. /\ Put(img, runs).len = m /\ Put(img, runs).ext = old \cup runs
      /\ "len" \in DOMAIN Put(img, runs) /\ "ext" \in DOMAIN Put(img, runs)
  BY DEF Put
<1> HIDE DEF ends, m
<1>6. \A e \in old \cup runs : IsRun(e) /\ e.at + e.n <= img.len  BY DEF FileOK
<1>7. RunsApart(old \cup runs)
  <2> SUFFICES ASSUME NEW e \in old \cup runs, NEW f \in old \cup runs, e # f
               PROVE  Apart(e, f)
    BY DEF RunsApart
  <2>1. CASE e \in old /\ f \in old  BY <2>1 DEF FileOK, RunsApart
  <2>2. CASE e \in old /\ f \in runs  BY <2>2
  <2>3. CASE e \in runs /\ f \in old
    <3>1. Apart(f, e)  BY <2>3
    <3> QED  BY <3>1 DEF Apart
  <2>4. CASE e \in runs /\ f \in runs  BY <2>4 DEF RunsApart
  <2> QED  BY <2>1, <2>2, <2>3, <2>4
<1> QED  BY <1>1, <1>4, <1>5, <1>6, <1>7 DEF FileOK

\* One run written anywhere: the file grows when it must.
LEMMA PutGrows ==
  ASSUME NEW img, FileOK(img), NEW e, IsRun(e)
  PROVE  /\ FileOK(Put(img, {e})) /\ img.len <= Put(img, {e}).len
         /\ Put(img, {e}).ext = {f \in img.ext : Apart(f, e)} \cup {e}
<1> DEFINE ends == {f.at + f.n : f \in {e}} \cup {img.len}
           m == CHOOSE m \in ends : \A x \in ends : x <= m
           old == {f \in img.ext : \A g \in {e} : Apart(f, g)}
<1>1. ends = {e.at + e.n, img.len} /\ e.at + e.n \in Nat /\ img.len \in Nat
  BY DEF FileOK, IsRun
<1>2. m \in ends /\ \A x \in ends : x <= m
  <2>1. \E k \in ends : \A x \in ends : x <= k
    <3> HIDE DEF ends
    <3> QED  BY <1>1
  <2> HIDE DEF ends
  <2> QED  BY <2>1
<1>3. /\ Put(img, {e}).len = m /\ Put(img, {e}).ext = old \cup {e}
      /\ "len" \in DOMAIN Put(img, {e}) /\ "ext" \in DOMAIN Put(img, {e})
  BY DEF Put
<1> HIDE DEF ends, m
<1>4. m \in Nat /\ img.len <= m /\ e.at + e.n <= m  BY <1>1, <1>2
<1>5. old = {f \in img.ext : Apart(f, e)}  OBVIOUS
<1>6. \A f \in old \cup {e} : IsRun(f) /\ f.at + f.n <= m
  <2>1. \A f \in img.ext : f.at + f.n \in Nat /\ f.at + f.n <= img.len /\ IsRun(f)
    BY DEF FileOK, IsRun
  <2> QED  BY <1>1, <1>4, <2>1
<1>7. RunsApart(old \cup {e})
  <2> SUFFICES ASSUME NEW f \in old \cup {e}, NEW g \in old \cup {e}, f # g
               PROVE  Apart(f, g)
    BY DEF RunsApart
  <2>1. CASE f \in old /\ g \in old  BY <2>1 DEF FileOK, RunsApart
  <2>2. CASE f \in old /\ g = e  BY <2>2
  <2>3. CASE f = e /\ g \in old
    <3>1. Apart(g, f)  BY <2>3
    <3> QED  BY <3>1 DEF Apart
  <2> QED  BY <2>1, <2>2, <2>3
<1> HIDE DEF old
<1> QED  BY <1>3, <1>4, <1>5, <1>6, <1>7 DEF FileOK

\* fill(0) drops runs and moves none.
LEMMA Fill0Fits ==
  ASSUME NEW img, FileOK(img), NEW region
  PROVE  /\ FileOK(Fill0(img, region)) /\ Fill0(img, region).len = img.len
         /\ Fill0(img, region).ext = {e \in img.ext : Apart(e, region)}
<1>1. /\ Fill0(img, region).ext = {e \in img.ext : Apart(e, region)}
      /\ Fill0(img, region).len = img.len
      /\ DOMAIN Fill0(img, region) = DOMAIN img
  BY DEF Fill0, FileOK
<1> QED  BY <1>1 DEF FileOK, RunsApart

\* A structure of the file is what is read at its first sector.
LEMMA ReadIs ==
  ASSUME NEW img, FileOK(img), NEW e \in img.ext
  PROVE  WhatAt(img, e.at) = e.what
<1> DEFINE here == {f \in img.ext : f.at = e.at}
           c == CHOOSE f \in here : TRUE
<1>1. e \in here  OBVIOUS
<1>2. WhatAt(img, e.at) = c.what  BY <1>1 DEF WhatAt
<1>3. c \in here  BY <1>1
<1> HIDE DEF c
<1>4. c = e
  <2> SUFFICES ASSUME c # e  PROVE FALSE  OBVIOUS
  <2>1. Apart(c, e) /\ c.at = e.at /\ IsRun(c) /\ IsRun(e)
    BY <1>3 DEF FileOK, RunsApart
  <2> QED  BY <2>1 DEF Apart, IsRun
<1> QED  BY <1>2, <1>4

\* What is read as a structure is one of the file's.
LEMMA ReadFrom ==
  ASSUME NEW img, NEW at, WhatAt(img, at).kind # "zero"
  PROVE  \E e \in img.ext : e.at = at /\ e.what = WhatAt(img, at)
<1> DEFINE here == {f \in img.ext : f.at = at}
           c == CHOOSE f \in here : TRUE
<1>1. here # {}
  <2> SUFFICES ASSUME here = {}  PROVE FALSE  OBVIOUS
  <2>1. WhatAt(img, at) = Zero  BY DEF WhatAt
  <2> QED  BY <2>1 DEF Zero
<1>2. WhatAt(img, at) = c.what  BY <1>1 DEF WhatAt
<1>3. c \in here  BY <1>1
<1> HIDE DEF c
<1> QED  BY <1>2, <1>3

----------------------------------------------------------------------------
(* Inspecting it.                                                          *)

\* The partition build_mbr enters is the one find_active_unix_partition finds.
LEMMA ActiveIs ==
  ASSUME NEW r
  PROVE  find_active_unix_partition(build_mbr(r).table) = Partition(r)
<1> DEFINE table == build_mbr(r).table
           unix == {i \in DOMAIN table : table[i].type = UNIXWARE_PARTITION_TYPE}
           active == {i \in unix : table[i].bootable}
<1>1. table = <<Partition(r), EmptyPartition, EmptyPartition, EmptyPartition>>
  BY DEF build_mbr
<1>2. Partition(r).type = 99 /\ Partition(r).bootable = TRUE /\ EmptyPartition.type = 0
  BY DEF Partition, EmptyPartition, UNIXWARE_PARTITION_TYPE
<1>3. DOMAIN table = 1 .. 4  BY <1>1
<1>4. /\ table[1] = Partition(r) /\ table[2] = EmptyPartition
      /\ table[3] = EmptyPartition /\ table[4] = EmptyPartition
  BY <1>1
<1>5. find_active_unix_partition(table) =
        IF active # {} THEN table[Min(active)]
        ELSE IF unix # {} THEN table[Min(unix)] ELSE EmptyPartition
  BY DEF find_active_unix_partition
<1> HIDE DEF table
<1>6. active = {1}
  BY <1>2, <1>3, <1>4 DEF UNIXWARE_PARTITION_TYPE
<1>7. Min({1}) = 1
  <2>1. {1} \subseteq Nat /\ 1 \in {1} /\ \A y \in {1} : 1 <= y  OBVIOUS
  <2> QED  BY <2>1, MinIs
<1>8. find_active_unix_partition(table) = Partition(r)
  <2> HIDE DEF active, unix
  <2> QED  BY <1>4, <1>5, <1>6, <1>7
<1> QED  BY <1>8 DEF table

\* With its MBR in place, the report's partition is the request's, and its
\* label, if there is one, one of the two the create command writes.
LEMMA InspectedMbr ==
  ASSUME NEW img, FileOK(img), NEW r, \A e \in img.ext : Own(e, r), HasMbr(img, r)
  PROVE  LET report == inspect_disk_image(img)
         IN  /\ WhatAt(img, 0).kind = "mbr" /\ WhatAt(img, 0).table = build_mbr(r).table
             /\ report.status = "ok" => report.active = Partition(r)
             /\ HasVtoc(report) =>
                  \E e \in img.ext : /\ e.at = LabelSector(r) /\ e.what = report.pdinfo
                                     /\ e.what \in {build_pdinfo(r), WithVtoc(r)}
<1> DEFINE mbr == WhatAt(img, 0)
           active == find_active_unix_partition(mbr.table)
           label == WhatAt(img, active.start + HDPDLOC)
           report == inspect_disk_image(img)
<1>1. mbr.kind = "mbr" /\ mbr.table = build_mbr(r).table
  <2>1. PICK e \in img.ext : e.at = 0 /\ e.what.kind = "mbr"
                               /\ e.what.table = build_mbr(r).table
    BY DEF HasMbr
  <2>2. WhatAt(img, e.at) = e.what  BY ReadIs
  <2> QED  BY <2>1, <2>2
<1>2. active = Partition(r)  BY <1>1, ActiveIs
<1>3. active.type # 0 /\ active.start = r.start
  BY <1>2 DEF Partition, UNIXWARE_PARTITION_TYPE
<1>4. report = IF mbr.kind # "mbr" \/ active.type = 0
               THEN Report("ok", EmptyPartition, NoPdInfo)
               ELSE IF active.start + HDPDLOC >= img.len
               THEN Report("panic", EmptyPartition, NoPdInfo)
               ELSE IF label.kind # "label" THEN Report("ok", active, NoPdInfo)
               ELSE Report("ok", active, label)
  BY DEF inspect_disk_image
<1> HIDE DEF mbr, active, label, report
<1>5. \/ report = Report("panic", EmptyPartition, NoPdInfo)
      \/ report = Report("ok", active, NoPdInfo)
      \/ report = Report("ok", active, label) /\ label.kind = "label"
  BY <1>1, <1>3, <1>4
<1>6. report.status = "ok" => report.active = Partition(r)
  BY <1>2, <1>5 DEF Report
<1>7. HasVtoc(report) => \E e \in img.ext : /\ e.at = LabelSector(r)
                                            /\ e.what = report.pdinfo
                                            /\ e.what \in {build_pdinfo(r), WithVtoc(r)}
  <2> SUFFICES ASSUME HasVtoc(report)
               PROVE  \E e \in img.ext : /\ e.at = LabelSector(r)
                                         /\ e.what = report.pdinfo
                                         /\ e.what \in {build_pdinfo(r), WithVtoc(r)}
    OBVIOUS
  <2>1. report.status = "ok" /\ report.pdinfo.kind = "label"  BY DEF HasVtoc
  <2>2. report.pdinfo = label /\ label.kind = "label"
    BY <1>5, <2>1 DEF Report, NoPdInfo
  <2>3. label = WhatAt(img, LabelSector(r))  BY <1>3 DEF label, LabelSector
  <2>4. PICK e \in img.ext : e.at = LabelSector(r) /\ e.what = label
    <3>1. WhatAt(img, LabelSector(r)).kind # "zero"  BY <2>2, <2>3
    <3> QED  BY <2>3, <3>1, ReadFrom
  <2>5. e.what \in {build_pdinfo(r), WithVtoc(r)}  BY <2>2, <2>4 DEF Own
  <2> QED  BY <2>2, <2>4, <2>5
<1> QED  BY <1>1, <1>6, <1>7 DEF mbr, report

\* Without it, nothing is reported.
LEMMA InspectedNothing ==
  ASSUME NEW img, NEW r, \A e \in img.ext : Own(e, r), ~ HasMbr(img, r)
  PROVE  /\ inspect_disk_image(img) = Report("ok", EmptyPartition, NoPdInfo)
         /\ ~ HasVtoc(inspect_disk_image(img))
<1> DEFINE mbr == WhatAt(img, 0)
<1>1. mbr.kind # "mbr"
  <2> SUFFICES ASSUME mbr.kind = "mbr"  PROVE FALSE  OBVIOUS
  <2>1. WhatAt(img, 0).kind # "zero"  OBVIOUS
  <2>2. PICK e \in img.ext : e.at = 0 /\ e.what = mbr  BY <2>1, ReadFrom
  <2>3. Own(e, r) /\ e.what.kind = "mbr"  BY <2>2
  <2> QED  BY <2>2, <2>3 DEF Own, HasMbr
<1>2. inspect_disk_image(img) = Report("ok", EmptyPartition, NoPdInfo)
  BY <1>1 DEF inspect_disk_image
<1>3. ~ HasVtoc(Report("ok", EmptyPartition, NoPdInfo))
  BY DEF HasVtoc, Report, NoPdInfo
<1> QED  BY <1>2, <1>3

\* With the label of a finished create command, the report is the request's.
LEMMA InspectedLabel ==
  ASSUME NEW img, FileOK(img), NEW r, r.start \in Nat,
         \A e \in img.ext : Own(e, r), HasMbr(img, r), HasLabel(img, r)
  PROVE  inspect_disk_image(img) = Report("ok", Partition(r), WithVtoc(r))
<1> DEFINE mbr == WhatAt(img, 0)
           active == find_active_unix_partition(mbr.table)
           label == WhatAt(img, active.start + HDPDLOC)
           e == Extent(LabelSector(r), 1, WithVtoc(r))
<1>1. mbr.kind = "mbr" /\ mbr.table = build_mbr(r).table  BY InspectedMbr
<1>2. active = Partition(r)  BY <1>1, ActiveIs
<1>3. active.type # 0 /\ active.start = r.start
  BY <1>2 DEF Partition, UNIXWARE_PARTITION_TYPE
<1>4. e \in img.ext /\ e.at = LabelSector(r) /\ e.n = 1 /\ e.what = WithVtoc(r)
  BY DEF HasLabel, Extent
<1>5. label = WithVtoc(r)
  <2> HIDE DEF e
  <2>1. WhatAt(img, e.at) = e.what  BY <1>4, ReadIs
  <2>2. active.start + HDPDLOC = LabelSector(r)  BY <1>3 DEF LabelSector
  <2> QED  BY <1>4, <2>1, <2>2
<1>6. label.kind = "label"  BY <1>5 DEF WithVtoc, build_pdinfo
<1>7. active.start + HDPDLOC < img.len
  <2>1. e.at + e.n <= img.len /\ img.len \in Nat  BY <1>4 DEF FileOK
  <2> HIDE DEF e
  <2> QED  BY <1>3, <1>4, <2>1 DEF LabelSector, HDPDLOC
<1>8. ~ (active.start + HDPDLOC >= img.len)
  BY <1>3, <1>7 DEF FileOK, HDPDLOC
<1>9. inspect_disk_image(img) =
        IF mbr.kind # "mbr" \/ active.type = 0
        THEN Report("ok", EmptyPartition, NoPdInfo)
        ELSE IF active.start + HDPDLOC >= img.len
        THEN Report("panic", EmptyPartition, NoPdInfo)
        ELSE IF label.kind # "label" THEN Report("ok", active, NoPdInfo)
        ELSE Report("ok", active, label)
  BY DEF inspect_disk_image
<1> HIDE DEF mbr, active, label
<1> QED  BY <1>1, <1>2, <1>3, <1>5, <1>6, <1>8, <1>9

\* What the checks of create_raw_image_skeleton leave of a request.
LEMMA RequestFacts ==
  ASSUME NEW r \in RequestType, Valid(r)
  PROVE  /\ r.geometry \in GeometryType /\ r.mode \in {"chs", "lba28"}
         /\ r.start \in Nat \ {0} /\ r.size \in Nat \ {0}
         /\ total_sectors(r.geometry) \in Nat
         /\ r.start + r.size <= total_sectors(r.geometry)
         /\ \A p \in ToSet(r.slices) :
              /\ p \in SliceType /\ p.index \in 0 .. 15
              /\ p.start \in Nat /\ p.count \in Nat /\ r.start <= p.start
              /\ p.start + p.count <= total_sectors(r.geometry)
         /\ \A p, q \in ToSet(r.slices) : p.index = q.index => p = q
<1>1. /\ r.geometry \in GeometryType /\ r.mode \in {"chs", "lba28"}
      /\ r.start \in Nat /\ r.size \in Nat /\ r.slices \in Seq(SliceType)
  BY DEF RequestType
<1>2. total_sectors(r.geometry) \in Nat
  <2>1. /\ r.geometry.cylinders \in Nat /\ r.geometry.heads \in Nat
        /\ r.geometry.sectors_per_track \in Nat
    BY <1>1 DEF GeometryType
  <2> QED  BY <2>1 DEF total_sectors, CylinderSize
<1>3. r.start >= 1 /\ r.size > 0 /\ r.start + r.size <= total_sectors(r.geometry)
  BY DEF Valid, validate_unix_partition
<1>4. \A p \in ToSet(r.slices) : p \in SliceType  BY <1>1 DEF ToSet
<1>5. ASSUME NEW p \in ToSet(r.slices)
      PROVE  /\ p.index \in 0 .. 15 /\ p.start \in Nat /\ p.count \in Nat
             /\ r.start <= p.start /\ p.start + p.count <= total_sectors(r.geometry)
  <2>1. p.start \in Int /\ p.count \in Int  BY <1>4 DEF SliceType
  <2>2. /\ p.index \in 0 .. 15 /\ p.start >= 0 /\ p.count >= 0
        /\ p.start >= r.start /\ p.start + p.count <= r.start + r.size
    BY DEF Valid, validate_vtoc_partitions
  <2> HIDE DEF Valid
  <2> QED  BY <1>1, <1>2, <1>3, <2>1, <2>2
<1>6. \A p, q \in ToSet(r.slices) : p.index = q.index => p = q
  BY DEF Valid, validate_vtoc_partitions, ToSet
<1> QED  BY <1>1, <1>2, <1>3, <1>4, <1>5, <1>6

\* A slice of a disk that is not too long is stored and read as it is.
LEMMA StoredIs ==
  ASSUME NEW r \in RequestType, Valid(r), Narrow(r), NEW p \in ToSet(r.slices)
  PROVE  Stored(p) = p /\ Clamped(p) = p
<1>1. /\ p \in SliceType /\ p.start \in Nat /\ p.count \in Nat
      /\ r.start <= p.start /\ r.start \in Nat \ {0} /\ r.size \in Nat
  BY RequestFacts
<1>2. p.start + p.count <= r.start + r.size
  BY DEF Valid, validate_vtoc_partitions
<1>3. WordMod \div 2 \in Int  BY WordAssumption
<1>4. p.start < WordMod \div 2 /\ p.count < WordMod \div 2
  BY <1>1, <1>2, <1>3 DEF Narrow
<1>5. AsI32(p.start) = p.start /\ AsI32(p.count) = p.count
  BY <1>1, <1>4, SignedWord
<1>6. Greater(0, p.start) = p.start /\ Greater(0, p.count) = p.count
  BY <1>1 DEF Greater
<1>7. Slice(p.index, p.tag, p.start, p.count) = p  BY <1>1 DEF Slice, SliceType
<1> QED  BY <1>5, <1>6, <1>7 DEF Stored, Clamped

\* The entries of a VTOC that have a length are the slices of the request.
LEMMA VtocEntries ==
  ASSUME NEW r \in RequestType, Valid(r), Narrow(r)
  PROVE  LET parts == build_vtoc(r.slices).partitions
         IN  /\ \A i \in 0 .. 15 : parts[i].count > 0 => parts[i] \in ToSet(r.slices)
             /\ \A p \in ToSet(r.slices) : parts[p.index] = p
<1> DEFINE parts == build_vtoc(r.slices).partitions
           S == ToSet(r.slices)
           of(i) == CHOOSE p \in S : p.index = i
<1>1. \A i \in 0 .. 15 : parts[i] = IF \E p \in S : p.index = i THEN Stored(of(i))
                                    ELSE Slice(i, 0, 0, 0)
  BY DEF build_vtoc
<1>2. \A p \in S : p.index \in 0 .. 15  BY RequestFacts
<1>3. \A p, q \in S : p.index = q.index => p = q  BY RequestFacts
<1>4. \A i : (\E p \in S : p.index = i) => of(i) \in S /\ of(i).index = i  OBVIOUS
<1>5. \A i : Slice(i, 0, 0, 0).count = 0  BY DEF Slice
<1>s. \A p \in S : Stored(p) = p  BY StoredIs
<1> HIDE DEF parts, S, of
<1>6. \A i \in 0 .. 15 : parts[i].count > 0 => parts[i] \in S
  BY <1>1, <1>4, <1>5, <1>s
<1>7. \A p \in S : parts[p.index] = p  BY <1>1, <1>2, <1>3, <1>4, <1>s
<1> QED  BY <1>6, <1>7 DEF parts, S

\* The slice a format command works on is a slice of the request.
LEMMA SelectedSlice ==
  ASSUME FileOK(image), asked \in RequestType, Valid(asked), Narrow(asked),
         \A e \in image.ext : Own(e, asked),
         NEW selector, Formattable(Selected(selector))
  PROVE  /\ Selected(selector) \in ToSet(asked.slices)
         /\ HasMbr(image, asked)
         /\ inspect_disk_image(image).pdinfo.geometry = asked.geometry
<1> DEFINE report == inspect_disk_image(image)
           parts == report.pdinfo.vtoc.partitions
           tagged == {i \in 0 .. 15 : partition_tag_name(parts[i].tag) = selector.name}
           first == CHOOSE i \in tagged : \A j \in tagged : i <= j
           entry == get_vtoc_partition_by_selector(report, selector)
<1>1. entry =
        IF ~ HasVtoc(report) THEN NoSlice
        ELSE IF selector.index \in 0 .. 15 THEN parts[selector.index]
        ELSE IF tagged = {} THEN NoSlice ELSE parts[first]
  BY DEF get_vtoc_partition_by_selector
<1>a. Selected(selector) = Clamped(entry)  BY DEF Selected
<1> HIDE DEF entry
<1>b. Clamped(NoSlice) = NoSlice  BY DEF Clamped, NoSlice, Slice, Greater
<1>c. Clamped(entry).count > 0 => entry.count > 0
  <2>1. Clamped(entry).count = Greater(0, entry.count)  BY DEF Clamped, Slice
  <2> QED  BY <2>1 DEF Greater
<1>2. entry # NoSlice /\ entry.count > 0
  BY <1>a, <1>b, <1>c DEF Formattable
<1>3. HasVtoc(report)  BY <1>1, <1>2
<1>4. HasMbr(image, asked)  BY <1>3, InspectedNothing
<1>5. report.pdinfo \in {build_pdinfo(asked), WithVtoc(asked)}
  BY <1>3, <1>4, InspectedMbr
<1>6. tagged # {} => first \in 0 .. 15
  <2> SUFFICES ASSUME tagged # {}  PROVE first \in 0 .. 15  OBVIOUS
  <2>1. tagged \subseteq Nat /\ tagged \subseteq 0 .. 15  OBVIOUS
  <2> HIDE DEF tagged
  <2>2. first = Min(tagged)  BY DEF Min
  <2>3. Min(tagged) \in tagged  BY <2>1, MinInSet
  <2> QED  BY <2>1, <2>2, <2>3
<1>7. \E i \in 0 .. 15 : entry = parts[i]
  <2> HIDE DEF report, parts, tagged, first
  <2> QED  BY <1>1, <1>2, <1>3, <1>6
<1>8. PICK i \in 0 .. 15 : entry = parts[i]  BY <1>7
<1> HIDE DEF report
<1>9. report.pdinfo.geometry = asked.geometry
  BY <1>5 DEF build_pdinfo, WithVtoc
<1>10. report.pdinfo # build_pdinfo(asked)
  <2> SUFFICES ASSUME report.pdinfo = build_pdinfo(asked)  PROVE FALSE  OBVIOUS
  <2>1. parts = EmptyVtoc.partitions  BY DEF build_pdinfo
  <2>2. \A j \in 0 .. 15 : EmptyVtoc.partitions[j].count = 0  BY DEF EmptyVtoc, Slice
  <2> HIDE DEF parts
  <2> QED  BY <1>2, <1>8, <2>1, <2>2
<1>11. parts = build_vtoc(asked.slices).partitions
  BY <1>5, <1>10 DEF WithVtoc, build_pdinfo
<1> HIDE DEF parts
<1>12. entry \in ToSet(asked.slices)  BY <1>2, <1>8, <1>11, VtocEntries
<1>13. Selected(selector) = entry  BY <1>a, <1>12, StoredIs
<1> QED  BY <1>4, <1>9, <1>12, <1>13 DEF report

----------------------------------------------------------------------------
(* What format-ufs writes.                                                 *)

UfsRuns(base, sb) ==
  GroupRuns(base, sb) \cup {SuperblockRun(base, sb)} \cup RootRuns(base, sb)

UfsKinds == {"ufs", "cg", "rootinode", "dirblock", "summary"}

\* The blocks of the groups of a sound layout do not meet.
LEMMA GroupBlocks ==
  ASSUME NEW sb, SoundLayout(sb), LayoutNumbers(sb), NEW base \in Nat
  PROVE  \A c \in 0 .. sb.ncg - 1 :
           LET at == base + cgtod(sb, c)
           IN  /\ at \in Nat /\ base + sb.cblkno <= at
               /\ c = 0 => at = base + sb.cblkno
               /\ c # 0 => base + sb.dblkno + sb.frag <= at
               /\ \A d \in 0 .. sb.ncg - 1 :
                    c < d => at + sb.frag <= base + cgtod(sb, d)
<1> DEFINE f == sb.fpg
           k == sb.cblkno
<1>1. /\ f \in Nat \ {0} /\ k \in Nat /\ sb.frag \in Nat /\ sb.dblkno \in Nat
      /\ sb.ncg \in Nat /\ sb.dblkno + sb.frag <= f
      /\ sb.frag <= f
  BY DEF SoundLayout, LayoutNumbers
<1>2. \A c : cgtod(sb, c) = c * f + k  BY DEF cgtod, cgbase
<1> HIDE DEF f, k
<1> SUFFICES ASSUME NEW c \in 0 .. sb.ncg - 1
             PROVE  /\ base + cgtod(sb, c) \in Nat
                    /\ base + k <= base + cgtod(sb, c)
                    /\ c = 0 => base + cgtod(sb, c) = base + k
                    /\ c # 0 => base + sb.dblkno + sb.frag <= base + cgtod(sb, c)
                    /\ \A d \in 0 .. sb.ncg - 1 :
                         c < d => base + cgtod(sb, c) + sb.frag <= base + cgtod(sb, d)
  BY DEF k
<1>3. c \in Nat /\ c * f = f * c /\ f * c \in Nat  BY <1>1
<1>4. c = 0 => f * c = 0  BY <1>1
<1>5. c # 0 => f <= f * c
  <2> SUFFICES ASSUME c # 0  PROVE f <= f * c  OBVIOUS
  <2>1. f * 0 + f <= f * c  BY <1>1, <1>3, MulMono
  <2> QED  BY <1>1, <2>1
<1>6. ASSUME NEW d \in 0 .. sb.ncg - 1, c < d
      PROVE  base + cgtod(sb, c) + sb.frag <= base + cgtod(sb, d)
  <2>1. f * c + f <= f * d  BY <1>1, <1>3, <1>6, MulMono
  <2>2. d * f = f * d /\ f * d \in Nat  BY <1>1
  <2> DEFINE x == f * c   y == f * d
  <2>3. cgtod(sb, c) = x + k /\ cgtod(sb, d) = y + k /\ x \in Nat /\ y \in Nat
        /\ x + f <= y
    BY <1>2, <1>3, <2>1, <2>2
  <2> HIDE DEF x, y
  <2> QED  BY <1>1, <2>3
<1> DEFINE x == f * c
<1>7. /\ cgtod(sb, c) = x + k /\ x \in Nat /\ (c = 0 => x = 0)
      /\ (c # 0 => f <= x)
  BY <1>2, <1>3, <1>4, <1>5
<1> HIDE DEF x
<1> QED  BY <1>1, <1>6, <1>7

\* The superblock, the summary area, the root inode and the root directory
\* are inside the slice, past its first 16 sectors; no two structures meet,
\* the blocks of the groups included.
LEMMA UfsRunsPlaced ==
  ASSUME NEW sb, SoundLayout(sb), LayoutNumbers(sb), sb.kind = "ufs",
         NEW base \in Nat
  PROVE  /\ RunsApart(UfsRuns(base, sb))
         /\ \A e \in UfsRuns(base, sb) :
              IsRun(e) /\ base + 16 <= e.at /\ e.what.kind \in UfsKinds
         /\ \A e \in {SuperblockRun(base, sb)} \cup RootRuns(base, sb) :
              e.at + e.n <= base + sb.dsize
<1> DEFINE N == 0 .. sb.ncg - 1
           at(c) == base + cgtod(sb, c)
           G(c) == Extent(at(c), sb.frag, [kind |-> "cg", cg |-> c])
           S == SuperblockRun(base, sb)
           I == Extent(base + sb.iblkno, 1, [kind |-> "rootinode", db |-> sb.dblkno])
           D == Extent(base + sb.dblkno, 1, [kind |-> "dirblock", names |-> {".", ".."}])
           U == Extent(base + sb.csaddr, sb.cssize, [kind |-> "summary", ncg |-> sb.ncg])
<1>1. /\ sb.frag \in {8, 16} /\ sb.dsize \in Nat /\ sb.cssize \in Nat \ {0}
      /\ sb.csaddr \in Nat /\ sb.cblkno \in Nat /\ sb.iblkno \in Nat
      /\ sb.dblkno \in Nat /\ sb.iblkno + sb.frag <= sb.dblkno
      /\ 32 <= sb.csaddr /\ sb.csaddr + sb.cssize <= sb.cblkno
      /\ sb.cblkno + sb.frag <= sb.iblkno /\ sb.dblkno + sb.frag <= sb.dsize
  BY DEF SoundLayout, LayoutNumbers, UFS_SB_SECTOR, UFS_SB_SECTORS
<1>2. /\ S.at = base + 16 /\ S.n = 3 /\ S.what = sb
      /\ I.at = base + sb.iblkno /\ I.n = 1 /\ I.what.kind = "rootinode"
      /\ D.at = base + sb.dblkno /\ D.n = 1 /\ D.what.kind = "dirblock"
      /\ U.at = base + sb.csaddr /\ U.n = sb.cssize /\ U.what.kind = "summary"
  BY DEF SuperblockRun, Extent, UFS_SB_SECTOR
<1>3. \A c \in N : G(c).at = at(c) /\ G(c).n = sb.frag /\ G(c).what.kind = "cg"
  BY DEF Extent
<1>4. \A c \in N :
        /\ at(c) \in Nat /\ base + sb.cblkno <= at(c)
        /\ c = 0 => at(c) = base + sb.cblkno
        /\ c # 0 => base + sb.dblkno + sb.frag <= at(c)
        /\ \A d \in N : c < d => at(c) + sb.frag <= at(d)
  BY GroupBlocks
<1>5. /\ GroupRuns(base, sb) = {G(c) : c \in N}
      /\ RootRuns(base, sb) = {I, D, U}
  BY DEF GroupRuns, RootRuns
<1>6. UfsRuns(base, sb) = {G(c) : c \in N} \cup {S, I, D, U}
  BY <1>5 DEF UfsRuns
<1>7. \A c \in N : c \in Int  OBVIOUS
<1> HIDE DEF N, at, G, S, I, D, U
<1>8. \A e \in {S, I, D, U} : /\ IsRun(e) /\ base + 16 <= e.at
                              /\ e.at + e.n <= base + sb.dsize
                              /\ e.what.kind \in UfsKinds
  BY <1>1, <1>2 DEF IsRun, UfsKinds
<1>9. \A c \in N : /\ IsRun(G(c)) /\ base + 16 <= G(c).at
                   /\ G(c).what.kind \in UfsKinds
  BY <1>1, <1>3, <1>4 DEF IsRun, UfsKinds
<1>10. RunsApart({S, I, D, U})
  BY <1>1, <1>2 DEF RunsApart, Apart
<1>11. ASSUME NEW c \in N, NEW d \in N, G(c) # G(d)  PROVE Apart(G(c), G(d))
  <2>1. c # d  BY <1>11
  <2>2. c < d \/ d < c  BY <1>7, <2>1
  <2> QED  BY <1>3, <1>4, <2>2 DEF Apart
<1>12. ASSUME NEW c \in N, NEW e \in {S, I, D, U}
       PROVE  Apart(G(c), e) /\ Apart(e, G(c))
  <2>1. CASE c = 0
    <3>1. G(c).at = base + sb.cblkno /\ G(c).n = sb.frag  BY <1>3, <1>4, <2>1
    <3> QED  BY <1>1, <1>2, <1>12, <3>1 DEF Apart
  <2>2. CASE c # 0
    <3>1. /\ G(c).at \in Nat /\ base + sb.dblkno + sb.frag <= G(c).at
          /\ G(c).n = sb.frag
      BY <1>3, <1>4, <2>2
    <3>2. e.at + e.n <= base + sb.dblkno + sb.frag
      BY <1>1, <1>2, <1>12
    <3>3. e.at + e.n \in Nat  BY <1>8 DEF IsRun
    <3> QED  BY <1>1, <3>1, <3>2, <3>3 DEF Apart
  <2> QED  BY <2>1, <2>2
<1>13. RunsApart(UfsRuns(base, sb))
  BY <1>6, <1>10, <1>11, <1>12 DEF RunsApart
<1> QED  BY <1>5, <1>6, <1>8, <1>9, <1>13 DEF S

\* format writes some of these structures, all when it returns; the file
\* keeps its length, also when it panics.
LEMMA UfsFormatted ==
  ASSUME NEW img, FileOK(img), NEW base \in Nat, NEW size \in Int,
         NEW opts \in FormatOptions, format(img, base, size, opts).status # "refused"
  PROVE  LET out == format(img, base, size, opts)
             sb == Layout(size, opts)
         IN  \E runs \in SUBSET UfsRuns(base, sb) :
               /\ SoundLayout(sb) /\ LayoutNumbers(sb) /\ sb.dsize = size /\ size > 48
               /\ FileOK(out.img) /\ out.img.len = img.len
               /\ out.img.ext
                    = {e \in img.ext : \A f \in runs : Apart(e, f)} \cup runs
               /\ SuperblockRun(base, sb) \in runs
               /\ \A e \in runs : e.at + e.n <= img.len
               /\ out.status \in {"done", "panic"}
               /\ out.status = "done" => runs = UfsRuns(base, sb)
<1> DEFINE out == format(img, base, size, opts)
           sb == Layout(size, opts)
           G == GroupRuns(base, sb)
           fits == {e \in G : e.at + e.n <= img.len}
           some == fits \cup {SuperblockRun(base, sb)}
           all == some \cup RootRuns(base, sb)
           runs == IF fits # G THEN some ELSE all
<1>1. out = IF ~ Acceptable(img, base, size, opts)
            THEN [status |-> "refused", img |-> img]
            ELSE IF ~ LayoutAcceptable(sb) THEN [status |-> "refused", img |-> img]
            ELSE IF fits # G THEN [status |-> "panic", img |-> Put(img, some)]
            ELSE [status |-> "done", img |-> Put(img, all)]
  BY DEF format
<1>2. Acceptable(img, base, size, opts) /\ LayoutAcceptable(sb)
  <2> HIDE DEF sb, G, fits, some, all, out
  <2>1. out.status # "refused"  BY DEF out
  <2> QED  BY <1>1, <2>1
<1>3. SoundLayout(sb) /\ LayoutNumbers(sb)  BY <1>2, LayoutIsSound
<1>4. sb.kind = "ufs" /\ sb.dsize = size  BY DEF Layout, SuperblockOf
<1>5. base + size <= img.len  BY <1>2 DEF Acceptable
<1> HIDE DEF sb
<1>6. /\ RunsApart(UfsRuns(base, sb))
      /\ \A e \in UfsRuns(base, sb) : IsRun(e)
      /\ \A e \in {SuperblockRun(base, sb)} \cup RootRuns(base, sb) :
           e.at + e.n <= base + sb.dsize
  BY <1>3, <1>4, UfsRunsPlaced
<1>7. size > 48
  BY <1>3, <1>4 DEF SoundLayout, LayoutNumbers, UFS_SB_SECTOR, UFS_SB_SECTORS
<1>8. runs \subseteq UfsRuns(base, sb) /\ SuperblockRun(base, sb) \in runs
  BY DEF UfsRuns
<1>9. \A e \in runs : IsRun(e) /\ e.at + e.n <= img.len
  <2> SUFFICES ASSUME NEW e \in runs  PROVE IsRun(e) /\ e.at + e.n <= img.len
    OBVIOUS
  <2>1. e \in UfsRuns(base, sb)  BY <1>8
  <2>2. CASE e \in fits  BY <1>6, <2>1, <2>2
  <2>3. CASE e \in {SuperblockRun(base, sb)} \cup RootRuns(base, sb)
    <3>1. IsRun(e) /\ e.at + e.n <= base + size  BY <1>4, <1>6, <2>1, <2>3
    <3>2. img.len \in Nat  BY DEF FileOK
    <3> QED  BY <1>5, <3>1, <3>2 DEF IsRun
  <2> QED  BY <2>2, <2>3
<1>10. /\ out.img = Put(img, runs) /\ out.status \in {"done", "panic"}
       /\ out.status = "done" => runs = all /\ fits = G
  <2> HIDE DEF fits, G, some, all, out
  <2> QED  BY <1>1, <1>2
<1>11. RunsApart(runs)  BY <1>6, <1>8 DEF RunsApart
<1>12. fits = G => all = UfsRuns(base, sb)  BY DEF UfsRuns
<1> HIDE DEF out, runs, G, fits, some, all
<1>13. /\ FileOK(out.img) /\ out.img.len = img.len
       /\ out.img.ext = {e \in img.ext : \A f \in runs : Apart(e, f)} \cup runs
  BY <1>9, <1>10, <1>11, PutFits
<1>14. out.status = "done" => runs = UfsRuns(base, sb)  BY <1>10, <1>12
<1> QED
  BY <1>3, <1>4, <1>7, <1>8, <1>9, <1>10, <1>13, <1>14 DEF out, sb

----------------------------------------------------------------------------
(* What format-bfs writes.                                                 *)

BfsFile == [name : STRING, data : FileData]

BfsKinds == {"bfs", "dirents", "ldir", "file"}

\* A part of a sector takes a sector.
LEMMA DivCeilPositive ==
  ASSUME NEW x \in Nat \ {0}, NEW n \in Nat \ {0}
  PROVE  DivCeil(x, n) \in Nat \ {0}
<1> DEFINE q == DivCeil(x, n)
<1>1. q \in Nat /\ x <= n * q  BY DivCeilBounds
<1> HIDE DEF q
<1>2. q = 0 => n * q = 0  OBVIOUS
<1>3. q # 0  BY <1>1, <1>2
<1> QED  BY <1>1, <1>3 DEF q

\* The areas of a boot file system have room for what is in them.
LEMMA BfsSizes ==
  ASSUME NEW files \in Seq(BfsFile)
  PROVE  /\ Len(files) \in Nat /\ DOMAIN files = 1 .. Len(files)
         /\ data_start(files) \in Nat /\ data_start(files) > 1
         /\ root_dir_alloc(files) \in Nat \ {0}
         /\ \A i \in 1 .. Len(files) :
              /\ files[i].data.bytes \in Nat /\ allocation(files[i]) \in Nat
              /\ files[i].data.bytes > 0 => allocation(files[i]) > 0
<1>1. Len(files) \in Nat /\ DOMAIN files = 1 .. Len(files)
      /\ \A i \in 1 .. Len(files) : files[i] \in BfsFile
  BY LenProperties
<1>2. SECTOR_SIZE \in Nat \ {0}  BY DEF SECTOR_SIZE
<1>3. data_start(files) \in Nat /\ data_start(files) > 1
  <2> DEFINE x == total_slots(files) * BFS_DIRENT_SIZE
             d == DivCeil(x, SECTOR_SIZE)
  <2>1. x \in Nat \ {0}  BY <1>1 DEF total_slots, BFS_DIRENT_SIZE
  <2>2. data_start(files) = 1 + d  BY DEF data_start
  <2> HIDE DEF x
  <2>3. d \in Nat \ {0}  BY <1>2, <2>1, DivCeilPositive
  <2> HIDE DEF d
  <2> QED  BY <2>2, <2>3
<1>4. root_dir_alloc(files) \in Nat \ {0}
  <2>1. CASE files = <<>>  BY <2>1 DEF root_dir_alloc
  <2>2. CASE files # <<>>
    <3> DEFINE x == Len(files) * BFS_LDIR_SIZE
    <3>1. Len(files) # 0  BY <2>2, EmptySeq
    <3>2. x \in Nat \ {0}  BY <1>1, <3>1 DEF BFS_LDIR_SIZE
    <3>3. root_dir_alloc(files) = DivCeil(x, SECTOR_SIZE)  BY <2>2 DEF root_dir_alloc
    <3> HIDE DEF x
    <3> QED  BY <1>2, <3>2, <3>3, DivCeilPositive
  <2> QED  BY <2>1, <2>2
<1>5. ASSUME NEW i \in 1 .. Len(files)
      PROVE  /\ files[i].data.bytes \in Nat /\ allocation(files[i]) \in Nat
             /\ files[i].data.bytes > 0 => allocation(files[i]) > 0
  <2> DEFINE b == files[i].data.bytes
  <2>1. b \in Nat /\ allocation(files[i]) = DivCeil(b, SECTOR_SIZE)
    BY <1>1 DEF BfsFile, FileData, allocation
  <2> HIDE DEF b
  <2>2. DivCeil(b, SECTOR_SIZE) \in Nat  BY <1>2, <2>1, DivCeilBounds
  <2>3. b > 0 => DivCeil(b, SECTOR_SIZE) \in Nat \ {0}
    BY <1>2, <2>1, DivCeilPositive
  <2> HIDE DEF allocation
  <2>4. b > 0 => allocation(files[i]) > 0  BY <2>1, <2>3
  <2> QED  BY <2>1, <2>2, <2>4 DEF b
<1> QED  BY <1>1, <1>3, <1>4, <1>5

\* The recursive function DataEnd exists and satisfies its equations.
LEMMA DataEndIs ==
  ASSUME NEW files \in Seq(BfsFile)
  PROVE  /\ DataEnd(files)[0] = data_start(files) + root_dir_alloc(files)
         /\ \A k \in 0 .. Len(files) : DataEnd(files)[k] \in Nat
         /\ \A k \in 1 .. Len(files) :
              DataEnd(files)[k] = DataEnd(files)[k - 1] + allocation(files[k])
<1> DEFINE n == Len(files)
           a == data_start(files) + root_dir_alloc(files)
           g == [k \in 1 .. n |-> [x \in Nat |-> x + allocation(files[k])]]
<1>1. n \in Nat /\ a \in Nat /\ \A k \in 1 .. n : allocation(files[k]) \in Nat
  BY BfsSizes
<1>2. g \in [1 .. n -> [Nat -> Nat]]  BY <1>1
<1>3. \A k \in 1 .. n, x \in Nat : g[k][x] = x + allocation(files[k])  OBVIOUS
<1> DEFINE F(e) == [k \in 0 .. n |-> IF k = 0 THEN a
                                     ELSE e[k - 1] + allocation(files[k])]
           o == CHOOSE e : e = F(e)
<1>4. DataEnd(files) = o  BY DEF DataEnd
<1> HIDE DEF n, a, g
<1>5. PICK f \in [0 .. n -> Nat] : f[0] = a /\ \A k \in 1 .. n : f[k] = g[k][f[k - 1]]
  <2> DEFINE S == Nat
  <2>1. n \in Nat /\ a \in S /\ g \in Steps(S, n)  BY <1>1, <1>2 DEF Steps
  <2> HIDE DEF S
  <2>2. \E f : IsStepwise(f, S, n, a, g)  BY <2>1, StepwiseExists
  <2> QED  BY <2>2 DEF S, IsStepwise
<1>6. \A k \in 1 .. n : k - 1 \in 0 .. n /\ k \in 0 .. n /\ k # 0  BY <1>1
<1>7. \A k \in 1 .. n : f[k] = f[k - 1] + allocation(files[k])
  BY <1>3, <1>5, <1>6
<1>8. f = F(f)
  <2>1. DOMAIN f = 0 .. n  BY <1>5
  <2>2. \A k \in 0 .. n : f[k] = IF k = 0 THEN a ELSE f[k - 1] + allocation(files[k])
    <3>1. \A k \in 0 .. n : k # 0 => k \in 1 .. n  BY <1>1
    <3> QED  BY <1>5, <1>7, <3>1
  <2> QED  BY <2>1, <2>2
<1>9. o = F(o)
  <2> HIDE DEF F
  <2> QED  BY <1>8
<1> HIDE DEF o
<1>10. o[0] = a /\ \A k \in 1 .. n : o[k] = o[k - 1] + allocation(files[k])
  <2>1. \A k \in 0 .. n : o[k] = F(o)[k]  BY <1>9
  <2>2. 0 \in 0 .. n  BY <1>1
  <2> QED  BY <1>6, <2>1, <2>2
<1>11. \A k \in 0 .. n : o[k] \in Nat
  <2> DEFINE B == {k \in 0 .. n : o[k] \notin Nat}
  <2> SUFFICES ASSUME B # {}  PROVE FALSE  OBVIOUS
  <2> DEFINE m == Min(B)
  <2>1. B \subseteq Nat  BY <1>1
  <2>2. m \in B /\ \A k \in B : m <= k
    <3> HIDE DEF B
    <3> QED  BY <2>1, MinInSet
  <2> HIDE DEF m
  <2>3. m \in 0 .. n /\ o[m] \notin Nat  BY <2>2
  <2>4. m \in 1 .. n /\ m - 1 \in 0 .. n  BY <1>1, <1>10, <2>3
  <2>5. o[m - 1] \in Nat  BY <1>1, <2>2, <2>4
  <2> QED  BY <1>1, <1>10, <2>3, <2>4, <2>5
<1> QED  BY <1>4, <1>10, <1>11 DEF n, a

\* A file starts where the ones before it end, or later.
LEMMA DataEndGrows ==
  ASSUME NEW files \in Seq(BfsFile), NEW i \in 0 .. Len(files),
         NEW j \in 0 .. Len(files), i <= j
  PROVE  DataEnd(files)[i] <= DataEnd(files)[j]
<1> DEFINE o == DataEnd(files)
           n == Len(files)
           B == {k \in i .. n : ~ (o[i] <= o[k])}
<1>1. /\ n \in Nat /\ \A k \in 0 .. n : o[k] \in Nat
      /\ \A k \in 1 .. n : o[k] = o[k - 1] + allocation(files[k])
                             /\ allocation(files[k]) \in Nat
  BY BfsSizes, DataEndIs
<1>2. i \in Nat /\ i \in 0 .. n /\ j \in i .. n  BY <1>1
<1> HIDE DEF o, n
<1>3. B = {}
  <2> SUFFICES ASSUME B # {}  PROVE FALSE  OBVIOUS
  <2> DEFINE m == Min(B)
  <2>1. B \subseteq Nat  BY <1>1, <1>2
  <2>2. m \in B /\ \A k \in B : m <= k
    <3> HIDE DEF B
    <3> QED  BY <2>1, MinInSet
  <2> HIDE DEF m
  <2>3. m \in i .. n /\ ~ (o[i] <= o[m])  BY <2>2
  <2>4. m # i  BY <1>1, <1>2, <2>3
  <2>5. m - 1 \in i .. n /\ m \in 1 .. n /\ m - 1 \in 0 .. n /\ m \in 0 .. n
    BY <1>1, <1>2, <2>3, <2>4
  <2>6. o[i] <= o[m - 1]
    <3>1. m - 1 \notin B
      <4>1. ~ (m <= m - 1)  BY <2>5
      <4> HIDE DEF B
      <4> QED  BY <2>2, <4>1
    <3> QED  BY <2>5, <3>1
  <2> QED  BY <1>1, <1>2, <2>3, <2>5, <2>6
<1> QED  BY <1>2, <1>3 DEF o

\* The superblock, the inode table, the root directory and the files of a
\* slice that is long enough for them are inside it and do not meet.
LEMMA BfsRunsPlaced ==
  ASSUME NEW files \in Seq(BfsFile), NEW base \in Nat, NEW n \in Nat,
         StartOf(files, Len(files) + 1) <= n
  PROVE  /\ RunsApart(Runs(base, n, files))
         /\ \A e \in Runs(base, n, files) :
              /\ IsRun(e) /\ base <= e.at /\ e.at + e.n <= base + n
              /\ e.what.kind \in BfsKinds
<1> DEFINE o == DataEnd(files)
           m == Len(files)
           ds == data_start(files)
           ra == root_dir_alloc(files)
           K == {k \in DOMAIN files : files[k].data.bytes > 0}
           Sup == Extent(base, 1, [kind |-> "bfs",
                                   data_start |-> AsU32(ds * SECTOR_SIZE),
                                   data_end |-> AsU32(n * SECTOR_SIZE - 1)])
           Tab == Extent(base + 1, ds - 1, [kind |-> "dirents",
                                            slots |-> InodeTable(files)])
           Dir == Extent(base + ds, ra, [kind |-> "ldir",
                                         entries |-> RootDirectory(files)])
           Fil(i) == Extent(base + StartOf(files, i), allocation(files[i]),
                            [kind |-> "file", data |-> files[i].data])
<1>1. Runs(base, n, files) = {Sup, Tab, Dir} \cup {Fil(i) : i \in K}
  BY DEF Runs
<1>2. /\ m \in Nat /\ DOMAIN files = 1 .. m /\ ds \in Nat /\ ds > 1 /\ ra \in Nat \ {0}
      /\ \A i \in K : allocation(files[i]) \in Nat /\ allocation(files[i]) > 0
  BY BfsSizes
<1>3. /\ Sup.at = base /\ Sup.n = 1 /\ Sup.what.kind = "bfs"
      /\ Tab.at = base + 1 /\ Tab.n = ds - 1 /\ Tab.what.kind = "dirents"
      /\ Dir.at = base + ds /\ Dir.n = ra /\ Dir.what.kind = "ldir"
  BY DEF Extent
<1>4. \A i \in K : /\ Fil(i).at = base + StartOf(files, i)
                   /\ Fil(i).n = allocation(files[i]) /\ Fil(i).what.kind = "file"
  BY DEF Extent
<1>5. /\ o[0] = ds + ra /\ \A k \in 0 .. m : o[k] \in Nat
      /\ \A k \in 1 .. m : o[k] = o[k - 1] + allocation(files[k])
  BY DataEndIs
<1>6. \A i, j \in 0 .. m : i <= j => o[i] <= o[j]  BY DataEndGrows
<1>7. \A i : StartOf(files, i) = o[i - 1]  BY DEF StartOf
<1>8. o[m] <= n
  <2>1. m + 1 - 1 = m  BY <1>2
  <2> QED  BY <1>7, <2>1
<1>9. K \subseteq 1 .. m  BY <1>2
<1> HIDE DEF o, m, ds, ra, K, Sup, Tab, Dir, Fil
<1>10. \A i \in K : i \in 1 .. m /\ i - 1 \in 0 .. m /\ i \in 0 .. m /\ i \in Int
  BY <1>2, <1>9
<1>11. \A i \in K : /\ Fil(i).at = base + o[i - 1] /\ Fil(i).n \in Nat \ {0}
                    /\ Fil(i).at + Fil(i).n = base + o[i]
                    /\ o[i - 1] \in Nat /\ o[i] \in Nat
  <2> SUFFICES ASSUME NEW i \in K
               PROVE  /\ Fil(i).at = base + o[i - 1] /\ Fil(i).n \in Nat \ {0}
                      /\ Fil(i).at + Fil(i).n = base + o[i]
                      /\ o[i - 1] \in Nat /\ o[i] \in Nat
    OBVIOUS
  <2>1. o[i - 1] \in Nat /\ o[i] \in Nat  BY <1>5, <1>10
  <2>2. o[i] = o[i - 1] + allocation(files[i])  BY <1>5, <1>10
  <2>3. Fil(i).at = base + o[i - 1] /\ Fil(i).n = allocation(files[i])
    BY <1>4, <1>7
  <2>4. allocation(files[i]) \in Nat \ {0}  BY <1>2
  <2> QED  BY <2>1, <2>2, <2>3, <2>4
<1>12. ds + ra <= n
  <2>1. 0 \in 0 .. m /\ m \in 0 .. m /\ 0 <= m  BY <1>2
  <2>2. o[0] <= o[m] /\ o[0] \in Nat /\ o[m] \in Nat  BY <1>5, <1>6, <2>1
  <2> QED  BY <1>2, <1>5, <1>8, <2>2
<1>13. \A e \in {Sup, Tab, Dir} : /\ IsRun(e) /\ base <= e.at
                                  /\ e.at + e.n <= base + ds + ra
                                  /\ e.at + e.n <= base + n
                                  /\ e.what.kind \in BfsKinds
  BY <1>2, <1>3, <1>12 DEF IsRun, BfsKinds
<1>14. ASSUME NEW i \in K
       PROVE  /\ IsRun(Fil(i)) /\ base + ds + ra <= Fil(i).at
              /\ Fil(i).at + Fil(i).n <= base + n /\ Fil(i).what.kind \in BfsKinds
  <2>1. 0 \in 0 .. m /\ m \in 0 .. m /\ 0 <= i - 1 /\ i <= m  BY <1>2, <1>10
  <2>2. o[0] <= o[i - 1] /\ o[i] <= o[m] /\ o[m] \in Nat
    BY <1>5, <1>6, <1>10, <2>1
  <2>3. IsRun(Fil(i))  BY <1>11 DEF IsRun
  <2>4. base + ds + ra <= Fil(i).at  BY <1>2, <1>5, <1>11, <2>2
  <2>5. Fil(i).at + Fil(i).n <= base + n  BY <1>8, <1>11, <2>2
  <2> QED  BY <1>4, <2>3, <2>4, <2>5 DEF BfsKinds
<1>15. RunsApart({Sup, Tab, Dir})  BY <1>2, <1>3 DEF RunsApart, Apart
<1>16. ASSUME NEW i \in K, NEW e \in {Sup, Tab, Dir}
       PROVE  Apart(Fil(i), e) /\ Apart(e, Fil(i))
  <2>1. e.at + e.n <= base + ds + ra /\ base + ds + ra <= Fil(i).at
    BY <1>13, <1>14
  <2>2. e.at \in Nat /\ e.n \in Nat
    <3>1. IsRun(e)  BY <1>13
    <3> QED  BY <3>1 DEF IsRun
  <2>3. Fil(i).at \in Nat
    <3>1. IsRun(Fil(i))  BY <1>14
    <3> QED  BY <3>1 DEF IsRun
  <2> QED  BY <1>2, <2>1, <2>2, <2>3 DEF Apart
<1>17. ASSUME NEW i \in K, NEW j \in K, Fil(i) # Fil(j)
       PROVE  Apart(Fil(i), Fil(j))
  <2>a. ASSUME NEW x \in K, NEW y \in K, x < y
        PROVE  Fil(x).at + Fil(x).n <= Fil(y).at
    <3>1. x <= y - 1  BY <1>10, <2>a
    <3>2. o[x] <= o[y - 1]  BY <1>6, <1>10, <3>1
    <3> QED  BY <1>11, <3>2
  <2>1. i # j  BY <1>17
  <2>2. i < j \/ j < i  BY <1>10, <2>1
  <2> QED  BY <2>a, <2>2 DEF Apart
<1>18. RunsApart(Runs(base, n, files))
  BY <1>1, <1>15, <1>16, <1>17 DEF RunsApart
<1>19. \A e \in Runs(base, n, files) :
         /\ IsRun(e) /\ base <= e.at /\ e.at + e.n <= base + n
         /\ e.what.kind \in BfsKinds
  <2>1. \A i \in K : base <= Fil(i).at  BY <1>11
  <2> QED  BY <1>1, <1>13, <1>14, <2>1
<1> QED  BY <1>18, <1>19

\* The files format-bfs gathers from a directory and its arguments.
LEMMA GatheredFiles ==
  ASSUME NEW s \in StandFiles
  PROVE  /\ Gathered(s) \in Seq(HostFile)
         /\ [i \in DOMAIN Gathered(s) |-> [name |-> Gathered(s)[i].name,
                                           data |-> Gathered(s)[i].data]]
              \in Seq(BfsFile)
<1> DEFINE n == Len(s.dir)
           S == Seq(HostFile)
           a == <<>>
           g == [k \in 1 .. n |-> [x \in S |-> IF s.dir[k].kind = "dot" THEN x
                                               ELSE Append(x, s.dir[k])]]
           F(e) == [k \in 0 .. n |-> IF k = 0 THEN a
                                     ELSE IF s.dir[k].kind = "dot" THEN e[k - 1]
                                     ELSE Append(e[k - 1], s.dir[k])]
           o == CHOOSE e : e = F(e)
<1>1. s.dir \in Seq(HostFile) /\ s.files \in Seq(HostFile)
  <2>1. s \in [dir : Seq(HostFile), files : Seq(HostFile)]  BY ArgumentsAssumption
  <2> HIDE DEF HostFile
  <2> QED  BY <2>1
<1>2. n \in Nat /\ \A k \in 1 .. n : s.dir[k] \in HostFile  BY <1>1, LenProperties
<1>3. Gathered(s) = o[n] \o s.files  BY DEF Gathered
<1>4. a \in S  OBVIOUS
<1>5. \A k \in 1 .. n, x \in S :
        /\ g[k][x] = IF s.dir[k].kind = "dot" THEN x ELSE Append(x, s.dir[k])
        /\ g[k][x] \in S
  <2> HIDE DEF HostFile
  <2> QED  BY <1>2
<1>6. g \in Steps(S, n)
  <2>1. \A k \in 1 .. n : g[k] = [x \in S |-> g[k][x]]  OBVIOUS
  <2>2. g = [k \in 1 .. n |-> g[k]]  OBVIOUS
  <2> HIDE DEF g, S
  <2>3. \A k \in 1 .. n : g[k] \in [S -> S]  BY <1>5, <2>1
  <2> QED  BY <2>2, <2>3 DEF Steps
<1> HIDE DEF n, a, g, S
<1>7. PICK f : IsStepwise(f, S, n, a, g)
  <2> HIDE DEF F, o
  <2> QED  BY <1>2, <1>4, <1>6, StepwiseExists
<1>8. f \in [0 .. n -> S] /\ f[0] = a /\ \A k \in 1 .. n : f[k] = g[k][f[k - 1]]
  BY <1>7 DEF IsStepwise
<1>9. \A k \in 1 .. n : k - 1 \in 0 .. n /\ k \in 0 .. n /\ k # 0  BY <1>2
<1>10. f = F(f)
  <2>1. DOMAIN f = 0 .. n  BY <1>8
  <2>2. ASSUME NEW k \in 0 .. n
        PROVE  f[k] = IF k = 0 THEN a ELSE IF s.dir[k].kind = "dot" THEN f[k - 1]
                                           ELSE Append(f[k - 1], s.dir[k])
    <3>1. CASE k = 0  BY <1>8, <3>1
    <3>2. CASE k # 0
      <4>1. k \in 1 .. n  BY <1>2, <3>2
      <4>2. f[k - 1] \in S /\ f[k] = g[k][f[k - 1]]  BY <1>8, <1>9, <4>1
      <4> QED  BY <1>5, <3>2, <4>1, <4>2
    <3> QED  BY <3>1, <3>2
  <2>3. /\ DOMAIN F(f) = 0 .. n
        /\ \A k \in 0 .. n :
             F(f)[k] = IF k = 0 THEN a ELSE IF s.dir[k].kind = "dot" THEN f[k - 1]
                                            ELSE Append(f[k - 1], s.dir[k])
    OBVIOUS
  <2>4. F(f) = [k \in 0 .. n |-> F(f)[k]] /\ f = [k \in 0 .. n |-> f[k]]
    BY <1>8
  <2> HIDE DEF F
  <2>5. \A k \in 0 .. n : f[k] = F(f)[k]  BY <2>2, <2>3
  <2> QED  BY <2>4, <2>5
<1>11. o = F(o)
  <2> HIDE DEF F
  <2> QED  BY <1>10
<1> HIDE DEF o
<1>12. \A k \in 0 .. n : o[k] \in S
  <2> DEFINE B == {k \in 0 .. n : o[k] \notin S}
  <2> SUFFICES ASSUME B # {}  PROVE FALSE  OBVIOUS
  <2> DEFINE m == Min(B)
  <2>1. B \subseteq Nat  BY <1>2
  <2>2. m \in B /\ \A k \in B : m <= k
    <3> HIDE DEF B
    <3> QED  BY <2>1, MinInSet
  <2> HIDE DEF m
  <2>3. m \in 0 .. n /\ o[m] \notin S  BY <2>2
  <2>4. o[m] = F(o)[m]  BY <1>11
  <2>5. m # 0  BY <1>4, <2>3, <2>4
  <2>6. m \in 1 .. n /\ m - 1 \in 0 .. n  BY <1>2, <2>3, <2>5
  <2>7. o[m - 1] \in S  BY <1>2, <2>2, <2>6
  <2>8. o[m] = IF s.dir[m].kind = "dot" THEN o[m - 1] ELSE Append(o[m - 1], s.dir[m])
    BY <2>3, <2>4, <2>5
  <2>9. o[m] = g[m][o[m - 1]]  BY <1>5, <2>6, <2>7, <2>8
  <2> QED  BY <1>5, <2>3, <2>6, <2>7, <2>9
<1>13. o[n] \in Seq(HostFile)
  <2>1. n \in 0 .. n  BY <1>2
  <2> QED  BY <1>12, <2>1 DEF S
<1>14. Gathered(s) \in Seq(HostFile)
  <2> HIDE DEF HostFile, F
  <2> QED  BY <1>1, <1>3, <1>13
<1> DEFINE t == Gathered(s)
           files == [i \in DOMAIN t |-> [name |-> t[i].name, data |-> t[i].data]]
<1>15. files \in Seq(BfsFile)
  <2>1. t \in Seq(HostFile)  BY <1>14
  <2> HIDE DEF t
  <2>2. /\ Len(t) \in Nat /\ DOMAIN t = 1 .. Len(t)
        /\ \A i \in 1 .. Len(t) : t[i] \in HostFile
    <3> HIDE DEF HostFile
    <3> QED  BY <2>1, LenProperties
  <2>3. \A i \in 1 .. Len(t) : [name |-> t[i].name, data |-> t[i].data] \in BfsFile
    BY <2>2 DEF HostFile, BfsFile
  <2>4. files = [i \in 1 .. Len(t) |-> [name |-> t[i].name, data |-> t[i].data]]
    BY <2>2
  <2> HIDE DEF BfsFile
  <2>5. files \in [1 .. Len(t) -> BfsFile]  BY <2>3, <2>4
  <2> HIDE DEF files
  <2> QED  BY <2>2, <2>5
<1> QED  BY <1>14, <1>15

----------------------------------------------------------------------------
(* The history of the slices.                                              *)

\* Formatting a slice enters it in contents, and drops none.
LEMMA WroteDomain ==
  ASSUME NEW p, NEW c
  PROVE  /\ DOMAIN Wrote(p, c) = DOMAIN contents \cup {p.index}
         /\ \A region : DOMAIN Losing(region) = DOMAIN contents
<1>1. \A region : DOMAIN Losing(region) = DOMAIN contents  BY DEF Losing
<1>2. DOMAIN Wrote(p, c) = DOMAIN contents \cup {p.index}
  BY DEF Wrote
<1> QED  BY <1>1, <1>2

----------------------------------------------------------------------------
(* The steps of the commands.                                              *)

\* create_layout's request has the types of a request.
LEMMA StandardRequestType ==
  ASSUME NEW g \in GeometryType, CylinderSize(g) > 0, NEW mode \in {"chs", "lba28"},
         NEW opts \in LayoutOptions, LayoutPossible(g, opts),
         Valid(build_slice_layout(g, mode, opts))
  PROVE  build_slice_layout(g, mode, opts) \in RequestType
<1> DEFINE u == CylinderSize(g)
           T == total_sectors(g)
           r == build_slice_layout(g, mode, opts)
           backup == Slice(0, V_BACKUP, 1, T - 1)
           root == Slice(1, LAYOUT_TAG_ROOT, root_start(g, opts), root_count(g, opts))
           swap == Slice(2, LAYOUT_TAG_SWAP, swap_start(g, opts), swap_count(g, opts))
           stand == Slice(10, LAYOUT_TAG_STAND, stand_start(g, opts), stand_count(g, opts))
<1>1. u \in Nat /\ g.cylinders \in Nat /\ T = u * g.cylinders  BY CylinderType
<1>2. T \in Nat
  <2> HIDE DEF u, T
  <2> QED  BY <1>1
<1>3. PICK a, b, c, d, e, f \in Nat :
        /\ stand_start(g, opts) = u * a /\ stand_count(g, opts) = u * b
        /\ swap_start(g, opts) = u * c /\ swap_count(g, opts) = u * d
        /\ root_start(g, opts) = u * e /\ root_count(g, opts) = u * f
  BY StandardSlices
<1>4. /\ stand_start(g, opts) \in Int /\ stand_count(g, opts) \in Int
      /\ swap_start(g, opts) \in Int /\ swap_count(g, opts) \in Int
      /\ root_start(g, opts) \in Int /\ root_count(g, opts) \in Int
  <2> HIDE DEF u
  <2> QED  BY <1>1, <1>3
<1>5. /\ r = [geometry |-> g, mode |-> mode, start |-> 1, size |-> T - 1,
              slices |-> <<backup, root, swap, stand>>]
      /\ r.size = T - 1
  <2>1. AsU32(T - 1) = T - 1  BY StandardSize
  <2> HIDE DEF backup, root, swap, stand
  <2> QED  BY <2>1 DEF build_slice_layout, backup, root, swap, stand
<1>6. r.size > 0  BY DEF Valid, validate_unix_partition
<1> HIDE DEF T, r
<1>7. backup \in SliceType /\ root \in SliceType /\ swap \in SliceType
      /\ stand \in SliceType
  BY <1>2, <1>4
     DEF SliceType, Slice, V_BACKUP, LAYOUT_TAG_ROOT, LAYOUT_TAG_SWAP, LAYOUT_TAG_STAND
<1> HIDE DEF backup, root, swap, stand
<1>8. <<backup, root, swap, stand>> \in Seq(SliceType)
  <2> HIDE DEF SliceType
  <2> QED  BY <1>7
<1>9. T - 1 \in Nat  BY <1>2, <1>5, <1>6
<1>10. r \in RequestType
  <2> DEFINE s == <<backup, root, swap, stand>>
             Q == Seq(SliceType)
  <2>1. s \in Q /\ r = [geometry |-> g, mode |-> mode, start |-> 1, size |-> T - 1,
                        slices |-> s]
    BY <1>5, <1>8
  <2>2. RequestType = [geometry : GeometryType, mode : {"chs", "lba28"}, start : Nat,
                       size : Nat, slices : Q]
    BY DEF RequestType
  <2> HIDE DEF s, Q, GeometryType
  <2> QED  BY <1>9, <2>1, <2>2
<1> QED  BY <1>10 DEF r

\* The request a create command works on.
LEMMA CreatedRequest ==
  ASSUME CreateSkeleton \/ CreateLayout
  PROVE  \E r \in RequestType : Begin(r)
<1>1. CASE CreateSkeleton
  BY <1>1, ArgumentsAssumption DEF CreateSkeleton
<1>2. CASE CreateLayout
  <2>1. PICK l \in Layouts :
          LET g == IF l.size_mb > 0
                   THEN build_geometry(l.size_mb, l.heads, l.sectors)
                   ELSE GeometryOf(l.cylinders, l.heads, l.sectors)
          IN  /\ l.size_mb > 0 =>
                   geometry_possible(l.size_mb, l.heads, l.sectors, l.mode)
              /\ LayoutPossible(g, l.opts)
              /\ Begin(build_slice_layout(g, l.mode, l.opts))
    BY <1>2 DEF CreateLayout
  <2> DEFINE g == IF l.size_mb > 0
                  THEN build_geometry(l.size_mb, l.heads, l.sectors)
                  ELSE GeometryOf(l.cylinders, l.heads, l.sectors)
             r == build_slice_layout(g, l.mode, l.opts)
  <2>2. g \in GeometryType /\ l.opts \in LayoutOptions /\ l.mode \in {"chs", "lba28"}
    BY <2>1, ResolvedGeometry, ArgumentsAssumption
  <2>3. LayoutPossible(g, l.opts) /\ Begin(r)  BY <2>1
  <2> HIDE DEF g
  <2>4. r.geometry = g /\ Valid(r)  BY <2>3 DEF build_slice_layout, Begin
  <2>5. CylinderSize(g) > 0
    BY <2>2, <2>4, CylinderType DEF Valid, validate_geometry
  <2>6. r \in RequestType  BY <2>2, <2>3, <2>4, <2>5, StandardRequestType
  <2> HIDE DEF r
  <2> QED  BY <2>3, <2>6
<1> QED  BY <1>1, <1>2

\* The file is truncated: nothing of an earlier disk is left.
LEMMA BeginStep ==
  ASSUME LabelInv, ImageInv', NarrowDisk', NEW r \in RequestType, Begin(r)
  PROVE  LabelInv'
<1>1. /\ image' = Blank(total_sectors(r.geometry)) /\ asked' = r /\ made' = FALSE
      /\ contents' = <<>> /\ pc' = "mbr" /\ Valid(r)
  BY DEF Begin, Truncated
<1>2. /\ image'.len = total_sectors(r.geometry) /\ image'.ext = {}
      /\ "len" \in DOMAIN image' /\ "ext" \in DOMAIN image'
  BY <1>1 DEF Blank
<1>3. total_sectors(r.geometry) \in Nat  BY <1>1, RequestFacts
<1>4. FileOK(image)'  BY <1>2, <1>3 DEF FileOK, RunsApart
<1>5. DOMAIN contents' = {}  BY <1>1
<1>6. Narrow(r)
  <2>1. r # NoRequest  BY DEF RequestType, NoRequest
  <2> QED  BY <1>1, <2>1 DEF NarrowDisk
<1>7. Created'
  BY <1>1, <1>2, <1>3, <1>5, <1>6 DEF Created, Idle
<1> QED  BY <1>1, <1>4, <1>7 DEF LabelInv

\* A format command: what lies before the slice is kept, and what lies behind
\* a slice too short for a UFS; a slice over the label is entered in contents.
LEMMA FormattedKeeps ==
  ASSUME LabelInv, ImageInv', Created, FileOK(image'),
         asked' = asked, pc' = pc, pc = "idle", made' = made,
         image'.len = image.len,
         NEW p \in ToSet(asked.slices), DOMAIN contents' = DOMAIN contents \cup {p.index},
         \A e \in image.ext : e.at + e.n <= p.start => e \in image'.ext,
         \A e \in image.ext :
           p.count < 30 /\ p.start + p.count <= e.at => e \in image'.ext,
         \A e \in image'.ext :
           e \in image.ext \/ e.what.kind \notin {"mbr", "label", "alts"}
  PROVE  LabelInv'
<1> DEFINE r == asked
<1>1. /\ r.start \in Nat \ {0} /\ r.start <= p.start /\ p.start \in Nat
      /\ p.count \in Nat
  BY RequestFacts DEF Created
<1>2. HasMbr(image, r) => HasMbr(image', r)
  <2> SUFFICES ASSUME HasMbr(image, r)  PROVE HasMbr(image', r)  OBVIOUS
  <2>1. PICK e \in image.ext : e.at = 0 /\ e.n = 1 /\ e.what.kind = "mbr"
                                 /\ e.what.table = build_mbr(r).table
    BY DEF HasMbr
  <2>2. e \in image'.ext  BY <1>1, <2>1
  <2> QED  BY <2>1, <2>2 DEF HasMbr
<1>3. \A e \in image'.ext : Own(e, r)  BY DEF Created, Own
<1>4. DOMAIN contents' \subseteq {q.index : q \in ToSet(r.slices)}  BY DEF Created
<1>5. LabelOverwritten => LabelOverwritten'
  BY DEF LabelOverwritten, LabelRegion, LabelSector, SliceRegion, Region, Apart
<1>6. CASE ~ Apart(SliceRegion(p), LabelRegion(r))
  <2>1. LabelOverwritten'
    BY <1>6 DEF LabelOverwritten, LabelRegion, LabelSector, SliceRegion, Region, Apart
  <2> QED  BY <1>2, <1>3, <1>4, <2>1 DEF LabelInv, Created, Idle
<1>7. CASE Apart(SliceRegion(p), LabelRegion(r))
  <2>1. p.start + p.count <= r.start + 29 \/ r.start + 34 <= p.start
    BY <1>1, <1>7 DEF Apart, SliceRegion, LabelRegion, LabelSector, Region, HDPDLOC, AltLen
  <2>2. ASSUME NEW e \in image.ext, e.at >= r.start + 29, e.at + e.n <= r.start + 34
        PROVE  e \in image'.ext
    <3>1. e.at \in Nat /\ e.n \in Nat  BY DEF LabelInv, FileOK, IsRun
    <3> QED  BY <1>1, <2>1, <2>2, <3>1
  <2>3. HasLabel(image, r) => HasLabel(image', r)
    <3> DEFINE e == Extent(LabelSector(r), 1, WithVtoc(r))
    <3>1. e.at = r.start + 29 /\ e.n = 1  BY DEF Extent, LabelSector, HDPDLOC
    <3> HIDE DEF e
    <3>2. e \in image.ext => e \in image'.ext  BY <1>1, <2>2, <3>1
    <3> QED  BY <3>2 DEF HasLabel, e
  <2>4. HasAlts(image, r) => HasAlts(image', r)
    <3> SUFFICES ASSUME HasAlts(image, r)  PROVE HasAlts(image', r)  OBVIOUS
    <3>1. PICK e \in image.ext : e.at = r.start + AltPtr /\ e.n = AltLen
                                   /\ e.what.kind = "alts"
      BY DEF HasAlts
    <3>2. e \in image'.ext  BY <1>1, <2>2, <3>1 DEF AltPtr, AltLen
    <3> QED  BY <3>1, <3>2 DEF HasAlts
  <2> QED  BY <1>2, <1>3, <1>4, <1>5, <2>3, <2>4 DEF LabelInv, Created, Idle
<1> QED  BY <1>6, <1>7

\* A step of a command on a file that is there finds a created disk.
LEMMA IdleCreated ==
  ASSUME LabelInv, pc # "none"
  PROVE  Created
  BY DEF LabelInv, NothingYet

\* format-bfs: the slice holds the new files and nothing else.
BfsWrites(p, files) ==
  /\ pc = "idle" /\ pc' = pc /\ asked' = asked /\ made' = made
  /\ p \in ToSet(asked.slices) /\ p.count > 0
  /\ files \in Seq(BfsFile) /\ ~ Refused(files, p.count)
  /\ StartOf(files, Len(files) + 1) <= p.count
  /\ FileOK(image') /\ image'.len = image.len
  /\ image'.ext = {e \in image.ext : Apart(e, SliceRegion(p))}
                    \cup Runs(p.start, p.count, files)
  /\ contents' = Wrote(p, [fs |-> "bfs", files |-> files])

\* format-bfs does this.
LEMMA FormatBfsWrites ==
  ASSUME LabelInv, FormatBfs
  PROVE  \E p, files : BfsWrites(p, files)
<1>1. PICK selector \in Selectors, s \in StandFiles :
        LET p == Selected(selector)
            files == [i \in DOMAIN Gathered(s) |->
                        [name |-> Gathered(s)[i].name, data |-> Gathered(s)[i].data]]
            out == format_bfs_slice(image, p.start, p.count, files)
        IN  /\ pc = "idle" /\ Formattable(p) /\ out.status = "done"
            /\ image' = out.img
            /\ contents' = Wrote(p, [fs |-> "bfs", files |-> files])
            /\ UNCHANGED <<pc, asked, made>>
  BY DEF FormatBfs
<1> DEFINE p == Selected(selector)
           files == [i \in DOMAIN Gathered(s) |->
                       [name |-> Gathered(s)[i].name, data |-> Gathered(s)[i].data]]
           cleared == Fill0(image, Region(p.start, p.count))
           runs == Runs(p.start, p.count, files)
           c == [fs |-> "bfs", files |-> files]
<1>2. /\ pc = "idle" /\ Formattable(p) /\ UNCHANGED <<pc, asked, made>>
      /\ format_bfs_slice(image, p.start, p.count, files).status = "done"
      /\ image' = format_bfs_slice(image, p.start, p.count, files).img
      /\ contents' = Wrote(p, c)
  BY <1>1
<1>3. files \in Seq(BfsFile)  BY GatheredFiles
<1>4. Created /\ FileOK(image)  BY <1>2, IdleCreated DEF LabelInv
<1>5. p \in ToSet(asked.slices)  BY <1>2, <1>4, SelectedSlice DEF Created
<1> HIDE DEF p, files
<1>6. p.start \in Nat /\ p.count \in Nat
      /\ p.start + p.count <= total_sectors(asked.geometry)
      /\ total_sectors(asked.geometry) \in Nat
  BY <1>4, <1>5, RequestFacts DEF Created
<1>7. ~ Refused(files, p.count) /\ image' = Put(cleared, runs)
  BY <1>2 DEF format_bfs_slice
<1>8. StartOf(files, Len(files) + 1) <= p.count
  <2>1. ~ (StartOf(files, Len(files) + 1) > p.count)  BY <1>7 DEF Refused
  <2>2. StartOf(files, Len(files) + 1) \in Nat
    <3>1. Len(files) \in Nat  BY <1>3, BfsSizes
    <3>2. Len(files) + 1 - 1 = Len(files) /\ Len(files) \in 0 .. Len(files)  BY <3>1
    <3>3. DataEnd(files)[Len(files)] \in Nat  BY <1>3, <3>2, DataEndIs
    <3> QED  BY <3>2, <3>3 DEF StartOf
  <2> QED  BY <1>6, <2>1, <2>2
<1>9. /\ RunsApart(runs)
      /\ \A e \in runs : /\ IsRun(e) /\ p.start <= e.at /\ e.at + e.n <= p.start + p.count
                         /\ e.what.kind \in BfsKinds
  BY <1>3, <1>6, <1>8, BfsRunsPlaced
<1>10. /\ FileOK(cleared) /\ cleared.len = image.len
       /\ cleared.ext = {e \in image.ext : Apart(e, SliceRegion(p))}
  BY <1>4, Fill0Fits DEF SliceRegion
<1> HIDE DEF cleared, runs
<1>11. \A e \in runs : IsRun(e) /\ e.at + e.n <= cleared.len
  <2>1. image.len \in Nat /\ p.start + p.count <= image.len
    BY <1>4, <1>6 DEF Created, FileOK
  <2> QED  BY <1>6, <1>9, <1>10, <2>1 DEF IsRun
<1>12. /\ FileOK(image') /\ image'.len = image.len
       /\ image'.ext = {e \in cleared.ext : \A f \in runs : Apart(e, f)} \cup runs
  BY <1>7, <1>9, <1>10, <1>11, PutFits
<1>13. ASSUME NEW e \in cleared.ext, NEW f \in runs  PROVE Apart(e, f)
  <2>1. e \in image.ext /\ (e.at + e.n <= p.start \/ p.start + p.count <= e.at)
    BY <1>10, <1>13 DEF Apart, SliceRegion, Region
  <2>2. e.at \in Nat /\ e.n \in Nat  BY <1>4, <2>1 DEF FileOK, IsRun
  <2> QED  BY <1>6, <1>9, <1>13, <2>1, <2>2 DEF Apart, IsRun
<1>14. image'.ext = cleared.ext \cup runs  BY <1>12, <1>13
<1>15. BfsWrites(p, files)
  BY <1>2, <1>3, <1>5, <1>7, <1>8, <1>10, <1>12, <1>14
     DEF BfsWrites, Formattable, c, runs
<1> QED  BY <1>15

\* format-bfs keeps the label unless the slice is over it.
LEMMA FormatBfsStep ==
  ASSUME LabelInv, ImageInv', FormatBfs
  PROVE  LabelInv'
<1>1. PICK p, files : BfsWrites(p, files)  BY FormatBfsWrites
<1> DEFINE runs == Runs(p.start, p.count, files)
<1>2. Created /\ FileOK(image)  BY <1>1, IdleCreated DEF LabelInv, BfsWrites
<1>3. /\ asked' = asked /\ pc' = pc /\ pc = "idle" /\ made' = made
      /\ p \in ToSet(asked.slices) /\ FileOK(image') /\ image'.len = image.len
      /\ image'.ext = {e \in image.ext : Apart(e, SliceRegion(p))} \cup runs
  BY <1>1 DEF BfsWrites
<1>4. p.start \in Nat /\ p.count \in Nat  BY <1>2, <1>3, RequestFacts DEF Created
<1>5. \A e \in runs : e.what.kind \in BfsKinds
  BY <1>1, <1>4, BfsRunsPlaced DEF BfsWrites
<1> HIDE DEF runs
<1>6. \A e \in image.ext : e.at + e.n <= p.start \/ p.start + p.count <= e.at
                             => e \in image'.ext
  BY <1>3 DEF Apart, SliceRegion, Region
<1>7. \A e \in image'.ext : e \in image.ext \/ e.what.kind \notin {"mbr", "label", "alts"}
  BY <1>3, <1>5 DEF BfsKinds
<1>8. DOMAIN contents' = DOMAIN contents \cup {p.index}
  BY <1>1, WroteDomain DEF BfsWrites
<1> QED  BY <1>2, <1>3, <1>6, <1>7, <1>8, FormattedKeeps

\* format-ufs: some of the structures of a sound layout are written, the
\* superblock among them, and all when the formatter returns.
UfsWrites(p, sb, runs, c) ==
  /\ pc = "idle" /\ pc' = pc /\ asked' = asked /\ made' = made
  /\ p \in ToSet(asked.slices) /\ p.count > 48 /\ sb.dsize = p.count
  /\ SoundLayout(sb) /\ LayoutNumbers(sb) /\ sb.kind = "ufs"
  /\ runs \subseteq UfsRuns(p.start, sb) /\ SuperblockRun(p.start, sb) \in runs
  /\ \A e \in runs : e.at + e.n <= image.len
  /\ FileOK(image') /\ image'.len = image.len
  /\ image'.ext = {e \in image.ext : \A f \in runs : Apart(e, f)} \cup runs
  /\ c.fs \in {"ufs", "broken"} /\ (c.fs = "ufs" => runs = UfsRuns(p.start, sb))
  /\ contents' = Wrote(p, c)

\* format-ufs does this.
LEMMA FormatUfsWrites ==
  ASSUME LabelInv, FormatUfs
  PROVE  \E p, sb, runs, c : UfsWrites(p, sb, runs, c)
<1>1. PICK selector \in Selectors, o \in UfsOptions :
        LET p == Selected(selector)
            g == inspect_disk_image(image).pdinfo.geometry
            opts == [block_size |-> o.block_size,
                     bytes_per_inode |-> o.bytes_per_inode,
                     tracks_per_cylinder |-> g.heads,
                     sectors_per_track |-> g.sectors_per_track]
            out == format(image, p.start, p.count, opts)
        IN  /\ pc = "idle" /\ Formattable(p) /\ out.status # "refused"
            /\ image' = out.img
            /\ contents' = Wrote(p, [fs |-> IF out.status = "done" THEN "ufs"
                                            ELSE "broken", files |-> <<>>])
            /\ UNCHANGED <<pc, asked, made>>
  BY DEF FormatUfs
<1> DEFINE p == Selected(selector)
           g == inspect_disk_image(image).pdinfo.geometry
           opts == [block_size |-> o.block_size,
                    bytes_per_inode |-> o.bytes_per_inode,
                    tracks_per_cylinder |-> g.heads,
                    sectors_per_track |-> g.sectors_per_track]
           out == format(image, p.start, p.count, opts)
           c == [fs |-> IF out.status = "done" THEN "ufs" ELSE "broken", files |-> <<>>]
           sb == Layout(p.count, opts)
<1>2. /\ pc = "idle" /\ Formattable(p) /\ UNCHANGED <<pc, asked, made>>
      /\ out.status # "refused" /\ image' = out.img /\ contents' = Wrote(p, c)
  BY <1>1
<1>3. Created /\ FileOK(image)  BY <1>2, IdleCreated DEF LabelInv
<1>4. p \in ToSet(asked.slices) /\ g = asked.geometry
  BY <1>2, <1>3, SelectedSlice DEF Created
<1>5. g \in GeometryType  BY <1>3, <1>4, RequestFacts DEF Created
<1> HIDE DEF p, g
<1>6. p.start \in Nat /\ p.count \in Nat  BY <1>3, <1>4, RequestFacts DEF Created
<1>7. opts \in FormatOptions
  BY <1>5, ArgumentsAssumption DEF FormatOptions, GeometryType
<1>8. /\ c.fs \in {"ufs", "broken"} /\ (c.fs = "ufs" => out.status = "done")
  <2> HIDE DEF out
  <2> QED  OBVIOUS
<1> HIDE DEF opts, c
<1>9. PICK runs \in SUBSET UfsRuns(p.start, sb) :
        /\ SoundLayout(sb) /\ LayoutNumbers(sb) /\ sb.dsize = p.count /\ p.count > 48
        /\ FileOK(image') /\ image'.len = image.len
        /\ image'.ext = {e \in image.ext : \A f \in runs : Apart(e, f)} \cup runs
        /\ SuperblockRun(p.start, sb) \in runs
        /\ \A e \in runs : e.at + e.n <= image.len
        /\ out.status = "done" => runs = UfsRuns(p.start, sb)
  <2>1. format(image, p.start, p.count, opts).status # "refused"  BY <1>2
  <2> QED  BY <1>2, <1>3, <1>6, <1>7, <2>1, UfsFormatted
<1>10. sb.kind = "ufs"  BY DEF Layout, SuperblockOf
<1> HIDE DEF sb, out
<1>11. UfsWrites(p, sb, runs, c)
  BY <1>2, <1>4, <1>8, <1>9, <1>10 DEF UfsWrites
<1> QED  BY <1>11

\* format-ufs keeps the label unless the slice is over it: the block of a
\* short last group may lie behind the slice, but no structure before it.
LEMMA FormatUfsStep ==
  ASSUME LabelInv, ImageInv', FormatUfs
  PROVE  LabelInv'
<1>1. PICK p, sb, runs, c : UfsWrites(p, sb, runs, c)  BY FormatUfsWrites
<1>2. Created /\ FileOK(image)  BY <1>1, IdleCreated DEF LabelInv, UfsWrites
<1>3. /\ asked' = asked /\ pc' = pc /\ pc = "idle" /\ made' = made
      /\ p \in ToSet(asked.slices) /\ FileOK(image') /\ image'.len = image.len
      /\ image'.ext = {e \in image.ext : \A f \in runs : Apart(e, f)} \cup runs
      /\ runs \subseteq UfsRuns(p.start, sb) /\ p.count > 48
  BY <1>1 DEF UfsWrites
<1>4. p.start \in Nat /\ p.count \in Nat  BY <1>2, <1>3, RequestFacts DEF Created
<1>5. \A e \in UfsRuns(p.start, sb) :
        IsRun(e) /\ p.start + 16 <= e.at /\ e.what.kind \in UfsKinds
  BY <1>1, <1>4, UfsRunsPlaced DEF UfsWrites
<1>6. ASSUME NEW e \in image.ext, e.at + e.n <= p.start
      PROVE  e \in image'.ext
  <2>1. e.at \in Nat /\ e.n \in Nat  BY <1>2 DEF FileOK, IsRun
  <2>2. \A f \in runs : Apart(e, f)
    BY <1>3, <1>4, <1>5, <1>6, <2>1 DEF Apart, IsRun
  <2> QED  BY <1>3, <2>2
<1>7. \A e \in image'.ext : e \in image.ext \/ e.what.kind \notin {"mbr", "label", "alts"}
  BY <1>3, <1>5 DEF UfsKinds
<1>8. ~ (p.count < 30)  BY <1>3, <1>4
<1>9. DOMAIN contents' = DOMAIN contents \cup {p.index}
  BY <1>1, WroteDomain DEF UfsWrites
<1> QED
  BY <1>2, <1>3, <1>6, <1>7, <1>8, <1>9, FormattedKeeps

\* A step of a create command, install-boot or the guest: what is new in the
\* file is the request's, and what later steps rely on is there.
LEMMA WriteKeeps ==
  ASSUME LabelInv, ImageInv', Created, FileOK(image'), image.len <= image'.len,
         asked' = asked, DOMAIN contents' = DOMAIN contents,
         pc' \in {"idle", "pdinfo", "vtoc", "alts"}, made' \in BOOLEAN,
         pc' = "idle" \/ ~ made',
         \A e \in image'.ext : e \in image.ext \/ Own(e, asked),
         pc' # "idle" \/ made' => HasMbr(image', asked),
         pc' = "alts" => HasLabel(image', asked),
         made' => LabelOverwritten \/ (HasLabel(image', asked) /\ HasAlts(image', asked)),
         made' => asked.start + AltPtr + AltLen <= total_sectors(asked.geometry)
  PROVE  LabelInv'
<1>1. \A e \in image'.ext : Own(e, asked)  BY DEF Created
<1>2. LabelOverwritten => LabelOverwritten'
  BY DEF LabelOverwritten, LabelRegion, LabelSector, SliceRegion, Region, Apart
<1>3. total_sectors(asked.geometry) <= image'.len
  <2>1. total_sectors(asked.geometry) \in Nat  BY RequestFacts DEF Created
  <2>2. total_sectors(asked.geometry) <= image.len  BY DEF Created
  <2>3. image.len \in Nat /\ image'.len \in Nat  BY DEF LabelInv, FileOK
  <2> QED  BY <2>1, <2>2, <2>3
<1>4. pc' \in {"pdinfo", "vtoc", "alts"} \/ made' => HasMbr(image', asked)  OBVIOUS
<1>5. Created'
  BY <1>1, <1>2, <1>3, <1>4 DEF Created, Idle
<1> QED  BY <1>5 DEF LabelInv

\* What a step that may extend the file leaves: the MBR unless sector 0 is
\* written, and the label and alternates unless their sectors are.
LEMMA PutKeeps ==
  ASSUME NEW img, NEW img2, FileOK(img), NEW r, r.start \in Nat \ {0}, NEW runs,
         \A e \in runs : IsRun(e),
         \A e \in img.ext : (\A f \in runs : Apart(e, f)) => e \in img2.ext
  PROVE  /\ HasMbr(img, r) /\ (\A f \in runs : 1 <= f.at) => HasMbr(img2, r)
         /\ HasLabel(img, r)
              /\ (\A f \in runs : f.at + f.n <= r.start + 29 \/ r.start + 30 <= f.at)
              => HasLabel(img2, r)
         /\ HasAlts(img, r)
              /\ (\A f \in runs : f.at + f.n <= r.start + 30 \/ r.start + 34 <= f.at)
              => HasAlts(img2, r)
<1>1. ASSUME HasMbr(img, r), \A f \in runs : 1 <= f.at  PROVE HasMbr(img2, r)
  <2>1. PICK e \in img.ext : e.at = 0 /\ e.n = 1 /\ e.what.kind = "mbr"
                               /\ e.what.table = build_mbr(r).table
    BY <1>1 DEF HasMbr
  <2>2. \A f \in runs : Apart(e, f)  BY <1>1, <2>1 DEF Apart
  <2> QED  BY <2>1, <2>2 DEF HasMbr
<1>2. ASSUME HasLabel(img, r),
             \A f \in runs : f.at + f.n <= r.start + 29 \/ r.start + 30 <= f.at
      PROVE  HasLabel(img2, r)
  <2> DEFINE e == Extent(LabelSector(r), 1, WithVtoc(r))
  <2>1. e.at = r.start + 29 /\ e.n = 1  BY DEF Extent, LabelSector, HDPDLOC
  <2>2. e \in img.ext  BY <1>2 DEF HasLabel
  <2> HIDE DEF e
  <2>3. \A f \in runs : Apart(e, f)  BY <1>2, <2>1 DEF Apart
  <2>4. e \in img2.ext  BY <2>2, <2>3
  <2> QED  BY <2>4 DEF HasLabel, e
<1>3. ASSUME HasAlts(img, r),
             \A f \in runs : f.at + f.n <= r.start + 30 \/ r.start + 34 <= f.at
      PROVE  HasAlts(img2, r)
  <2>1. PICK e \in img.ext : e.at = r.start + AltPtr /\ e.n = AltLen
                               /\ e.what.kind = "alts"
    BY <1>3 DEF HasAlts
  <2>2. \A f \in runs : Apart(e, f)  BY <1>3, <2>1 DEF Apart, AltPtr, AltLen
  <2> QED  BY <2>1, <2>2 DEF HasAlts
<1> QED  BY <1>1, <1>2, <1>3

\* The MBR is written, or the request refused.
LEMMA WriteMbrStep ==
  ASSUME LabelInv, ImageInv', WriteMbr
  PROVE  LabelInv'
<1> DEFINE e == Extent(0, 1, build_mbr(asked))
<1>1. /\ Created /\ FileOK(image) /\ made' = FALSE /\ asked' = asked
      /\ DOMAIN contents' = DOMAIN contents
  BY IdleCreated DEF LabelInv, WriteMbr, Created, Idle
<1>2. CASE ~ MbrPossible(asked)
  <2>1. image' = image /\ pc' = "idle"  BY <1>2 DEF WriteMbr
  <2>2. image.len \in Nat  BY <1>1 DEF FileOK
  <2>3. image.len <= image'.len  BY <2>1, <2>2
  <2> QED  BY <1>1, <2>1, <2>3, WriteKeeps
<1>3. CASE MbrPossible(asked)
  <2>1. image' = Put(image, {e}) /\ pc' = "pdinfo"  BY <1>3 DEF WriteMbr
  <2>2. /\ e.at = 0 /\ e.n = 1 /\ e.what = build_mbr(asked)  BY DEF Extent
  <2>3. /\ build_mbr(asked)
             = [kind |-> "mbr", code |-> "none", table |-> build_mbr(asked).table]
        /\ build_mbr(asked).kind = "mbr"
    BY DEF build_mbr
  <2> HIDE DEF e
  <2>4. IsRun(e) /\ Own(e, asked)  BY <2>2, <2>3 DEF IsRun, Own
  <2>5. /\ FileOK(image') /\ image.len <= image'.len
        /\ image'.ext = {f \in image.ext : Apart(f, e)} \cup {e}
    BY <1>1, <2>1, <2>4, PutGrows
  <2>6. HasMbr(image', asked)  BY <2>2, <2>3, <2>5 DEF HasMbr
  <2>7. \A f \in image'.ext : f \in image.ext \/ Own(f, asked)  BY <2>4, <2>5
  <2> QED  BY <1>1, <2>1, <2>5, <2>6, <2>7, WriteKeeps
<1> QED  BY <1>2, <1>3

\* The pdinfo is written, past the end of the file if need be.
LEMMA WritePdinfoStep ==
  ASSUME LabelInv, ImageInv', WritePdinfo
  PROVE  LabelInv'
<1> DEFINE e == Extent(LabelSector(asked), 1, build_pdinfo(asked))
<1>1. /\ Created /\ FileOK(image) /\ made' = FALSE /\ asked' = asked
      /\ DOMAIN contents' = DOMAIN contents /\ HasMbr(image, asked)
  BY IdleCreated DEF LabelInv, WritePdinfo, Created, Idle
<1>2. asked.start \in Nat \ {0}  BY <1>1, RequestFacts DEF Created
<1>3. image' = Put(image, {e}) /\ pc' = "vtoc"  BY DEF WritePdinfo
<1>4. /\ e.at = LabelSector(asked) /\ e.at = asked.start + 29 /\ e.n = 1
      /\ e.what = build_pdinfo(asked)
  BY DEF Extent, LabelSector, HDPDLOC
<1>5. build_pdinfo(asked).kind = "label"  BY DEF build_pdinfo
<1> HIDE DEF e
<1>6. IsRun(e) /\ Own(e, asked)  BY <1>2, <1>4, <1>5 DEF IsRun, Own
<1>7. /\ FileOK(image') /\ image.len <= image'.len
      /\ image'.ext = {f \in image.ext : Apart(f, e)} \cup {e}
  BY <1>1, <1>3, <1>6, PutGrows
<1>8. HasMbr(image', asked)
  <2> DEFINE runs == {e}
  <2>1. \A f \in runs : IsRun(f) /\ 1 <= f.at  BY <1>2, <1>4, <1>6
  <2>2. \A f \in image.ext : (\A g \in runs : Apart(f, g)) => f \in image'.ext  BY <1>7
  <2> HIDE DEF runs
  <2> QED  BY <1>1, <1>2, <2>1, <2>2, PutKeeps
<1>9. \A f \in image'.ext : f \in image.ext \/ Own(f, asked)  BY <1>6, <1>7
<1> QED  BY <1>1, <1>3, <1>7, <1>8, <1>9, WriteKeeps

\* The VTOC is written into the pdinfo sector and clears the one after it.
LEMMA WriteVtocStep ==
  ASSUME LabelInv, ImageInv', WriteVtoc
  PROVE  LabelInv'
<1> DEFINE e == Extent(LabelSector(asked), 1, WithVtoc(asked))
           region == Region(LabelSector(asked) + 1, 1)
           cleared == Fill0(image, region)
<1>1. /\ Created /\ FileOK(image) /\ made' = FALSE /\ asked' = asked
      /\ DOMAIN contents' = DOMAIN contents /\ HasMbr(image, asked)
  BY IdleCreated DEF LabelInv, WriteVtoc, Created, Idle
<1>2. asked.start \in Nat \ {0}  BY <1>1, RequestFacts DEF Created
<1>3. CASE image' = image /\ pc' = "idle"
  <2>1. image.len \in Nat  BY <1>1 DEF FileOK
  <2>2. image.len <= image'.len  BY <1>3, <2>1
  <2> QED  BY <1>1, <1>3, <2>2, WriteKeeps
<1>4. CASE pc' = "alts" /\ image' = Put(cleared, {e})
  <2>1. /\ e.at = LabelSector(asked) /\ e.at = asked.start + 29 /\ e.n = 1
        /\ e.what = WithVtoc(asked)
    BY DEF Extent, LabelSector, HDPDLOC
  <2>2. WithVtoc(asked).kind = "label"  BY DEF WithVtoc, build_pdinfo
  <2>3. region.at = asked.start + 30 /\ region.n = 1
    BY <1>2 DEF Region, LabelSector, HDPDLOC
  <2>4. /\ FileOK(cleared) /\ cleared.len = image.len
        /\ cleared.ext = {f \in image.ext : Apart(f, region)}
    BY <1>1, Fill0Fits
  <2> HIDE DEF e, region, cleared
  <2>5. IsRun(e) /\ Own(e, asked)  BY <1>2, <2>1, <2>2 DEF IsRun, Own
  <2>6. /\ FileOK(image') /\ image.len <= image'.len
        /\ image'.ext = {f \in cleared.ext : Apart(f, e)} \cup {e}
    BY <1>4, <2>4, <2>5, PutGrows
  <2>7. HasMbr(image', asked)
    <3> DEFINE runs == {e, region}
    <3>1. \A f \in runs : IsRun(f) /\ 1 <= f.at  BY <1>2, <2>1, <2>3 DEF IsRun
    <3>2. \A f \in image.ext : (\A g \in runs : Apart(f, g)) => f \in image'.ext
      BY <2>4, <2>6
    <3> HIDE DEF runs
    <3> QED  BY <1>1, <1>2, <3>1, <3>2, PutKeeps
  <2>8. HasLabel(image', asked)  BY <2>6 DEF HasLabel, e
  <2>9. \A f \in image'.ext : f \in image.ext \/ Own(f, asked)  BY <2>4, <2>5, <2>6
  <2> QED  BY <1>1, <1>4, <2>6, <2>7, <2>8, <2>9, WriteKeeps
<1> QED  BY <1>3, <1>4 DEF WriteVtoc

\* The empty alternates are written, or found not to fit: the command ends.
LEMMA WriteAlternatesStep ==
  ASSUME LabelInv, ImageInv', WriteAlternates
  PROVE  LabelInv'
<1> DEFINE e == Extent(asked.start + AltPtr, AltLen, build_empty_alt_info)
<1>1. /\ Created /\ FileOK(image) /\ made = FALSE /\ asked' = asked /\ pc' = "idle"
      /\ DOMAIN contents' = DOMAIN contents /\ HasMbr(image, asked)
      /\ HasLabel(image, asked)
  BY IdleCreated DEF LabelInv, WriteAlternates, Created, Idle
<1>2. asked.start \in Nat \ {0}  BY <1>1, RequestFacts DEF Created
<1>3. CASE image' = image /\ made' = made
  <2>1. image.len \in Nat  BY <1>1 DEF FileOK
  <2>2. image.len <= image'.len  BY <1>3, <2>1
  <2>3. made' = FALSE  BY <1>1, <1>3
  <2>4. FileOK(image')  BY <1>1, <1>3
  <2>5. \A f \in image'.ext : f \in image.ext \/ Own(f, asked)  BY <1>3
  <2> QED  BY <1>1, <2>2, <2>3, <2>4, <2>5, WriteKeeps
<1>4. CASE image' = Put(image, {e}) /\ made' = TRUE
  <2>1. e.at = asked.start + 30 /\ e.n = 4 /\ e.what.kind = "alts"
    BY DEF Extent, AltPtr, AltLen, build_empty_alt_info
  <2> HIDE DEF e
  <2>2. IsRun(e) /\ Own(e, asked)  BY <1>2, <2>1 DEF IsRun, Own, AltPtr, AltLen
  <2>3. /\ FileOK(image') /\ image.len <= image'.len
        /\ image'.ext = {f \in image.ext : Apart(f, e)} \cup {e}
    BY <1>1, <1>4, <2>2, PutGrows
  <2>4. HasMbr(image', asked) /\ HasLabel(image', asked)
    <3> DEFINE runs == {e}
    <3>1. \A f \in runs : IsRun(f) /\ 1 <= f.at /\ asked.start + 30 <= f.at
      BY <1>2, <2>1, <2>2
    <3>2. \A f \in image.ext : (\A g \in runs : Apart(f, g)) => f \in image'.ext
      BY <2>3
    <3> HIDE DEF runs
    <3> QED  BY <1>1, <1>2, <3>1, <3>2, PutKeeps
  <2>5. HasAlts(image', asked)  BY <2>1, <2>3 DEF HasAlts, AltPtr, AltLen
  <2>6. \A f \in image'.ext : f \in image.ext \/ Own(f, asked)  BY <2>2, <2>3
  <2>7. asked.start + AltPtr + AltLen <= total_sectors(asked.geometry)
    <3>1. ~ (asked.start + AltPtr + AltLen > total_sectors(asked.geometry))
      BY <1>1, <1>4 DEF WriteAlternates
    <3>2. total_sectors(asked.geometry) \in Nat  BY <1>1, RequestFacts DEF Created
    <3> QED  BY <1>2, <3>1, <3>2 DEF AltPtr, AltLen
  <2> QED  BY <1>1, <1>4, <2>3, <2>4, <2>5, <2>6, <2>7, WriteKeeps
<1> QED  BY <1>3, <1>4 DEF WriteAlternates

\* The command is killed between two writes: it has not ended.
LEMMA KilledStep ==
  ASSUME LabelInv, ImageInv', Killed
  PROVE  LabelInv'
<1>1. /\ Created /\ FileOK(image) /\ made' = FALSE /\ asked' = asked /\ pc' = "idle"
      /\ contents' = contents /\ image' = image
  BY IdleCreated DEF LabelInv, Killed, Created, Idle
<1>2. image.len \in Nat  BY <1>1 DEF FileOK
<1>3. image.len <= image'.len  BY <1>1, <1>2
<1>4. FileOK(image') /\ DOMAIN contents' = DOMAIN contents  BY <1>1
<1>5. \A f \in image'.ext : f \in image.ext \/ Own(f, asked)  BY <1>1
<1> QED  BY <1>1, <1>3, <1>4, <1>5, WriteKeeps

\* install-boot: the MBR keeps its table, and the bootstrap ends before the
\* label.
BootWrites(mbr, runs) ==
  /\ pc = "idle" /\ pc' = pc /\ asked' = asked /\ made' = made
  /\ mbr \in runs /\ mbr.at = 0 /\ mbr.n = 1
  /\ mbr.what = [WhatAt(image, 0) EXCEPT !.code = "chainloader"]
  /\ mbr.what = [kind |-> "mbr", code |-> "chainloader", table |-> build_mbr(asked).table]
  /\ \A e \in runs : /\ IsRun(e) /\ e.at \in {0, asked.start}
                     /\ e.at + e.n <= asked.start + 29
                     /\ e = mbr \/ e.what.kind = "hdboot"
  /\ FileOK(image') /\ image'.len = image.len
  /\ image'.ext = {e \in image.ext : \A f \in runs : Apart(e, f)} \cup runs
  /\ contents' = Losing(BootArea(asked.start))

\* install-boot does this.
LEMMA InstallBootWrites ==
  ASSUME LabelInv, InstallBoot
  PROVE  \E mbr, runs : BootWrites(mbr, runs)
<1> DEFINE report == inspect_disk_image(image)
           area == BootArea(report.active.start)
           mbr == Extent(0, 1, [WhatAt(image, 0) EXCEPT !.code = "chainloader"])
           boot == Extent(area.at, area.n, [kind |-> "hdboot"])
           runs == {mbr} \cup IF area.at + area.n > image.len THEN {} ELSE {boot}
<1>1. /\ pc = "idle" /\ report.status = "ok" /\ report.active.type # 0
      /\ image' = Put(image, runs) /\ contents' = Losing(area)
      /\ UNCHANGED <<pc, asked, made>>
  BY DEF InstallBoot
<1>2. Created /\ FileOK(image)  BY <1>1, IdleCreated DEF LabelInv
<1>3. /\ asked.start \in Nat \ {0} /\ asked.size \in Nat \ {0}
      /\ asked.start + asked.size <= total_sectors(asked.geometry)
      /\ total_sectors(asked.geometry) \in Nat
  BY <1>2, RequestFacts DEF Created
<1>4. HasMbr(image, asked)
  <2> SUFFICES ASSUME ~ HasMbr(image, asked)  PROVE FALSE  OBVIOUS
  <2>1. report = Report("ok", EmptyPartition, NoPdInfo)
    BY <1>2, InspectedNothing DEF Created
  <2>2. report.active.type = 0  BY <2>1 DEF Report, EmptyPartition
  <2> QED  BY <1>1, <2>2
<1>5. report.active = Partition(asked)
  <2>1. \A e \in image.ext : Own(e, asked)  BY <1>2 DEF Created
  <2>2. report.status = "ok" => report.active = Partition(asked)
    BY <1>2, <1>4, <2>1, InspectedMbr
  <2> QED  BY <1>1, <2>2
<1>6. WhatAt(image, 0).kind = "mbr"
  <2>1. \A e \in image.ext : Own(e, asked)  BY <1>2 DEF Created
  <2> QED  BY <1>2, <1>4, <2>1, InspectedMbr
<1> HIDE DEF report
<1>7. area.at = asked.start /\ area.n = 29 /\ area = BootArea(asked.start)
  BY <1>5 DEF BootArea, Region, HDPDLOC, Partition
<1>8. PICK c : WhatAt(image, 0) = [kind |-> "mbr", code |-> c,
                                   table |-> build_mbr(asked).table]
  <2>1. PICK e \in image.ext : e.at = 0 /\ e.what = WhatAt(image, 0)
    BY <1>6, ReadFrom
  <2>2. Own(e, asked)  BY <1>2 DEF Created
  <2> QED  BY <1>6, <2>1, <2>2 DEF Own
<1>9. /\ mbr.at = 0 /\ mbr.n = 1
      /\ mbr.what = [WhatAt(image, 0) EXCEPT !.code = "chainloader"]
      /\ mbr.what = [kind |-> "mbr", code |-> "chainloader",
                     table |-> build_mbr(asked).table]
  BY <1>8 DEF Extent
<1>10. boot.at = asked.start /\ boot.n = 29 /\ boot.what.kind = "hdboot"
  BY <1>7 DEF Extent
<1> HIDE DEF mbr, boot, area
<1>11. mbr \in runs /\ runs \subseteq {mbr, boot}
       /\ (boot \in runs => boot = mbr \/ boot.at + boot.n <= image.len)
  <2>1. image.len \in Nat  BY <1>2 DEF FileOK
  <2> QED  BY <1>3, <1>7, <1>10, <2>1
<1>12. mbr.at + mbr.n <= image.len
  <2>1. image.len \in Nat /\ total_sectors(asked.geometry) <= image.len
    BY <1>2 DEF Created, FileOK
  <2> QED  BY <1>3, <1>9, <2>1
<1> HIDE DEF runs
<1>13. IsRun(mbr) /\ IsRun(boot) /\ Apart(mbr, boot) /\ Apart(boot, mbr)
  BY <1>3, <1>9, <1>10 DEF IsRun, Apart
<1>14. \A e \in runs : IsRun(e) /\ e.at + e.n <= image.len
  BY <1>11, <1>12, <1>13
<1>15. RunsApart(runs)  BY <1>11, <1>13 DEF RunsApart
<1>16. /\ FileOK(image') /\ image'.len = image.len
       /\ image'.ext = {e \in image.ext : \A f \in runs : Apart(e, f)} \cup runs
  BY <1>1, <1>2, <1>14, <1>15, PutFits
<1>17. \A e \in runs : /\ IsRun(e) /\ e.at \in {0, asked.start}
                       /\ e.at + e.n <= asked.start + 29
                       /\ e = mbr \/ e.what.kind = "hdboot"
  BY <1>3, <1>9, <1>10, <1>11, <1>13
<1>18. BootWrites(mbr, runs)
  BY <1>1, <1>7, <1>9, <1>11, <1>16, <1>17 DEF BootWrites
<1> QED  BY <1>18

\* install-boot keeps the label.
LEMMA InstallBootStep ==
  ASSUME LabelInv, ImageInv', InstallBoot
  PROVE  LabelInv'
<1>1. PICK mbr, runs : BootWrites(mbr, runs)  BY InstallBootWrites
<1>2. Created /\ FileOK(image) /\ made \in BOOLEAN
  BY <1>1, IdleCreated DEF LabelInv, BootWrites
<1>3. asked.start \in Nat \ {0}  BY <1>2, RequestFacts DEF Created
<1>4. /\ FileOK(image') /\ image'.len = image.len
      /\ image'.ext = {e \in image.ext : \A f \in runs : Apart(e, f)} \cup runs
      /\ mbr \in runs /\ mbr.at = 0 /\ mbr.n = 1
      /\ mbr.what = [kind |-> "mbr", code |-> "chainloader",
                     table |-> build_mbr(asked).table]
      /\ \A e \in runs : /\ IsRun(e) /\ e.at + e.n <= asked.start + 29
                         /\ e = mbr \/ e.what.kind = "hdboot"
      /\ contents' = Losing(BootArea(asked.start))
      /\ asked' = asked /\ pc' = "idle" /\ made' = made
  BY <1>1 DEF BootWrites
<1>5. image.len <= image'.len  BY <1>2, <1>4 DEF FileOK
<1>6. mbr.what.kind = "mbr" /\ mbr.what.table = build_mbr(asked).table  BY <1>4
<1>7. HasMbr(image', asked)  BY <1>4, <1>6 DEF HasMbr
<1>8. /\ HasLabel(image, asked) => HasLabel(image', asked)
      /\ HasAlts(image, asked) => HasAlts(image', asked)
  <2>1. \A e \in runs : /\ e.at + e.n <= asked.start + 29
                        /\ e.at + e.n <= asked.start + 30
    BY <1>3, <1>4 DEF IsRun
  <2>2. \A e \in runs : IsRun(e)  BY <1>4
  <2>3. \A e \in image.ext : (\A f \in runs : Apart(e, f)) => e \in image'.ext
    BY <1>4
  <2> QED  BY <1>2, <1>3, <2>1, <2>2, <2>3, PutKeeps
<1>9. \A e \in image'.ext : e \in image.ext \/ Own(e, asked)
  <2>1. Own(mbr, asked)  BY <1>4, <1>6 DEF Own
  <2>2. \A e : e.what.kind = "hdboot" => Own(e, asked)  BY DEF Own
  <2> QED  BY <1>4, <2>1, <2>2
<1>10. DOMAIN contents' = DOMAIN contents  BY <1>4 DEF Losing
<1>11. made' \in BOOLEAN  BY <1>2, <1>4
<1>12. made' =>
         /\ LabelOverwritten \/ (HasLabel(image', asked) /\ HasAlts(image', asked))
         /\ asked.start + AltPtr + AltLen <= total_sectors(asked.geometry)
  BY <1>2, <1>4, <1>8 DEF Created
<1> QED
  BY <1>2, <1>4, <1>5, <1>7, <1>9, <1>10, <1>11, <1>12, WriteKeeps

\* The guest marks blocks bad: the alternates replace what was there.
BadWrites(e) ==
  /\ pc = "idle" /\ pc' = pc /\ asked' = asked /\ made' = made /\ contents' = contents
  /\ made
  /\ e.at = asked.start + AltPtr /\ e.n = AltLen /\ e.what.kind = "alts"
  /\ \E b \in BadBlocks : asked = b.disk /\ e.what = b.alts
  /\ \E f \in image.ext : f.at = e.at /\ f.n = e.n /\ f.what.kind = "alts"
  /\ FileOK(image') /\ image'.len = image.len
  /\ image'.ext = {f \in image.ext : Apart(f, e)} \cup {e}

\* MarkBad does this.
LEMMA MarkBadWrites ==
  ASSUME LabelInv, MarkBad
  PROVE  \E e : BadWrites(e)
<1>1. PICK b \in BadBlocks :
        /\ pc = "idle" /\ made /\ asked = b.disk
        /\ WhatAt(image, asked.start + AltPtr) = build_empty_alt_info
        /\ image' = Put(image, {Extent(asked.start + AltPtr, AltLen, b.alts)})
        /\ UNCHANGED <<pc, asked, made, contents>>
  BY DEF MarkBad
<1> DEFINE e == Extent(asked.start + AltPtr, AltLen, b.alts)
           runs == {e}
<1>2. Created /\ FileOK(image)  BY <1>1, IdleCreated DEF LabelInv
<1>3. asked.start \in Nat \ {0} /\ total_sectors(asked.geometry) \in Nat
  BY <1>2, RequestFacts DEF Created
<1>4. e.at = asked.start + AltPtr /\ e.n = AltLen /\ e.what.kind = "alts"
      /\ e.what = b.alts
  BY AlternatesAssumption DEF AlternatesOwn, Extent
<1>5. image' = Put(image, runs)  BY <1>1
<1> HIDE DEF e
<1>6. IsRun(e)  BY <1>3, <1>4 DEF IsRun, AltPtr, AltLen
<1>7. e.at + e.n <= image.len
  <2>1. image.len \in Nat /\ total_sectors(asked.geometry) <= image.len
    BY <1>2 DEF Created, FileOK
  <2>2. asked.start + AltPtr + AltLen <= total_sectors(asked.geometry)
    BY <1>1, <1>2 DEF Created
  <2> QED  BY <1>3, <1>4, <2>1, <2>2 DEF AltPtr, AltLen
<1>8. /\ RunsApart(runs) /\ \A f \in runs : IsRun(f) /\ f.at + f.n <= image.len
  BY <1>6, <1>7 DEF RunsApart
<1>9. /\ FileOK(image') /\ image'.len = image.len
      /\ image'.ext = {f \in image.ext : \A g \in runs : Apart(f, g)} \cup runs
  <2> HIDE DEF runs
  <2> QED  BY <1>2, <1>5, <1>8, PutFits
<1>10. \E f \in image.ext : f.at = e.at /\ f.n = e.n /\ f.what.kind = "alts"
  <2>1. WhatAt(image, asked.start + AltPtr).kind = "alts"
    BY <1>1 DEF build_empty_alt_info
  <2>2. PICK f \in image.ext : f.at = asked.start + AltPtr /\ f.what.kind = "alts"
    BY <2>1, ReadFrom
  <2>3. Own(f, asked)  BY <1>2 DEF Created
  <2> QED  BY <1>4, <2>2, <2>3 DEF Own
<1>11. image'.ext = {f \in image.ext : Apart(f, e)} \cup {e}  BY <1>9
<1>12. BadWrites(e)  BY <1>1, <1>4, <1>9, <1>10, <1>11 DEF BadWrites
<1> QED  BY <1>12

\* The guest's bad blocks leave the label.
LEMMA MarkBadStep ==
  ASSUME LabelInv, ImageInv', MarkBad
  PROVE  LabelInv'
<1>1. PICK e : BadWrites(e)  BY MarkBadWrites
<1>2. Created /\ FileOK(image) /\ made \in BOOLEAN
  BY <1>1, IdleCreated DEF LabelInv, BadWrites
<1>3. asked.start \in Nat \ {0}  BY <1>2, RequestFacts DEF Created
<1>4. /\ made /\ FileOK(image') /\ image'.len = image.len
      /\ image'.ext = {f \in image.ext : Apart(f, e)} \cup {e}
      /\ e.at = asked.start + 30 /\ e.n = 4 /\ e.what.kind = "alts"
      /\ asked' = asked /\ pc' = "idle" /\ made' = made
      /\ DOMAIN contents' = DOMAIN contents
  BY <1>1 DEF BadWrites, AltPtr, AltLen
<1>5. HasMbr(image, asked)  BY <1>2, <1>4 DEF Created
<1>6. IsRun(e) /\ Own(e, asked)  BY <1>3, <1>4 DEF IsRun, Own, AltPtr, AltLen
<1>7. image.len <= image'.len  BY <1>2, <1>4 DEF FileOK
<1>8. HasMbr(image', asked) /\ (HasLabel(image, asked) => HasLabel(image', asked))
  <2> DEFINE runs == {e}
  <2>1. \A f \in runs : IsRun(f) /\ 1 <= f.at /\ asked.start + 30 <= f.at
    BY <1>3, <1>4, <1>6
  <2>2. \A f \in image.ext : (\A g \in runs : Apart(f, g)) => f \in image'.ext
    BY <1>4
  <2> HIDE DEF runs
  <2> QED  BY <1>2, <1>3, <1>5, <2>1, <2>2, PutKeeps
<1>9. HasAlts(image', asked)  BY <1>4 DEF HasAlts, AltPtr, AltLen
<1>10. \A f \in image'.ext : f \in image.ext \/ Own(f, asked)  BY <1>4, <1>6
<1>11. made' \in BOOLEAN  BY <1>2, <1>4
<1>12. made' =>
         /\ LabelOverwritten \/ (HasLabel(image', asked) /\ HasAlts(image', asked))
         /\ asked.start + AltPtr + AltLen <= total_sectors(asked.geometry)
  BY <1>2, <1>4, <1>8, <1>9 DEF Created
<1> QED
  BY <1>2, <1>4, <1>7, <1>8, <1>10, <1>11, <1>12, WriteKeeps

\* The invariant holds of no file at all.
LEMMA LabelStart == Init => LabelInv
<1> SUFFICES ASSUME Init  PROVE LabelInv  OBVIOUS
<1>1. ImageInv  BY DEF Init, ImageInv, Idle, ImageOK, RunsOK, Blank
<1>2. image = Blank(0) /\ pc = "none" /\ made = FALSE  BY DEF Init
<1>3. FileOK(image)  BY <1>2 DEF FileOK, Blank, RunsApart
<1>4. NothingYet  BY DEF Init, NothingYet
<1> QED  BY <1>1, <1>2, <1>3, <1>4 DEF LabelInv

\* Every step keeps it.
LEMMA LabelStep == LabelInv /\ NarrowDisk' /\ [Next]_vars => LabelInv'
<1> SUFFICES ASSUME LabelInv, NarrowDisk', [Next]_vars  PROVE LabelInv'  OBVIOUS
<1>1. ImageInv'  BY ImageStep DEF LabelInv
<1>2. CASE CreateSkeleton \/ CreateLayout
  <2>1. PICK r \in RequestType : Begin(r)  BY <1>2, CreatedRequest
  <2> QED  BY <1>1, <2>1, BeginStep
<1>3. CASE WriteMbr  BY <1>1, <1>3, WriteMbrStep
<1>4. CASE WritePdinfo  BY <1>1, <1>4, WritePdinfoStep
<1>5. CASE WriteVtoc  BY <1>1, <1>5, WriteVtocStep
<1>6. CASE WriteAlternates  BY <1>1, <1>6, WriteAlternatesStep
<1>7. CASE Killed  BY <1>1, <1>7, KilledStep
<1>8. CASE FormatBfs  BY <1>1, <1>8, FormatBfsStep
<1>9. CASE FormatUfs  BY <1>1, <1>9, FormatUfsStep
<1>10. CASE InstallBoot  BY <1>1, <1>10, InstallBootStep
<1>11. CASE MarkBad  BY <1>1, <1>11, MarkBadStep
<1>12. CASE UNCHANGED vars
  BY <1>1, <1>12 DEF vars, LabelInv, NothingYet, Created, Idle, LabelOverwritten
<1> QED
  BY <1>2, <1>3, <1>4, <1>5, <1>6, <1>7, <1>8, <1>9, <1>10, <1>11, <1>12 DEF Next

----------------------------------------------------------------------------
(* The CHS fields of the partition table.                                  *)

\* decode_chs undoes encode_chs below cylinder 1024: the two high bits of the
\* cylinder share a byte with the sector, which counts from 1.
LEMMA ChsRoundTrip ==
  ASSUME NEW g \in GeometryType, g.heads \in 1 .. 16, g.sectors_per_track \in 1 .. 63,
         NEW x \in Nat, x < 1024 * CylinderSize(g)
  PROVE  ChsToLba(decode_chs(ChsBytes(x, g)), g) = x
<1> DEFINE s == g.sectors_per_track
           u == CylinderSize(g)
           cyl == x \div u
           temp == x % u
           h == temp \div s
           sec == temp % s
           high == cyl \div 256
           raw == ChsBytes(x, g)
<1>1. s \in 1 .. 63 /\ g.heads \in 1 .. 16 /\ u = s * g.heads
  BY DEF CylinderSize
<1>2. u \in Nat \ {0}
  <2>1. s \in Nat \ {0} /\ g.heads \in Nat \ {0}  BY <1>1
  <2> HIDE DEF s, u
  <2> QED  BY <1>1, <2>1
<1>3. raw = <<h % 256, ((sec + 1) % 64) + 64 * (high % 4), cyl % 256>>
  BY DEF ChsBytes
<1>4. ChsToLba(decode_chs(raw), g)
        = ((raw[2] \div 64) * 256 + raw[3]) * u + raw[1] * s + (raw[2] % 64) - 1
  BY DEF ChsToLba, decode_chs
<1> HIDE DEF s, u, raw
<1>5. cyl \in Int /\ temp \in 0 .. u - 1 /\ x = u * cyl + temp
  <2>1. x \in Int  OBVIOUS
  <2> QED  BY <1>2, <2>1, DivMod
<1> HIDE DEF cyl, temp
<1>6. cyl \in 0 .. 1023
  <2>1. u * cyl <= x /\ x < u * 1024 /\ u * cyl < u * 1024
    <3> DEFINE y == u * cyl   z == u * 1024
    <3>1. y \in Int /\ z \in Int /\ x = y + temp /\ x < z  BY <1>2, <1>5 DEF u
    <3> HIDE DEF y, z
    <3>2. y <= x /\ x < z /\ y < z  BY <1>2, <1>5, <3>1
    <3> QED  BY <3>2 DEF y, z
  <2>2. cyl < 1024  BY <1>2, <1>5, <2>1, MulCancel
  <2>3. cyl >= 0
    <3> SUFFICES ASSUME cyl < 0  PROVE FALSE  BY <1>5
    <3>1. u * cyl + u <= u * 0  BY <1>2, <1>5, MulMono
    <3> DEFINE y == u * cyl
    <3>2. y \in Int /\ y + u <= 0 /\ x = y + temp  BY <1>2, <1>5, <3>1
    <3> HIDE DEF y
    <3> QED  BY <1>2, <1>5, <3>2
  <2> QED  BY <1>5, <2>2, <2>3
<1>7. h \in Int /\ sec \in 0 .. s - 1 /\ temp = s * h + sec
  <2>1. s \in Nat \ {0} /\ temp \in Int  BY <1>1, <1>2, <1>5
  <2> QED  BY <2>1, DivMod
<1> HIDE DEF h, sec
<1>8. sec \in 0 .. 62  BY <1>1, <1>7
<1>9. h \in 0 .. 15
  <2> DEFINE y == s * h
  <2>1. y \in Int /\ temp = y + sec  BY <1>1, <1>7
  <2>2. s * h < s * g.heads
    <3> HIDE DEF y
    <3>1. y < u  BY <1>2, <1>5, <1>7, <1>8, <2>1
    <3> QED  BY <1>1, <3>1 DEF y
  <2>3. s \in Nat \ {0} /\ g.heads \in Int  BY <1>1
  <2>4. h < g.heads  BY <1>7, <2>2, <2>3, MulCancel
  <2>5. h >= 0
    <3> SUFFICES ASSUME h < 0  PROVE FALSE  BY <1>7
    <3>1. s * h + s <= s * 0  BY <1>7, <2>3, MulMono
    <3>2. s * 0 = 0  BY <2>3
    <3>3. y + s <= 0  BY <3>1, <3>2
    <3> HIDE DEF y
    <3> QED  BY <1>1, <1>2, <1>5, <1>7, <2>1, <3>3
  <2> QED  BY <1>1, <1>7, <2>4, <2>5
<1>10. high \in 0 .. 3 /\ cyl = 256 * high + (cyl % 256) /\ cyl % 256 \in 0 .. 255
  <2>1. high \in Int /\ cyl % 256 \in 0 .. 255 /\ cyl = 256 * high + (cyl % 256)
    BY <1>6
  <2> DEFINE low == cyl % 256
  <2> HIDE DEF high, low
  <2>2. low \in 0 .. 255 /\ cyl = 256 * high + low  BY <2>1 DEF low
  <2>3. high \in 0 .. 3  BY <1>6, <2>1, <2>2
  <2> QED  BY <2>1, <2>3
<1> HIDE DEF high
<1>11. h % 256 = h /\ (sec + 1) % 64 = sec + 1 /\ high % 4 = high
  BY <1>8, <1>9, <1>10
<1>12. raw[1] = h /\ raw[2] = sec + 1 + 64 * high /\ raw[3] = cyl % 256
  BY <1>3, <1>11
<1>13. raw[2] \div 64 = high /\ raw[2] % 64 = sec + 1
  BY <1>8, <1>10, <1>12
<1>14. (raw[2] \div 64) * 256 + raw[3] = cyl  BY <1>10, <1>12, <1>13
<1>15. ChsToLba(decode_chs(raw), g) = cyl * u + h * s + (sec + 1) - 1
  <2> DEFINE m == raw[2] % 64   n == (raw[2] \div 64) * 256 + raw[3]   k == raw[1]
  <2>1. ChsToLba(decode_chs(raw), g) = n * u + k * s + m - 1  BY <1>4
  <2>2. m = sec + 1 /\ n = cyl /\ k = h  BY <1>12, <1>13, <1>14
  <2> HIDE DEF m, n, k
  <2> QED  BY <2>1, <2>2
<1>16. cyl * u = u * cyl /\ h * s = s * h /\ u * cyl \in Int /\ s * h \in Int
  BY <1>1, <1>2, <1>6, <1>9
<1> DEFINE y == u * cyl   z == s * h
<1>17. /\ ChsToLba(decode_chs(raw), g) = y + z + (sec + 1) - 1
       /\ y \in Int /\ z \in Int /\ x = y + temp /\ temp = z + sec
  BY <1>5, <1>7, <1>15, <1>16
<1> HIDE DEF y, z
<1>18. ChsToLba(decode_chs(raw), g) = x
  <2> DEFINE v == ChsToLba(decode_chs(raw), g)
  <2>1. v = y + z + (sec + 1) - 1  BY <1>17
  <2> HIDE DEF v
  <2>2. v = x  BY <1>8, <1>17, <2>1
  <2> QED  BY <2>2 DEF v
<1> QED  BY <1>18 DEF raw

\* The CHS fields build_mbr enters name the first and the last sector of the
\* partition, or the last cylinder CHS reaches when lba28 saturates.
LEMMA ChsFields ==
  ASSUME NEW r \in RequestType, Valid(r), NEW lba \in {r.start, r.start + r.size - 1}
  PROVE  ChsShows(encode_chs(lba, r.geometry, r.mode = "lba28"), lba, r)
<1> DEFINE g == r.geometry
           u == CylinderSize(g)
           last == total_sectors(g) - 1
           cap == MAX_CHS_CYLINDERS * CylinderSize(g) - 1
           shown == IF r.mode = "lba28" /\ lba > cap THEN cap ELSE lba
<1>1. /\ g \in GeometryType /\ r.mode \in {"chs", "lba28"}
      /\ r.start \in Nat \ {0} /\ r.size \in Nat \ {0}
      /\ total_sectors(g) \in Nat /\ r.start + r.size <= total_sectors(g)
  BY RequestFacts
<1>2. /\ g.cylinders \in Nat \ {0} /\ g.heads \in 1 .. 16
      /\ g.sectors_per_track \in 1 .. 63 /\ (r.mode = "chs" => g.cylinders <= 1024)
  BY <1>1 DEF Valid, validate_geometry, GeometryType, MAX_CHS_CYLINDERS,
              MAX_KERNEL_CHS_HEADS, MAX_CHS_SECTORS_PER_TRACK
<1>3. u \in Nat \ {0} /\ total_sectors(g) = g.cylinders * u
  <2>1. g.heads \in Nat \ {0} /\ g.sectors_per_track \in Nat \ {0}  BY <1>2
  <2> QED  BY <2>1 DEF CylinderSize, total_sectors
<1>4. cap = 1024 * u - 1 /\ cap \in Nat
  <2>1. cap = 1024 * u - 1  BY DEF MAX_CHS_CYLINDERS
  <2> HIDE DEF u, cap
  <2> QED  BY <1>3, <2>1
<1> HIDE DEF g, u
<1>5. lba \in Nat \ {0} /\ ~ (lba > last) /\ lba <= last
  BY <1>1
<1>6. r.mode # "lba28" => lba <= cap
  <2> SUFFICES ASSUME r.mode # "lba28"  PROVE lba <= cap  OBVIOUS
  <2>1. g.cylinders <= 1024  BY <1>1, <1>2
  <2>2. g.cylinders * u <= 1024 * u
    <3>1. CASE g.cylinders = 1024
      <4>1. 1024 * u \in Nat  BY <1>3
      <4> QED  BY <3>1, <4>1
    <3>2. CASE g.cylinders < 1024
      <4>1. u * g.cylinders + u <= u * 1024  BY <1>2, <1>3, <3>2, MulMono
      <4>2. g.cylinders * u = u * g.cylinders /\ u * g.cylinders \in Nat  BY <1>2, <1>3
      <4> DEFINE y == u * g.cylinders
      <4>3. g.cylinders * u = y /\ y + u <= u * 1024 /\ y \in Nat  BY <4>1, <4>2
      <4> HIDE DEF y
      <4> QED  BY <1>3, <4>3
    <3> QED  BY <1>2, <2>1, <3>1, <3>2
  <2> DEFINE y == g.cylinders * u
  <2>3. y <= 1024 * u /\ y \in Nat /\ total_sectors(g) = y  BY <1>1, <1>3, <2>2
  <2> HIDE DEF y, cap
  <2> QED  BY <1>3, <1>4, <1>5, <2>3
<1>7. encode_chs(lba, g, r.mode = "lba28") = ChsBytes(shown, g)
  <2>1. encode_chs(lba, g, r.mode = "lba28")
          = IF lba = 0 THEN <<0, 0, 0>>
            ELSE ChsBytes(IF (r.mode = "lba28") /\ (IF lba > last THEN last ELSE lba) > cap
                          THEN cap ELSE IF lba > last THEN last ELSE lba, g)
    BY DEF encode_chs
  <2> HIDE DEF last, cap
  <2> QED  BY <1>5, <2>1
<1> HIDE DEF cap, last
<1>8. shown \in Nat /\ shown <= cap  BY <1>4, <1>5, <1>6
<1>9. shown = IF r.mode = "lba28" THEN Lesser(lba, cap) ELSE lba
  BY <1>4, <1>5 DEF Lesser
<1> HIDE DEF shown
<1>10. shown < 1024 * CylinderSize(g)  BY <1>3, <1>4, <1>8 DEF u
<1>11. ChsToLba(decode_chs(ChsBytes(shown, g)), g) = shown
  BY <1>1, <1>2, <1>8, <1>10, ChsRoundTrip
<1> QED  BY <1>7, <1>9, <1>11 DEF ChsShows, g, cap

----------------------------------------------------------------------------
(* The theorems.                                                           *)

\* A report with the label of a finished create command shows the request.
LEMMA LabelShows ==
  ASSUME NEW r \in RequestType, Valid(r), Narrow(r), NEW report,
         report.active = Partition(r), report.pdinfo = WithVtoc(r)
  PROVE  Shows(report, r)
<1> DEFINE parts == report.pdinfo.vtoc.partitions
           S == ToSet(r.slices)
           entries == {parts[i] : i \in 0 .. 15}
<1>1. /\ report.active.start = r.start /\ report.active.count = r.size
      /\ report.active.start_chs = encode_chs(r.start, r.geometry, r.mode = "lba28")
      /\ report.active.end_chs
           = encode_chs(r.start + r.size - 1, r.geometry, r.mode = "lba28")
  BY DEF Partition
<1>2. /\ ChsShows(report.active.start_chs, r.start, r)
      /\ ChsShows(report.active.end_chs, r.start + r.size - 1, r)
  BY <1>1, ChsFields
<1>3. /\ report.pdinfo.geometry = r.geometry
      /\ parts = build_vtoc(r.slices).partitions
  BY DEF WithVtoc, build_pdinfo
<1> HIDE DEF parts
<1>4. /\ \A i \in 0 .. 15 : parts[i].count > 0 => parts[i] \in S
      /\ \A p \in S : parts[p.index] = p
  BY <1>3, VtocEntries
<1>5. \A p \in S : p.index \in 0 .. 15  BY RequestFacts
<1> HIDE DEF S
<1>6. \A p \in S : p \in entries
  <2> SUFFICES ASSUME NEW p \in S  PROVE p \in entries  OBVIOUS
  <2>1. p.index \in 0 .. 15 /\ parts[p.index] = p  BY <1>4, <1>5
  <2> QED  BY <2>1
<1>7. {p \in entries : p.count > 0} = {p \in S : p.count > 0}  BY <1>4, <1>6
<1> QED  BY <1>1, <1>2, <1>3, <1>7 DEF Shows, parts, S

\* What the invariant says of a report.
LEMMA LabelImplies == LabelInv => InspectedIsCreated
<1> SUFFICES ASSUME LabelInv  PROVE InspectedIsCreated  OBVIOUS
<1> DEFINE report == inspect_disk_image(image)
           showing == HasVtoc(report) /\ report.pdinfo.vtoc.sane
           alts == read_alt_info(image, report)
<1>1. CASE NothingYet
  <2>1. image.ext = {} /\ made = FALSE  BY <1>1 DEF NothingYet, Blank
  <2>2. WhatAt(image, 0).kind = "zero"  BY <2>1 DEF WhatAt, Zero
  <2>3. report = Report("ok", EmptyPartition, NoPdInfo)
    BY <2>2 DEF inspect_disk_image
  <2>4. ~ HasVtoc(report)  BY <2>3 DEF HasVtoc, Report, NoPdInfo
  <2> QED  BY <2>1, <2>4 DEF InspectedIsCreated
<1>2. CASE Created
  <2>1. /\ asked \in RequestType /\ Valid(asked) /\ Narrow(asked) /\ FileOK(image)
        /\ \A e \in image.ext : Own(e, asked)
    BY <1>2 DEF Created, LabelInv
  <2>2. asked.start \in Nat  BY <2>1, RequestFacts
  <2>3. showing => Shows(report, asked)
    <3> SUFFICES ASSUME showing  PROVE Shows(report, asked)  OBVIOUS
    <3>1. HasMbr(image, asked)  BY <2>1, InspectedNothing
    <3>2. /\ report.status = "ok" => report.active = Partition(asked)
          /\ report.pdinfo \in {build_pdinfo(asked), WithVtoc(asked)}
      BY <2>1, <3>1, InspectedMbr
    <3>3. report.status = "ok" /\ report.pdinfo.vtoc.sane  BY DEF HasVtoc
    <3> HIDE DEF report
    <3>4. report.pdinfo # build_pdinfo(asked)
      <4> SUFFICES ASSUME report.pdinfo = build_pdinfo(asked)  PROVE FALSE  OBVIOUS
      <4>1. build_pdinfo(asked).vtoc.sane = FALSE  BY DEF build_pdinfo, EmptyVtoc
      <4> QED  BY <3>3, <4>1
    <3>5. report.active = Partition(asked) /\ report.pdinfo = WithVtoc(asked)
      BY <3>2, <3>3, <3>4
    <3> QED  BY <2>1, <3>5, LabelShows
  <2>4. made => LabelOverwritten \/ (showing /\ alts.kind = "alts")
    <3> SUFFICES ASSUME made, ~ LabelOverwritten
                 PROVE  showing /\ alts.kind = "alts"
      OBVIOUS
    <3>1. HasMbr(image, asked) /\ HasLabel(image, asked) /\ HasAlts(image, asked)
      BY <1>2 DEF Created
    <3>2. report = Report("ok", Partition(asked), WithVtoc(asked))
      BY <2>1, <2>2, <3>1, InspectedLabel
    <3> HIDE DEF report
    <3>3. /\ report.status = "ok" /\ report.active.start = asked.start
          /\ report.pdinfo = WithVtoc(asked)
      BY <3>2 DEF Report, Partition
    <3>4. /\ WithVtoc(asked).kind = "label" /\ WithVtoc(asked).alt_ptr = AltPtr
          /\ WithVtoc(asked).vtoc.sane
      BY DEF WithVtoc, build_pdinfo, build_vtoc
    <3>5. showing  BY <3>3, <3>4 DEF HasVtoc
    <3>6. alts = WhatAt(image, asked.start + AltPtr)
      BY <3>3, <3>4 DEF read_alt_info
    <3>7. PICK e \in image.ext : e.at = asked.start + AltPtr /\ e.what.kind = "alts"
      BY <3>1 DEF HasAlts
    <3>8. WhatAt(image, e.at) = e.what  BY <2>1, ReadIs
    <3> QED  BY <3>5, <3>6, <3>7, <3>8
  <2> QED  BY <2>3, <2>4 DEF InspectedIsCreated, LabelOverwritten
<1> QED  BY <1>1, <1>2 DEF LabelInv

\* On a disk of less than 2^31 sectors the image file stays well formed under
\* every command, killed or not: the structures lie inside the file and do not
\* overlap, and only slices of the last request are taken to be formatted.
THEOREM ImageFileTyped == Spec /\ []NarrowDisk => []TypeOK
<1>1. LabelInv => TypeOK
  <2> SUFFICES ASSUME LabelInv  PROVE TypeOK  OBVIOUS
  <2>1. /\ FileOK(image) /\ made \in BOOLEAN
        /\ pc \in {"none", "idle", "mbr", "pdinfo", "vtoc", "alts"}
    BY DEF LabelInv
  <2>2. DOMAIN contents \subseteq {p.index : p \in ToSet(asked.slices)}
    <3>1. CASE Created  BY <3>1 DEF Created
    <3>2. CASE NothingYet
      <4>1. DOMAIN contents = {}  BY <3>2 DEF NothingYet
      <4> QED  BY <4>1
    <3> QED  BY <3>1, <3>2 DEF LabelInv
  <2>3. \A e \in image.ext : e.at \in Nat /\ e.n \in Nat \ {0} /\ e.at + e.n <= image.len
    BY <2>1 DEF FileOK, IsRun
  <2>4. image.len \in Nat /\ \A e, f \in image.ext : e # f => Apart(e, f)
    BY <2>1 DEF FileOK, RunsApart
  <2> QED  BY <2>1, <2>2, <2>3, <2>4 DEF TypeOK
<1> QED  BY <1>1, LabelStart, LabelStep, PTL DEF Spec

\* On a disk of less than 2^31 sectors, whose numbers the signed words of the
\* VTOC keep, inspect_disk_image never reports a sane VTOC but with the partition, CHS
\* addresses, geometry and slices of the last request, wherever the create
\* command was killed or refused and whatever was formatted or installed
\* since; once the command has returned it reports them, with usable
\* alternates, until a slice over the label is formatted.
THEOREM LabelIsRequest == Spec /\ []NarrowDisk => []InspectedIsCreated
BY LabelStart, LabelStep, LabelImplies, PTL DEF Spec

----------------------------------------------------------------------------
(* The slices.  format-ufs writes a block for every group, also for a last *)
(* group too short to hold it: then the block lies behind the slice, and   *)
(* unless that is past the end of the file, in whatever is there.  The     *)
(* rest of this module is about disks on which this does not happen.       *)

\* The last group of every UFS on the disk is long enough for its block, or
\* the block would be past the end of the file (and format panics).
LastGroupEnd(base, sb) == base + cgtod(sb, sb.ncg - 1) + sb.frag

LastGroupsFit ==
  \A e \in image.ext : e.what.kind = "ufs" =>
    LET base == e.at - UFS_SB_SECTOR
    IN  \/ LastGroupEnd(base, e.what) <= base + e.what.dsize
        \/ LastGroupEnd(base, e.what) > image.len

\* The blocks of the groups before the last are always inside the slice.
LEMMA GroupsInside ==
  ASSUME NEW sb, SoundLayout(sb), LayoutNumbers(sb), NEW base \in Nat,
         NEW g \in GroupRuns(base, sb), g.at + g.n > base + sb.dsize
  PROVE  g.at + g.n = LastGroupEnd(base, sb)
<1> DEFINE f == sb.fpg
           k == sb.cblkno
           last == sb.ncg - 1
<1>1. /\ f \in Nat \ {0} /\ k \in Nat /\ sb.frag \in Nat /\ sb.dsize \in Nat
      /\ last \in Nat /\ k + sb.frag <= f /\ f * last < sb.dsize
  <2>1. /\ f \in Nat \ {0} /\ k \in Nat /\ sb.frag \in Nat /\ sb.dsize \in Nat
        /\ sb.ncg \in Nat \ {0} /\ sb.iblkno \in Nat /\ sb.dblkno \in Nat
        /\ sb.iblkno + sb.frag <= sb.dblkno
    BY DEF LayoutNumbers
  <2>2. /\ sb.dblkno + sb.frag <= f /\ k + sb.frag <= sb.iblkno
        /\ f * last < sb.dsize
    BY DEF SoundLayout
  <2> QED  BY <2>1, <2>2
<1>2. \A c : cgtod(sb, c) = c * f + k  BY DEF cgtod, cgbase
<1>3. PICK c \in 0 .. sb.ncg - 1 :
        g = Extent(base + cgtod(sb, c), sb.frag, [kind |-> "cg", cg |-> c])
  BY DEF GroupRuns
<1>4. g.at = base + cgtod(sb, c) /\ g.n = sb.frag  BY <1>3 DEF Extent
<1>5. c \in Nat /\ c <= last /\ c * f = f * c  BY <1>1
<1> HIDE DEF f, k, last
<1>6. c = last
  <2> SUFFICES ASSUME c < last  PROVE FALSE  BY <1>1, <1>5
  <2>1. f * c + f <= f * last  BY <1>1, <1>5, MulMono
  <2> DEFINE x == f * c   y == f * last
  <2>2. x \in Nat /\ y \in Nat /\ x + f <= y /\ y < sb.dsize /\ cgtod(sb, c) = x + k
    BY <1>1, <1>2, <1>5, <2>1
  <2> HIDE DEF x, y
  <2> QED  BY <1>1, <1>4, <2>2
<1> QED  BY <1>4, <1>6 DEF LastGroupEnd, last

\* The files are in their places, and no superblock is found before them.
BfsKept(img, p, files) ==
  /\ p.count > 0 /\ files \in Seq(BfsFile) /\ ~ Refused(files, p.count)
  /\ StartOf(files, Len(files) + 1) <= p.count
  /\ Runs(p.start, p.count, files) \subseteq img.ext
  /\ \A e \in img.ext : e.what.kind = "ufs" /\ e.at = p.start + 16 => p.count < 32

RootParts(base, sb) == {SuperblockRun(base, sb)} \cup RootRuns(base, sb)

UfsKept(img, p) ==
  \E sb : /\ sb.kind = "ufs" /\ SoundLayout(sb) /\ LayoutNumbers(sb)
          /\ sb.dsize = p.count /\ p.count > 48
          /\ RootParts(p.start, sb) \subseteq img.ext

Keeps(img, p, c) ==
  /\ c.fs = "bfs" => BfsKept(img, p, c.files)
  /\ c.fs = "ufs" => UfsKept(img, p)

\* The request's slices hold what contents says.
SlicesInv ==
  /\ ~ Idle => DOMAIN contents = {}
  /\ \A p \in ToSet(asked.slices) :
       p.index \in DOMAIN contents => Keeps(image, p, contents[p.index])

\* A format command writes in its slice only.
SliceWritten(p, c) ==
  /\ pc = "idle" /\ pc' = pc /\ asked' = asked /\ made' = made
  /\ p \in ToSet(asked.slices) /\ p.count > 0
  /\ image'.len = image.len /\ TouchesOnly(SliceRegion(p))
  /\ contents' = Wrote(p, c) /\ Keeps(image', p, c)

\* format-bfs.
LEMMA BfsInSlice ==
  ASSUME LabelInv, FormatBfs
  PROVE  \E p, c : SliceWritten(p, c)
<1>1. PICK p, files : BfsWrites(p, files)  BY FormatBfsWrites
<1> DEFINE c == [fs |-> "bfs", files |-> files]
           runs == Runs(p.start, p.count, files)
           region == SliceRegion(p)
<1>2. Created /\ FileOK(image)  BY <1>1, IdleCreated DEF LabelInv, BfsWrites
<1>3. /\ p \in ToSet(asked.slices) /\ p.count > 0
      /\ image'.ext = {e \in image.ext : Apart(e, region)} \cup runs
      /\ image'.len = image.len
      /\ files \in Seq(BfsFile) /\ StartOf(files, Len(files) + 1) <= p.count
  BY <1>1 DEF BfsWrites
<1>4. p.start \in Nat /\ p.count \in Nat  BY <1>2, <1>3, RequestFacts DEF Created
<1>5. region.at = p.start /\ region.n = p.count  BY DEF SliceRegion, Region
<1>6. \A e \in runs : /\ IsRun(e) /\ p.start <= e.at /\ e.at + e.n <= p.start + p.count
                      /\ e.what.kind \in BfsKinds
  BY <1>3, <1>4, BfsRunsPlaced
<1> HIDE DEF runs, region
<1>7. TouchesOnly(region)
  <2>1. {e \in image.ext : Apart(e, region)} \subseteq image'.ext  BY <1>3
  <2>2. \A e \in image'.ext \ image.ext : Within(e, region)
    BY <1>3, <1>5, <1>6 DEF Within
  <2> QED  BY <2>1, <2>2 DEF TouchesOnly
<1>8. ASSUME NEW e \in image'.ext, e.what.kind = "ufs", e.at = p.start + 16
      PROVE  p.count < 32
  <2>1. e \notin runs  BY <1>6, <1>8 DEF BfsKinds
  <2>2. e \in image.ext /\ Apart(e, region)  BY <1>3, <1>8, <2>1
  <2>3. e.n \in Nat \ {0}  BY <1>2, <2>2 DEF FileOK, IsRun
  <2> QED  BY <1>4, <1>5, <1>8, <2>2, <2>3 DEF Apart
<1>9. BfsKept(image', p, files)
  <2>1. runs \subseteq image'.ext  BY <1>3
  <2> QED  BY <1>1, <1>3, <1>8, <2>1 DEF BfsKept, BfsWrites, runs
<1>10. c.fs = "bfs" /\ c.files = files  OBVIOUS
<1>11. Keeps(image', p, c)
  <2> HIDE DEF c
  <2> QED  BY <1>9, <1>10 DEF Keeps
<1>12. contents' = Wrote(p, c) /\ pc = "idle" /\ pc' = pc /\ asked' = asked /\ made' = made
  BY <1>1 DEF BfsWrites
<1>13. SliceWritten(p, c)
  <2> HIDE DEF c
  <2> QED  BY <1>3, <1>7, <1>11, <1>12 DEF SliceWritten, region
<1> QED  BY <1>13

\* format-ufs, when the last group is long enough.
LEMMA UfsInSlice ==
  ASSUME LabelInv, LastGroupsFit', FormatUfs
  PROVE  \E p, c : SliceWritten(p, c)
<1>1. PICK p, sb, runs, c : UfsWrites(p, sb, runs, c)  BY FormatUfsWrites
<1> DEFINE region == SliceRegion(p)
           S == SuperblockRun(p.start, sb)
<1>2. Created /\ FileOK(image)  BY <1>1, IdleCreated DEF LabelInv, UfsWrites
<1>3. /\ p \in ToSet(asked.slices) /\ p.count > 48 /\ sb.dsize = p.count
      /\ SoundLayout(sb) /\ LayoutNumbers(sb) /\ sb.kind = "ufs"
      /\ image'.ext = {e \in image.ext : \A f \in runs : Apart(e, f)} \cup runs
      /\ image'.len = image.len
      /\ runs \subseteq UfsRuns(p.start, sb) /\ S \in runs
      /\ \A e \in runs : e.at + e.n <= image.len
      /\ c.fs \in {"ufs", "broken"} /\ (c.fs = "ufs" => runs = UfsRuns(p.start, sb))
      /\ contents' = Wrote(p, c)
      /\ pc = "idle" /\ pc' = pc /\ asked' = asked /\ made' = made
  BY <1>1 DEF UfsWrites
<1>4. p.start \in Nat /\ p.count \in Nat /\ image.len \in Nat
  BY <1>2, <1>3, RequestFacts DEF Created, FileOK
<1>5. region.at = p.start /\ region.n = p.count  BY DEF SliceRegion, Region
<1>6. S.at - UFS_SB_SECTOR = p.start /\ S.what = sb
  BY <1>4 DEF SuperblockRun, Extent, UFS_SB_SECTOR
<1>7. /\ \A e \in UfsRuns(p.start, sb) : IsRun(e) /\ p.start + 16 <= e.at
      /\ \A e \in RootParts(p.start, sb) : e.at + e.n <= p.start + sb.dsize
  BY <1>3, <1>4, UfsRunsPlaced DEF RootParts
<1>8. \A g \in GroupRuns(p.start, sb) :
        g.at + g.n <= p.start + sb.dsize \/ g.at + g.n > image'.len
  <2> DEFINE end == LastGroupEnd(p.start, sb)
  <2>1. S \in image'.ext /\ S.what.kind = "ufs"  BY <1>3, <1>6
  <2> HIDE DEF S
  <2>2. \/ LastGroupEnd(S.at - UFS_SB_SECTOR, S.what)
             <= S.at - UFS_SB_SECTOR + S.what.dsize
        \/ LastGroupEnd(S.at - UFS_SB_SECTOR, S.what) > image'.len
    BY <2>1 DEF LastGroupsFit
  <2>3. end <= p.start + sb.dsize \/ end > image'.len  BY <1>6, <2>2
  <2>4. ASSUME NEW g \in GroupRuns(p.start, sb), ~ (g.at + g.n <= p.start + sb.dsize)
        PROVE  g.at + g.n > image'.len
    <3>1. IsRun(g)  BY <1>7 DEF UfsRuns
    <3>2. g.at + g.n \in Nat /\ sb.dsize \in Nat  BY <1>3, <3>1 DEF IsRun, LayoutNumbers
    <3>3. g.at + g.n > p.start + sb.dsize  BY <1>4, <2>4, <3>2
    <3>4. g.at + g.n = end  BY <1>3, <1>4, <3>3, GroupsInside
    <3> HIDE DEF end
    <3> QED  BY <2>3, <2>4, <3>4
  <2> QED  BY <2>4
<1>9. UfsRuns(p.start, sb) = GroupRuns(p.start, sb) \cup RootParts(p.start, sb)
  BY DEF UfsRuns, RootParts
<1> HIDE DEF region, S
<1>10. ASSUME NEW e \in runs
       PROVE  IsRun(e) /\ p.start <= e.at /\ e.at + e.n <= p.start + p.count
  <2>1. IsRun(e) /\ p.start + 16 <= e.at /\ e.at + e.n <= image.len
    BY <1>3, <1>7
  <2>2. e \in GroupRuns(p.start, sb) \/ e \in RootParts(p.start, sb)  BY <1>3, <1>9
  <2>3. e.at \in Nat /\ e.n \in Nat  BY <2>1 DEF IsRun
  <2>4. e.at + e.n <= p.start + p.count
    BY <1>3, <1>4, <1>7, <1>8, <2>1, <2>2, <2>3
  <2> QED  BY <1>4, <2>1, <2>3, <2>4
<1>11. TouchesOnly(region)
  <2>1. ASSUME NEW e \in image.ext, Apart(e, region)  PROVE e \in image'.ext
    <3>1. e.at \in Nat /\ e.n \in Nat  BY <1>2 DEF FileOK, IsRun
    <3>2. \A f \in runs : Apart(e, f)
      BY <1>4, <1>5, <1>10, <2>1, <3>1 DEF Apart, IsRun
    <3> QED  BY <1>3, <3>2
  <2>2. \A e \in image'.ext \ image.ext : Within(e, region)
    BY <1>3, <1>5, <1>10 DEF Within
  <2> QED  BY <2>1, <2>2 DEF TouchesOnly
<1>12. Keeps(image', p, c)
  <2>1. c.fs # "bfs"  BY <1>3
  <2>2. c.fs = "ufs" => UfsKept(image', p)
    <3> SUFFICES ASSUME c.fs = "ufs"  PROVE UfsKept(image', p)  OBVIOUS
    <3>1. RootParts(p.start, sb) \subseteq image'.ext  BY <1>3, <1>9
    <3> QED  BY <1>3, <3>1 DEF UfsKept
  <2> QED  BY <2>1, <2>2 DEF Keeps
<1>13. p.count > 0  BY <1>3, <1>4
<1>14. SliceWritten(p, c)
  BY <1>3, <1>11, <1>12, <1>13 DEF SliceWritten, region
<1> QED  BY <1>14

\* SliceOf finds the slice of the request with an index.
LEMMA SliceFound ==
  ASSUME Created, NEW p \in ToSet(asked.slices)
  PROVE  SliceOf(p.index) = p
<1>1. \A q \in ToSet(asked.slices) : q.index = p.index => q = p
  BY RequestFacts DEF Created
<1> DEFINE S == ToSet(asked.slices)
<1>2. p \in S /\ \A q \in S : q.index = p.index => q = p  BY <1>1
<1> HIDE DEF S
<1>3. (CHOOSE q \in S : q.index = p.index) = p  BY <1>2
<1> QED  BY <1>3 DEF SliceOf, S

\* install-boot writes before the label only, and keeps the partition table.
LEMMA BootInPlace ==
  ASSUME LabelInv, InstallBoot
  PROVE  BootOnly /\ image'.len = image.len
<1>1. PICK mbr, runs : BootWrites(mbr, runs)  BY InstallBootWrites
<1> DEFINE region == Region(0, asked.start + HDPDLOC)
<1>2. Created /\ FileOK(image)  BY <1>1, IdleCreated DEF LabelInv, BootWrites
<1>3. asked.start \in Nat \ {0}  BY <1>2, RequestFacts DEF Created
<1>4. /\ FileOK(image') /\ image'.len = image.len
      /\ image'.ext = {e \in image.ext : \A f \in runs : Apart(e, f)} \cup runs
      /\ mbr \in runs /\ mbr.at = 0
      /\ mbr.what = [WhatAt(image, 0) EXCEPT !.code = "chainloader"]
      /\ \A e \in runs : /\ IsRun(e) /\ e.at \in {0, asked.start}
                         /\ e.at + e.n <= asked.start + 29
  BY <1>1 DEF BootWrites
<1>5. region.at = 0 /\ region.n = asked.start + 29  BY DEF Region, HDPDLOC
<1> HIDE DEF region
<1>6. TouchesOnly(region)
  <2>1. ASSUME NEW e \in image.ext, Apart(e, region)  PROVE e \in image'.ext
    <3>1. e.at \in Nat /\ e.n \in Nat \ {0}  BY <1>2 DEF FileOK, IsRun
    <3>2. asked.start + 29 <= e.at  BY <1>3, <1>5, <2>1, <3>1 DEF Apart
    <3>3. \A f \in runs : Apart(e, f)  BY <1>3, <1>4, <3>1, <3>2 DEF Apart, IsRun
    <3> QED  BY <1>4, <3>3
  <2>2. \A e \in image'.ext \ image.ext : Within(e, region)
    BY <1>3, <1>4, <1>5 DEF Within, IsRun
  <2> QED  BY <2>1, <2>2 DEF TouchesOnly
<1>7. mbr \in image'.ext  BY <1>4
<1>8. WhatAt(image', mbr.at) = mbr.what  BY <1>4, <1>7, ReadIs
<1>9. WhatAt(image', 0) = [WhatAt(image, 0) EXCEPT !.code = "chainloader"]
  BY <1>4, <1>8
<1>10. \A e \in image'.ext \ image.ext : e.at \in {0, asked.start}  BY <1>4
<1> QED  BY <1>4, <1>6, <1>9, <1>10 DEF BootOnly, region

\* The guest writes to the alternates only.
LEMMA BadInPlace ==
  ASSUME LabelInv, MarkBad
  PROVE  TouchesOnly(Region(asked.start + AltPtr, AltLen)) /\ image'.len = image.len
<1>1. PICK e : BadWrites(e)  BY MarkBadWrites
<1> DEFINE region == Region(asked.start + AltPtr, AltLen)
<1>2. /\ image'.ext = {f \in image.ext : Apart(f, e)} \cup {e} /\ image'.len = image.len
      /\ e.at = region.at /\ e.n = region.n
  BY <1>1 DEF BadWrites, Region
<1>3. asked.start \in Nat
  BY <1>1, IdleCreated, RequestFacts DEF BadWrites, Created
<1>4. region.at \in Nat /\ region.n \in Nat  BY <1>3 DEF Region, AltPtr, AltLen
<1> HIDE DEF region
<1>5. \A f : Apart(f, region) => Apart(f, e)  BY <1>2 DEF Apart
<1>6. Within(e, region)  BY <1>2, <1>4 DEF Within
<1>7. TouchesOnly(region)  BY <1>2, <1>5, <1>6 DEF TouchesOnly
<1> QED  BY <1>2, <1>7 DEF region

\* On a disk of less than 2^31 sectors without a short last group, a command on
\* a finished image keeps the length of the file and writes in one slice, in
\* the boot area (keeping the partition table) or in the alternates, and
\* nowhere else.
THEOREM CommandsStayInSlice ==
  Spec /\ []NarrowDisk /\ []LastGroupsFit => StaysInSlice
<1>1. ASSUME LabelInv, LastGroupsFit', Next, pc = "idle", pc' = "idle"
      PROVE  /\ image'.len = image.len
             /\ \/ \E i \in DOMAIN contents' : TouchesOnly(SliceRegion(SliceOf(i)))
                \/ BootOnly
                \/ TouchesOnly(Region(asked.start + AltPtr, AltLen))
  <2>1. CASE FormatBfs \/ FormatUfs
    <3>1. PICK p, c : SliceWritten(p, c)  BY <1>1, <2>1, BfsInSlice, UfsInSlice
    <3>2. Created  BY <1>1, IdleCreated
    <3>3. /\ p \in ToSet(asked.slices) /\ image'.len = image.len
          /\ TouchesOnly(SliceRegion(p)) /\ contents' = Wrote(p, c)
      BY <3>1 DEF SliceWritten
    <3>4. SliceOf(p.index) = p  BY <3>2, <3>3, SliceFound
    <3>5. p.index \in DOMAIN contents'  BY <3>3, WroteDomain
    <3> QED  BY <3>3, <3>4, <3>5
  <2>2. CASE InstallBoot  BY <1>1, <2>2, BootInPlace
  <2>3. CASE MarkBad  BY <1>1, <2>3, BadInPlace
  <2>4. CASE CreateSkeleton \/ CreateLayout
    BY <1>1, <2>4 DEF CreateSkeleton, CreateLayout, Begin
  <2>5. CASE WriteMbr \/ WritePdinfo \/ WriteVtoc \/ WriteAlternates \/ Killed
    BY <1>1, <2>5 DEF WriteMbr, WritePdinfo, WriteVtoc, WriteAlternates, Killed, Idle
  <2> QED  BY <1>1, <2>1, <2>2, <2>3, <2>4, <2>5 DEF Next
<1>2. LabelInv /\ LastGroupsFit' /\ [Next]_vars =>
        [pc = "idle" /\ pc' = "idle" =>
           /\ image'.len = image.len
           /\ \/ \E i \in DOMAIN contents' : TouchesOnly(SliceRegion(SliceOf(i)))
              \/ BootOnly
              \/ TouchesOnly(Region(asked.start + AltPtr, AltLen))]_vars
  BY <1>1
<1> QED  BY <1>2, LabelStart, LabelStep, PTL DEF Spec, StaysInSlice

----------------------------------------------------------------------------
(* What is in a slice stays there.                                         *)

\* A slice whose structures are not written over holds what it held.
LEMMA StillKept ==
  ASSUME Created, NEW p \in ToSet(asked.slices), NEW c, Keeps(image, p, c),
         \A e \in image.ext :
           Within(e, SliceRegion(p)) /\ e.what.kind \in BfsKinds \cup UfsKinds
             => e \in image'.ext,
         \A e \in image'.ext \ image.ext :
           e.what.kind = "ufs" /\ e.at = p.start + 16 => p.count < 32
  PROVE  Keeps(image', p, c)
<1>1. p.start \in Nat /\ p.count \in Nat  BY RequestFacts DEF Created
<1>2. SliceRegion(p).at = p.start /\ SliceRegion(p).n = p.count
  BY DEF SliceRegion, Region
<1>3. ASSUME BfsKept(image, p, c.files)  PROVE BfsKept(image', p, c.files)
  <2> DEFINE files == c.files
             runs == Runs(p.start, p.count, files)
  <2>1. /\ files \in Seq(BfsFile) /\ StartOf(files, Len(files) + 1) <= p.count
        /\ runs \subseteq image.ext
    BY <1>3 DEF BfsKept
  <2>2. \A e \in runs : /\ p.start <= e.at /\ e.at + e.n <= p.start + p.count
                        /\ e.what.kind \in BfsKinds
    BY <1>1, <2>1, BfsRunsPlaced
  <2> HIDE DEF runs
  <2>3. runs \subseteq image'.ext  BY <1>2, <2>1, <2>2 DEF Within
  <2>4. \A e \in image'.ext : e.what.kind = "ufs" /\ e.at = p.start + 16 => p.count < 32
    BY <1>3 DEF BfsKept
  <2> QED  BY <1>3, <2>3, <2>4 DEF BfsKept, runs
<1>4. ASSUME UfsKept(image, p)  PROVE UfsKept(image', p)
  <2>1. PICK sb : /\ sb.kind = "ufs" /\ SoundLayout(sb) /\ LayoutNumbers(sb)
                  /\ sb.dsize = p.count /\ p.count > 48
                  /\ RootParts(p.start, sb) \subseteq image.ext
    BY <1>4 DEF UfsKept
  <2> DEFINE parts == RootParts(p.start, sb)
  <2>2. parts \subseteq UfsRuns(p.start, sb)  BY DEF RootParts, UfsRuns
  <2>3. \A e \in parts : /\ IsRun(e) /\ p.start + 16 <= e.at
                         /\ e.at + e.n <= p.start + p.count /\ e.what.kind \in UfsKinds
    <3>1. /\ \A e \in UfsRuns(p.start, sb) :
               IsRun(e) /\ p.start + 16 <= e.at /\ e.what.kind \in UfsKinds
          /\ \A e \in parts : e.at + e.n <= p.start + sb.dsize
      BY <1>1, <2>1, UfsRunsPlaced DEF RootParts
    <3> HIDE DEF parts
    <3> QED  BY <2>1, <2>2, <3>1
  <2> HIDE DEF parts
  <2>4. \A e \in parts : p.start <= e.at  BY <1>1, <2>3 DEF IsRun
  <2>5. parts \subseteq image'.ext
    <3>1. parts \subseteq image.ext  BY <2>1 DEF parts
    <3> QED  BY <1>2, <2>3, <2>4, <3>1 DEF Within
  <2> QED  BY <2>1, <2>5 DEF UfsKept, parts
<1> QED  BY <1>3, <1>4 DEF Keeps

\* It is not, when a step writes in a region apart from the slice.
LEMMA KeptApart ==
  ASSUME Created, FileOK(image), FileOK(image'),
         NEW p \in ToSet(asked.slices), NEW c,
         Keeps(image, p, c), NEW region, region.at \in Nat, region.n \in Nat,
         TouchesOnly(region), Apart(SliceRegion(p), region)
  PROVE  Keeps(image', p, c)
<1>1. p.start \in Nat /\ p.count \in Nat  BY RequestFacts DEF Created
<1>2. SliceRegion(p).at = p.start /\ SliceRegion(p).n = p.count
  BY DEF SliceRegion, Region
<1>3. ASSUME NEW e \in image.ext, Within(e, SliceRegion(p))
      PROVE  e \in image'.ext
  <2>1. e.at \in Nat /\ e.n \in Nat  BY DEF FileOK, IsRun
  <2>2. Apart(e, region)  BY <1>1, <1>2, <1>3, <2>1 DEF Within, Apart
  <2> QED  BY <2>2 DEF TouchesOnly
<1>4. ASSUME NEW e \in image'.ext \ image.ext, e.at = p.start + 16
      PROVE  p.count < 32
  <2>1. Within(e, region) /\ e.n \in Nat \ {0}  BY DEF TouchesOnly, FileOK, IsRun
  <2> QED  BY <1>1, <1>2, <1>4, <2>1 DEF Within, Apart
<1> QED  BY <1>3, <1>4, StillKept

\* A format command.
LEMMA SliceWrittenStep ==
  ASSUME LabelInv, FileOK(image'), SlicesInv, NEW p, NEW c, SliceWritten(p, c)
  PROVE  SlicesInv'
<1> DEFINE region == SliceRegion(p)
<1>1. /\ pc' = "idle" /\ asked' = asked /\ p \in ToSet(asked.slices)
      /\ TouchesOnly(region) /\ contents' = Wrote(p, c) /\ Keeps(image', p, c)
      /\ pc = "idle"
  BY DEF SliceWritten
<1>2. Created /\ FileOK(image)  BY <1>1, IdleCreated DEF LabelInv
<1>3. region.at \in Nat /\ region.n \in Nat
  BY <1>1, <1>2, RequestFacts DEF Created, SliceRegion, Region
<1>4. /\ DOMAIN contents' = DOMAIN contents \cup {p.index}
      /\ contents'[p.index] = c
      /\ \A i \in DOMAIN contents : i # p.index =>
           contents'[i] = IF Apart(SliceRegion(SliceOf(i)), region) THEN contents[i]
                          ELSE Lost
  BY <1>1 DEF Wrote, Losing
<1> HIDE DEF region
<1>5. ASSUME NEW q \in ToSet(asked.slices), q.index \in DOMAIN contents'
      PROVE  Keeps(image', q, contents'[q.index])
  <2>1. CASE q.index = p.index
    <3>1. q = p  BY <1>1, <1>2, <2>1, RequestFacts DEF Created
    <3> QED  BY <1>1, <1>4, <3>1
  <2>2. CASE q.index # p.index
    <3>1. q.index \in DOMAIN contents  BY <1>4, <1>5, <2>2
    <3>2. SliceOf(q.index) = q  BY <1>2, SliceFound
    <3>3. CASE Apart(SliceRegion(q), region)
      <4>1. contents'[q.index] = contents[q.index]  BY <1>4, <2>2, <3>1, <3>2, <3>3
      <4>2. Keeps(image, q, contents[q.index])  BY <3>1 DEF SlicesInv
      <4>3. Keeps(image', q, contents[q.index])
        BY <1>1, <1>2, <1>3, <3>3, <4>2, KeptApart
      <4> QED  BY <4>1, <4>3
    <3>4. CASE ~ Apart(SliceRegion(q), region)
      <4>1. contents'[q.index] = Lost  BY <1>4, <2>2, <3>1, <3>2, <3>4
      <4> QED  BY <4>1 DEF Keeps, Lost
    <3> QED  BY <3>3, <3>4
  <2> QED  BY <2>1, <2>2
<1> QED  BY <1>1, <1>5 DEF SlicesInv, Idle

\* install-boot: the slices over the boot area are lost, the others begin
\* behind it.
LEMMA BootSlices ==
  ASSUME LabelInv, FileOK(image'), SlicesInv, InstallBoot
  PROVE  SlicesInv'
<1>1. PICK mbr, runs : BootWrites(mbr, runs)  BY InstallBootWrites
<1> DEFINE area == BootArea(asked.start)
           region == Region(0, asked.start + HDPDLOC)
<1>2. /\ pc' = "idle" /\ asked' = asked /\ contents' = Losing(area) /\ pc = "idle"
  BY <1>1 DEF BootWrites
<1>3. Created /\ FileOK(image)  BY <1>2, IdleCreated DEF LabelInv
<1>4. asked.start \in Nat \ {0}  BY <1>3, RequestFacts DEF Created
<1>5. TouchesOnly(region)  BY BootInPlace DEF BootOnly
<1>6. /\ region.at = 0 /\ region.n = asked.start + 29
      /\ area.at = asked.start /\ area.n = 29
  BY DEF Region, BootArea, HDPDLOC
<1>7. /\ DOMAIN contents' = DOMAIN contents
      /\ \A i \in DOMAIN contents :
           contents'[i] = IF Apart(SliceRegion(SliceOf(i)), area) THEN contents[i]
                          ELSE Lost
  BY <1>2 DEF Losing
<1> HIDE DEF area, region
<1>8. ASSUME NEW q \in ToSet(asked.slices), q.index \in DOMAIN contents'
      PROVE  Keeps(image', q, contents'[q.index])
  <2>1. q.index \in DOMAIN contents  BY <1>7, <1>8
  <2>2. SliceOf(q.index) = q  BY <1>3, SliceFound
  <2>3. CASE Apart(SliceRegion(q), area)
    <3>1. contents'[q.index] = contents[q.index]  BY <1>7, <2>1, <2>2, <2>3
    <3>2. Keeps(image, q, contents[q.index])  BY <2>1 DEF SlicesInv
    <3>3. CASE q.count > 0
      <4>1. q.start \in Nat /\ q.count \in Nat /\ asked.start <= q.start
        BY <1>3, RequestFacts DEF Created
      <4>2. SliceRegion(q).at = q.start /\ SliceRegion(q).n = q.count
        BY DEF SliceRegion, Region
      <4>3. Apart(SliceRegion(q), region)
        BY <1>4, <1>6, <2>3, <3>3, <4>1, <4>2 DEF Apart
      <4>4. region.at \in Nat /\ region.n \in Nat  BY <1>4, <1>6
      <4>5. Keeps(image', q, contents[q.index])
        BY <1>3, <1>5, <3>2, <4>3, <4>4, KeptApart
      <4> QED  BY <3>1, <4>5
    <3>4. CASE ~ (q.count > 0)
      <4>1. q.count \in Nat  BY <1>3, RequestFacts DEF Created
      <4>2. ~ (q.count > 48)  BY <3>4, <4>1
      <4> QED  BY <3>1, <3>2, <3>4, <4>2 DEF Keeps, BfsKept, UfsKept
    <3> QED  BY <3>3, <3>4
  <2>4. CASE ~ Apart(SliceRegion(q), area)
    <3>1. contents'[q.index] = Lost  BY <1>7, <2>1, <2>2, <2>4
    <3> QED  BY <3>1 DEF Keeps, Lost
  <2> QED  BY <2>3, <2>4
<1> QED  BY <1>2, <1>8 DEF SlicesInv, Idle

\* The guest's alternates take the place of the old ones, so no slice loses
\* anything else.
LEMMA BadSlices ==
  ASSUME LabelInv, FileOK(image'), SlicesInv, MarkBad
  PROVE  SlicesInv'
<1>1. PICK e : BadWrites(e)  BY MarkBadWrites
<1>2. /\ pc' = "idle" /\ asked' = asked /\ contents' = contents /\ pc = "idle"
      /\ e.what.kind = "alts" /\ image'.ext = {f \in image.ext : Apart(f, e)} \cup {e}
  BY <1>1 DEF BadWrites
<1>3. Created /\ FileOK(image)  BY <1>2, IdleCreated DEF LabelInv
<1>4. PICK old \in image.ext : old.at = e.at /\ old.n = e.n /\ old.what.kind = "alts"
  BY <1>1 DEF BadWrites
<1>5. \A f \in image.ext : f.what.kind # "alts" => f \in image'.ext
  <2> SUFFICES ASSUME NEW f \in image.ext, f.what.kind # "alts"  PROVE f \in image'.ext
    OBVIOUS
  <2>1. Apart(f, old)  BY <1>3, <1>4 DEF FileOK, RunsApart
  <2>2. Apart(f, e)  BY <1>4, <2>1 DEF Apart
  <2> QED  BY <1>2, <2>2
<1>6. \A f \in image'.ext \ image.ext : f.what.kind # "ufs"  BY <1>2
<1>7. "alts" \notin BfsKinds \cup UfsKinds  BY DEF BfsKinds, UfsKinds
<1>8. ASSUME NEW q \in ToSet(asked.slices), q.index \in DOMAIN contents
      PROVE  Keeps(image', q, contents[q.index])
  <2>1. Keeps(image, q, contents[q.index])  BY <1>8 DEF SlicesInv
  <2> QED  BY <1>3, <1>5, <1>6, <1>7, <2>1, StillKept
<1> QED  BY <1>2, <1>8 DEF SlicesInv, Idle

\* Every step keeps the slices, on a disk without a short last group.
LEMMA SlicesStep ==
  LabelInv /\ LabelInv' /\ SlicesInv /\ LastGroupsFit' /\ [Next]_vars => SlicesInv'
<1> SUFFICES ASSUME LabelInv, LabelInv', SlicesInv, LastGroupsFit', [Next]_vars
             PROVE  SlicesInv'
  OBVIOUS
<1>1. FileOK(image')  BY DEF LabelInv
<1>2. CASE FormatBfs \/ FormatUfs
  <2>1. PICK p, c : SliceWritten(p, c)  BY <1>2, BfsInSlice, UfsInSlice
  <2> QED  BY <1>1, <2>1, SliceWrittenStep
<1>3. CASE InstallBoot  BY <1>1, <1>3, BootSlices
<1>4. CASE MarkBad  BY <1>1, <1>4, BadSlices
<1>5. CASE CreateSkeleton \/ CreateLayout
  <2>1. contents' = <<>>  BY <1>5 DEF CreateSkeleton, CreateLayout, Begin
  <2>2. DOMAIN contents' = {}  BY <2>1
  <2> QED  BY <2>2 DEF SlicesInv
<1>6. CASE WriteMbr \/ WritePdinfo \/ WriteVtoc \/ WriteAlternates \/ Killed
  <2>1. ~ Idle /\ contents' = contents
    BY <1>6 DEF WriteMbr, WritePdinfo, WriteVtoc, WriteAlternates, Killed, Idle
  <2>2. DOMAIN contents' = {}  BY <2>1 DEF SlicesInv
  <2> QED  BY <2>2 DEF SlicesInv
<1>7. CASE UNCHANGED vars
  <2>1. image' = image /\ pc' = pc /\ asked' = asked /\ contents' = contents
    BY <1>7 DEF vars
  <2> QED  BY <2>1 DEF SlicesInv, Idle
<1> QED  BY <1>2, <1>3, <1>4, <1>5, <1>6, <1>7 DEF Next

----------------------------------------------------------------------------
(* Reading a slice back.                                                   *)

\* In a slice of at most 4 GiB no block number or offset of a boot file system
\* is cut to a word.
LEMMA BfsWords ==
  ASSUME NEW files \in Seq(BfsFile), NEW n \in Nat,
         StartOf(files, Len(files) + 1) <= n, n * SECTOR_SIZE <= WordMod
  PROVE  LET ds == data_start(files)
             root == ds * SECTOR_SIZE + Len(files) * BFS_LDIR_SIZE - 1
         IN  /\ AsU32(ds) = ds /\ AsU32(ds * SECTOR_SIZE) = ds * SECTOR_SIZE
             /\ AsU32(root) = root /\ AsU32(n * SECTOR_SIZE - 1) = n * SECTOR_SIZE - 1
             /\ \A k \in 1 .. Len(files) : files[k].data.bytes > 0 =>
                  LET s == StartOf(files, k)
                      end == s * SECTOR_SIZE + files[k].data.bytes - 1
                  IN  AsU32(s) = s /\ AsU32(end) = end
<1> DEFINE ds == data_start(files)
           ra == root_dir_alloc(files)
           m == Len(files)
           o == DataEnd(files)
<1>1. m \in Nat /\ ds \in Nat /\ ds > 1 /\ ra \in Nat \ {0}  BY BfsSizes
<1>2. /\ \A k \in 0 .. m : o[k] \in Nat /\ ds + ra <= o[k] /\ o[k] <= n
      /\ \A k \in 1 .. m : o[k] = o[k - 1] + allocation(files[k])
  <2>1. 0 \in 0 .. m /\ m \in 0 .. m /\ (m + 1) - 1 = m  BY <1>1
  <2>2. o[0] = ds + ra /\ (\A k \in 0 .. m : o[k] \in Nat)
        /\ \A k \in 1 .. m : o[k] = o[k - 1] + allocation(files[k])
    BY DataEndIs
  <2>3. \A k \in 0 .. m : o[0] <= o[k] /\ o[k] <= o[m]
    <3> SUFFICES ASSUME NEW k \in 0 .. m  PROVE o[0] <= o[k] /\ o[k] <= o[m]
      OBVIOUS
    <3>1. 0 <= k /\ k <= m  BY <1>1
    <3> QED  BY <2>1, <3>1, DataEndGrows
  <2>4. o[m] <= n  BY <2>1 DEF StartOf
  <2> HIDE DEF o, ds, ra, m
  <2>5. ASSUME NEW k \in 0 .. m  PROVE o[k] \in Nat /\ ds + ra <= o[k] /\ o[k] <= n
    <3>1. o[k] \in Nat /\ o[m] \in Nat  BY <1>1, <2>2
    <3> QED  BY <1>1, <2>2, <2>3, <2>4, <3>1
  <2> QED  BY <2>2, <2>5
<1>3. m * 16 <= 512 * ra
  <2>1. CASE files = <<>>
    <3>1. m = 0  BY <2>1
    <3> HIDE DEF m, ra
    <3> QED  BY <1>1, <3>1
  <2>2. CASE files # <<>>
    <3> DEFINE x == m * BFS_LDIR_SIZE
    <3>1. ra = DivCeil(x, SECTOR_SIZE)  BY <2>2 DEF root_dir_alloc
    <3>2. x \in Nat /\ SECTOR_SIZE \in Nat \ {0} /\ x = m * 16
      BY <1>1 DEF BFS_LDIR_SIZE, SECTOR_SIZE
    <3> HIDE DEF x, ra
    <3>3. x <= SECTOR_SIZE * ra  BY <3>1, <3>2, DivCeilBounds
    <3> QED  BY <3>2, <3>3 DEF SECTOR_SIZE
  <2> QED  BY <2>1, <2>2
<1>4. ASSUME NEW k \in 1 .. m
      PROVE  /\ k - 1 \in 0 .. m /\ k \in 0 .. m /\ files[k].data.bytes \in Nat
             /\ allocation(files[k]) \in Nat
             /\ files[k].data.bytes <= 512 * allocation(files[k])
  <2> DEFINE b == files[k].data.bytes
  <2>1. b \in Nat /\ allocation(files[k]) \in Nat
        /\ allocation(files[k]) = DivCeil(b, SECTOR_SIZE)
    BY BfsSizes DEF allocation
  <2>2. SECTOR_SIZE \in Nat \ {0}  BY DEF SECTOR_SIZE
  <2> HIDE DEF b
  <2>3. b <= SECTOR_SIZE * allocation(files[k])  BY <2>1, <2>2, DivCeilBounds
  <2> QED  BY <1>1, <2>1, <2>3 DEF SECTOR_SIZE, b
<1>5. n * 512 <= WordMod /\ WordMod \in Nat  BY WordAssumption DEF SECTOR_SIZE
<1> HIDE DEF ds, ra, m, o
<1>6. 0 \in 0 .. m /\ ds + ra <= n  BY <1>1, <1>2
<1>7. /\ AsU32(ds) = ds /\ AsU32(ds * 512) = ds * 512
      /\ AsU32(ds * 512 + m * 16 - 1) = ds * 512 + m * 16 - 1
      /\ AsU32(n * 512 - 1) = n * 512 - 1
  <2>1. /\ ds < WordMod /\ ds * 512 \in Nat /\ ds * 512 < WordMod
        /\ ds * 512 + m * 16 - 1 \in Nat /\ ds * 512 + m * 16 - 1 < WordMod
        /\ n * 512 - 1 \in Nat /\ n * 512 - 1 < WordMod
    BY <1>1, <1>3, <1>5, <1>6
  <2> QED  BY <1>1, <2>1, UnsignedWord
<1>8. ASSUME NEW k \in 1 .. m, files[k].data.bytes > 0
      PROVE  LET s == StartOf(files, k)
                 end == s * 512 + files[k].data.bytes - 1
             IN  AsU32(s) = s /\ AsU32(end) = end
  <2> DEFINE s == o[k - 1]
             b == files[k].data.bytes
             a == allocation(files[k])
  <2>1. s \in Nat /\ b \in Nat /\ a \in Nat /\ b <= 512 * a /\ s + a <= n
    BY <1>2, <1>4
  <2>2. b > 0  BY <1>8
  <2>3. StartOf(files, k) = s  BY DEF StartOf, o
  <2> HIDE DEF s, b, a
  <2>4. /\ s < WordMod /\ s * 512 + b - 1 \in Nat /\ s * 512 + b - 1 < WordMod
    BY <1>5, <2>1, <2>2
  <2>5. AsU32(s) = s /\ AsU32(s * 512 + b - 1) = s * 512 + b - 1
    BY <2>1, <2>4, UnsignedWord
  <2> QED  BY <2>3, <2>5 DEF b
<1> QED  BY <1>7, <1>8 DEF SECTOR_SIZE, BFS_LDIR_SIZE, ds, m

\* The structures of a boot file system are read where they were written.
LEMMA BfsPartsRead ==
  ASSUME FileOK(image), NEW p, NEW files, BfsKept(image, p, files)
  PROVE  /\ WhatAt(image, p.start) =
              [kind |-> "bfs", data_start |-> AsU32(data_start(files) * SECTOR_SIZE),
               data_end |-> AsU32(p.count * SECTOR_SIZE - 1)]
         /\ WhatAt(image, p.start + 1) = [kind |-> "dirents", slots |-> InodeTable(files)]
         /\ WhatAt(image, p.start + data_start(files)) =
              [kind |-> "ldir", entries |-> RootDirectory(files)]
         /\ \A i \in DOMAIN files : files[i].data.bytes > 0 =>
              WhatAt(image, p.start + StartOf(files, i))
                = [kind |-> "file", data |-> files[i].data]
<1> DEFINE ds == data_start(files)
           sup == [kind |-> "bfs", data_start |-> AsU32(ds * SECTOR_SIZE),
                   data_end |-> AsU32(p.count * SECTOR_SIZE - 1)]
           tab == [kind |-> "dirents", slots |-> InodeTable(files)]
           dir == [kind |-> "ldir", entries |-> RootDirectory(files)]
           fil(i) == [kind |-> "file", data |-> files[i].data]
           E(at, n, what) == Extent(at, n, what)
<1>1. \A at, n, what : E(at, n, what) \in image.ext => WhatAt(image, at) = what
  <2> SUFFICES ASSUME NEW at, NEW n, NEW what, E(at, n, what) \in image.ext
               PROVE  WhatAt(image, at) = what
    OBVIOUS
  <2> DEFINE e == E(at, n, what)
  <2>1. e.at = at /\ e.what = what  BY DEF Extent
  <2> HIDE DEF e, E
  <2>2. e \in image.ext  BY DEF e
  <2>3. WhatAt(image, e.at) = e.what  BY <2>2, ReadIs
  <2> QED  BY <2>1, <2>3
<1>2. Runs(p.start, p.count, files) \subseteq image.ext  BY DEF BfsKept
<1>3. Runs(p.start, p.count, files)
        = {E(p.start, 1, sup), E(p.start + 1, ds - 1, tab),
           E(p.start + ds, root_dir_alloc(files), dir)}
          \cup {E(p.start + StartOf(files, i), allocation(files[i]), fil(i)) :
                  i \in {k \in DOMAIN files : files[k].data.bytes > 0}}
  BY DEF Runs
<1> HIDE DEF E, sup, tab, dir, fil
<1>4. /\ WhatAt(image, p.start) = sup /\ WhatAt(image, p.start + 1) = tab
      /\ WhatAt(image, p.start + ds) = dir
  BY <1>1, <1>2, <1>3
<1>5. ASSUME NEW i \in DOMAIN files, files[i].data.bytes > 0
      PROVE  WhatAt(image, p.start + StartOf(files, i)) = fil(i)
  <2>1. E(p.start + StartOf(files, i), allocation(files[i]), fil(i)) \in image.ext
    BY <1>2, <1>3, <1>5
  <2> QED  BY <1>1, <2>1
<1> QED  BY <1>4, <1>5 DEF sup, tab, dir, fil

\* read_inode finds the record of every file and of the root.
LEMMA InodeRead ==
  ASSUME FileOK(image), NEW p, NEW files, BfsKept(image, p, files),
         NEW k \in 0 .. Len(files)
  PROVE  /\ bfs_read_inode(image, p.start, BFS_ROOT_INODE + k) = InodeTable(files)[k]
         /\ InodeTable(files)[k].ino = BFS_ROOT_INODE + k
<1> DEFINE table == WhatAt(image, p.start + 1)
           ino == BFS_ROOT_INODE + k
<1>1. files \in Seq(BfsFile)  BY DEF BfsKept
<1>2. Len(files) \in Nat  BY <1>1, BfsSizes
<1>3. table.kind = "dirents" /\ table.slots = InodeTable(files)
  <2>1. WhatAt(image, p.start + 1) = [kind |-> "dirents", slots |-> InodeTable(files)]
    BY BfsPartsRead
  <2> QED  BY <2>1
<1>4. k \in Int /\ ino - BFS_ROOT_INODE = k  BY <1>2 DEF BFS_ROOT_INODE
<1>5. k \in DOMAIN InodeTable(files)  BY DEF InodeTable
<1>6. InodeTable(files)[k].ino = ino
  <2>1. CASE k = 0
    <3>1. InodeTable(files)[k].ino = BFS_ROOT_INODE  BY <2>1 DEF InodeTable
    <3> QED  BY <2>1, <3>1 DEF BFS_ROOT_INODE
  <2>2. CASE k # 0
    <3>1. InodeTable(files)[k] = FileDirent(files, k)  BY <2>2 DEF InodeTable
    <3>2. FileDirent(files, k).ino = BFS_ROOT_INODE + k  BY DEF FileDirent
    <3> QED  BY <3>1, <3>2
  <2> QED  BY <2>1, <2>2
<1>7. bfs_read_inode(image, p.start, ino) =
        IF table.kind # "dirents" THEN NoInode
        ELSE IF ino - BFS_ROOT_INODE \notin DOMAIN table.slots THEN NoInode
        ELSE IF table.slots[ino - BFS_ROOT_INODE].ino # ino THEN NoInode
        ELSE table.slots[ino - BFS_ROOT_INODE]
  BY DEF bfs_read_inode
<1> HIDE DEF table, ino
<1>8. bfs_read_inode(image, p.start, ino) = InodeTable(files)[k]
  BY <1>3, <1>4, <1>5, <1>6, <1>7
<1> QED  BY <1>6, <1>8 DEF ino

\* The size of a file is the one it was given.
LEMMA FileRecord ==
  ASSUME NEW files \in Seq(BfsFile), NEW k \in 1 .. Len(files), NEW n \in Nat,
         StartOf(files, Len(files) + 1) <= n, n * SECTOR_SIZE <= WordMod
  PROVE  LET d == InodeTable(files)[k]
         IN  /\ inode_size(d) = files[k].data.bytes
             /\ files[k].data.bytes > 0 => d.sblock = StartOf(files, k)
<1> DEFINE d == InodeTable(files)[k]
           b == files[k].data.bytes
           s == StartOf(files, k)
<1>1. Len(files) \in Nat /\ b \in Nat /\ data_start(files) \in Nat
      /\ data_start(files) > 1 /\ root_dir_alloc(files) \in Nat
  BY BfsSizes
<1>2. s \in Nat /\ s > 0
  <2>1. k - 1 \in 0 .. Len(files) /\ 0 \in 0 .. Len(files) /\ 0 <= k - 1  BY <1>1
  <2>2. DataEnd(files)[0] <= DataEnd(files)[k - 1]  BY <2>1, DataEndGrows
  <2>3. /\ DataEnd(files)[0] = data_start(files) + root_dir_alloc(files)
        /\ DataEnd(files)[k - 1] \in Nat
    BY <2>1, DataEndIs
  <2> QED  BY <1>1, <2>2, <2>3 DEF StartOf
<1>3. d = FileDirent(files, k)
  <2>1. k \in 0 .. Len(files) /\ k # 0  BY <1>1
  <2> QED  BY <2>1 DEF InodeTable
<1>4. FileDirent(files, k) =
        IF b = 0 THEN [ino |-> BFS_ROOT_INODE + k, sblock |-> 0, eoffset |-> 0]
        ELSE [ino |-> BFS_ROOT_INODE + k, sblock |-> s,
              eoffset |-> s * SECTOR_SIZE + b - 1]
  <2> DEFINE end == s * SECTOR_SIZE + b - 1
  <2>1. b > 0 => AsU32(s) = s /\ AsU32(end) = end  BY BfsWords
  <2>2. FileDirent(files, k) =
          IF b = 0 THEN [ino |-> BFS_ROOT_INODE + k, sblock |-> 0, eoffset |-> 0]
          ELSE [ino |-> BFS_ROOT_INODE + k, sblock |-> AsU32(s), eoffset |-> AsU32(end)]
    BY DEF FileDirent
  <2>3. b # 0 => b > 0  BY <1>1
  <2> HIDE DEF b, s, end
  <2>4. b # 0 => AsU32(s) = s /\ AsU32(end) = end  BY <2>1, <2>3
  <2> QED  BY <2>2, <2>4 DEF end
<1>5. inode_size(d) = IF d.sblock = 0 \/ d.eoffset < d.sblock * SECTOR_SIZE THEN 0
                      ELSE d.eoffset - d.sblock * SECTOR_SIZE + 1
  BY DEF inode_size
<1> HIDE DEF d, b, s
<1>6. CASE b = 0
  <2>1. d.sblock = 0  BY <1>3, <1>4, <1>6
  <2> QED  BY <1>5, <1>6, <2>1 DEF d, b
<1>7. CASE b # 0
  <2>1. d.sblock = s /\ d.eoffset = s * SECTOR_SIZE + b - 1  BY <1>3, <1>4, <1>7
  <2>2. s * SECTOR_SIZE \in Nat  BY <1>2 DEF SECTOR_SIZE
  <2> DEFINE x == s * SECTOR_SIZE
  <2>3. d.sblock * SECTOR_SIZE = x /\ d.eoffset = x + b - 1 /\ x \in Nat  BY <2>1, <2>2
  <2> HIDE DEF x
  <2>4. inode_size(d) = b  BY <1>1, <1>2, <1>5, <1>7, <2>1, <2>3
  <2> QED  BY <2>1, <2>4 DEF d, b, s
<1> QED  BY <1>6, <1>7

\* list_root returns the files in order.
LEMMA RootListed ==
  ASSUME FileOK(image), NEW p, NEW files, BfsKept(image, p, files),
         p.count \in Nat, OffsetsFit(p)
  PROVE  LET listed == bfs_list_root(image, p.start)
         IN  /\ DOMAIN listed = 1 .. Len(files)
             /\ \A i \in 1 .. Len(files) :
                  /\ listed[i].name = files[i].name
                  /\ listed[i].inode = BFS_ROOT_INODE + i
<1> DEFINE root == bfs_read_inode(image, p.start, BFS_ROOT_INODE)
           dir == WhatAt(image, p.start + root.sblock)
           m == Len(files)
           ds == data_start(files)
           count == inode_size(root) \div BFS_LDIR_SIZE
           top == IF count < Len(dir.entries) THEN count ELSE Len(dir.entries)
           sized(e) == [name |-> e.name, inode |-> e.ino,
                        size |-> inode_size(bfs_read_inode(image, p.start, e.ino))]
<1>1. files \in Seq(BfsFile)  BY DEF BfsKept
<1>2. m \in Nat /\ DOMAIN files = 1 .. m /\ ds \in Nat /\ ds > 1  BY <1>1, BfsSizes
<1>3. root = InodeTable(files)[0] /\ InodeTable(files)[0].ino = 2
  <2>1. 0 \in 0 .. Len(files) /\ BFS_ROOT_INODE + 0 = BFS_ROOT_INODE
    BY <1>2 DEF BFS_ROOT_INODE
  <2>2. /\ bfs_read_inode(image, p.start, BFS_ROOT_INODE + 0) = InodeTable(files)[0]
        /\ InodeTable(files)[0].ino = BFS_ROOT_INODE + 0
    BY <2>1, InodeRead
  <2> QED  BY <2>1, <2>2 DEF BFS_ROOT_INODE
<1>4. InodeTable(files)[0] =
        [ino |-> BFS_ROOT_INODE, sblock |-> ds,
         eoffset |-> ds * SECTOR_SIZE + m * BFS_LDIR_SIZE - 1]
  <2> DEFINE end == ds * SECTOR_SIZE + m * BFS_LDIR_SIZE - 1
  <2>1. StartOf(files, m + 1) <= p.count /\ p.count * SECTOR_SIZE <= WordMod
    BY DEF BfsKept, OffsetsFit
  <2>2. AsU32(ds) = ds /\ AsU32(end) = end  BY <1>1, <2>1, BfsWords
  <2>3. 0 \in 0 .. m  BY <1>2
  <2>4. InodeTable(files)[0] =
          [ino |-> BFS_ROOT_INODE, sblock |-> AsU32(ds), eoffset |-> AsU32(end)]
    BY <2>3 DEF InodeTable
  <2> HIDE DEF end, ds
  <2> QED  BY <2>2, <2>4 DEF end
<1>5. root.sblock = ds /\ root.eoffset = ds * 512 + m * 16 - 1
  BY <1>3, <1>4 DEF SECTOR_SIZE, BFS_LDIR_SIZE
<1>6. root # NoInode  BY <1>3 DEF NoInode
<1>7. dir.kind = "ldir" /\ dir.entries = RootDirectory(files)
  <2>1. WhatAt(image, p.start + data_start(files)) =
          [kind |-> "ldir", entries |-> RootDirectory(files)]
    BY BfsPartsRead
  <2> QED  BY <1>5, <2>1
<1>8. bfs_list_root(image, p.start) =
        IF root = NoInode \/ dir.kind # "ldir" THEN <<>>
        ELSE [i \in 1 .. top |-> sized(dir.entries[i])]
  BY DEF bfs_list_root
<1>9. inode_size(root) = IF root.sblock = 0 \/ root.eoffset < root.sblock * 512 THEN 0
                         ELSE root.eoffset - root.sblock * 512 + 1
  BY DEF inode_size, SECTOR_SIZE
<1> HIDE DEF root, dir, m, ds
<1>10. inode_size(root) = m * 16  BY <1>2, <1>5, <1>9
<1>11. count = m  BY <1>2, <1>10 DEF BFS_LDIR_SIZE
<1>12. Len(RootDirectory(files)) = m
  <2> DEFINE t == RootDirectory(files)
             S == {t[i] : i \in 1 .. m}
  <2>1. t = [i \in 1 .. m |-> t[i]]  BY <1>2 DEF RootDirectory
  <2> HIDE DEF t
  <2>2. t \in [1 .. m -> S]  BY <2>1
  <2> HIDE DEF S
  <2>3. t \in Seq(S)  BY <1>2, <2>2
  <2>4. Len(t) \in Nat /\ DOMAIN t = 1 .. Len(t)  BY <2>3, LenProperties
  <2>5. 1 .. Len(t) = 1 .. m  BY <2>1, <2>4
  <2>6. Len(t) = m
    <3> DEFINE n == Len(t)
    <3>1. n \in Nat /\ m \in Nat /\ 1 .. n = 1 .. m  BY <1>2, <2>4, <2>5
    <3> HIDE DEF n
    <3>2. n # 0 => n \in 1 .. n  BY <3>1
    <3>3. m # 0 => m \in 1 .. m  BY <3>1
    <3>4. n # 0 => n \in 1 .. m  BY <3>1, <3>2
    <3>5. m # 0 => m \in 1 .. n  BY <3>1, <3>3
    <3>6. n = m
      <4>1. n \in Nat /\ m \in Nat  BY <3>1
      <4> QED  BY <3>4, <3>5, <4>1
    <3> QED  BY <3>6 DEF n
  <2> QED  BY <2>6 DEF t
<1>13. top = m
  <2> HIDE DEF count
  <2> QED  BY <1>2, <1>7, <1>11, <1>12
<1> DEFINE listed == bfs_list_root(image, p.start)
<1>14. listed = [i \in 1 .. m |-> sized(RootDirectory(files)[i])]
  <2> HIDE DEF top, sized
  <2> QED  BY <1>6, <1>7, <1>8, <1>13
<1>15. \A i \in 1 .. m : RootDirectory(files)[i]
                           = [ino |-> BFS_ROOT_INODE + i, name |-> files[i].name]
  BY <1>2 DEF RootDirectory
<1> HIDE DEF listed
<1>16. DOMAIN listed = 1 .. m  BY <1>14
<1>17. ASSUME NEW i \in 1 .. m
       PROVE  listed[i].name = files[i].name /\ listed[i].inode = BFS_ROOT_INODE + i
  <2> DEFINE x == RootDirectory(files)[i]
  <2>1. listed[i] = sized(x)  BY <1>14
  <2>2. x = [ino |-> BFS_ROOT_INODE + i, name |-> files[i].name]  BY <1>15
  <2> HIDE DEF x
  <2>3. x.ino = BFS_ROOT_INODE + i /\ x.name = files[i].name  BY <2>2
  <2>4. sized(x).name = x.name /\ sized(x).inode = x.ino  OBVIOUS
  <2> QED  BY <2>1, <2>3, <2>4
<1> QED  BY <1>16, <1>17 DEF listed, m

\* probe_slice takes the slice for a boot file system: a UFS superblock left
\* in it is found only when the slice is large enough for one, and then it
\* was cleared.
LEMMA BfsProbed ==
  ASSUME FileOK(image), NEW p, NEW files, BfsKept(image, p, files),
         p.start \in Nat, p.count \in Nat, OffsetsFit(p), p.start + p.count <= image.len
  PROVE  probe_slice(image, p) = "bfs"
<1> DEFINE end == p.start + p.count
           super == WhatAt(image, p.start)
           ds == data_start(files)
           m == Len(files)
<1>1. /\ files \in Seq(BfsFile) /\ p.count > 0 /\ StartOf(files, m + 1) <= p.count
      /\ \A e \in image.ext : e.what.kind = "ufs" /\ e.at = p.start + 16 => p.count < 32
  BY DEF BfsKept
<1>2. image.len \in Nat  BY DEF FileOK
<1>3. m \in Nat /\ ds \in Nat /\ ds > 1 /\ root_dir_alloc(files) \in Nat \ {0}
  BY <1>1, BfsSizes
<1>4. ds < p.count
  <2>1. m \in 0 .. m /\ 0 \in 0 .. m /\ 0 <= m /\ (m + 1) - 1 = m  BY <1>3
  <2>2. DataEnd(files)[0] <= DataEnd(files)[m]  BY <1>1, <2>1, DataEndGrows
  <2>3. /\ DataEnd(files)[0] = ds + root_dir_alloc(files)
        /\ DataEnd(files)[m] \in Nat
    BY <1>1, <2>1, DataEndIs
  <2>4. DataEnd(files)[m] <= p.count  BY <1>1, <2>1 DEF StartOf
  <2> QED  BY <1>3, <2>2, <2>3, <2>4
<1>5. super = [kind |-> "bfs", data_start |-> ds * SECTOR_SIZE,
               data_end |-> p.count * SECTOR_SIZE - 1]
  <2> DEFINE x == ds * SECTOR_SIZE   y == p.count * SECTOR_SIZE - 1
  <2>1. super = [kind |-> "bfs", data_start |-> AsU32(x), data_end |-> AsU32(y)]
    BY BfsPartsRead
  <2>2. AsU32(x) = x /\ AsU32(y) = y  BY <1>1, BfsWords DEF OffsetsFit
  <2> HIDE DEF x, y
  <2> QED  BY <2>1, <2>2 DEF x, y
<1> HIDE DEF super, ds, m
<1>6. /\ super.kind = "bfs" /\ super.data_start = ds * 512
      /\ super.data_end = p.count * 512 - 1
  BY <1>5 DEF SECTOR_SIZE
<1>7. detect_at_start(image, p.start, end)
  <2>1. super.data_end >= super.data_start  BY <1>3, <1>4, <1>6
  <2>2. p.start < end /\ super.data_start >= SECTOR_SIZE
    BY <1>1, <1>3, <1>6 DEF SECTOR_SIZE
  <2> QED  BY <1>6, <2>1, <2>2 DEF detect_at_start, super
<1>8. ~ detect_ufs_at_start(image, p.start, end)
  <2> SUFFICES ASSUME detect_ufs_at_start(image, p.start, end)  PROVE FALSE  OBVIOUS
  <2>1. p.start + 16 + 16 <= end /\ WhatAt(image, p.start + 16).kind = "ufs"
    BY DEF detect_ufs_at_start, UFS_SB_SECTOR, UFS_SB_SECTORS
  <2>2. PICK e \in image.ext : e.at = p.start + 16 /\ e.what = WhatAt(image, p.start + 16)
    BY <2>1, ReadFrom
  <2>3. p.count < 32  BY <1>1, <2>1, <2>2
  <2> QED  BY <2>1, <2>3
<1>9. (IF end < image.len THEN end ELSE image.len) = end /\ ~ (p.start >= end)
  BY <1>1, <1>2
<1>10. AnyDetector(image, p.start, end) = "bfs"  BY <1>7, <1>8 DEF AnyDetector
<1> QED  BY <1>9, <1>10 DEF probe_slice

\* read_file returns what a file was given.
LEMMA FileReadBack ==
  ASSUME FileOK(image), NEW p, NEW files, BfsKept(image, p, files),
         p.count \in Nat, OffsetsFit(p),
         NEW k \in 1 .. Len(files)
  PROVE  read_file(image, p.start, files[k].name) = files[k].data
<1> DEFINE name == files[k].name
           data == files[k].data
           listed == bfs_list_root(image, p.start)
           named == {i \in DOMAIN listed : listed[i].name = name}
           d == InodeTable(files)[k]
           m == Len(files)
<1>1. files \in Seq(BfsFile)  BY DEF BfsKept
<1>2. /\ m \in Nat /\ DOMAIN files = 1 .. m /\ data.bytes \in Nat
  BY <1>1, BfsSizes
<1>3. \A i, j \in 1 .. m : files[i].name = files[j].name => i = j
  BY <1>2 DEF BfsKept, Refused
<1>4. /\ DOMAIN listed = 1 .. m
      /\ \A i \in 1 .. m : /\ listed[i].name = files[i].name
                           /\ listed[i].inode = BFS_ROOT_INODE + i
  BY RootListed
<1>5. read_file(image, p.start, name) =
        IF named = {} THEN NoData
        ELSE LET dirent == bfs_read_inode(image, p.start, listed[Min(named)].inode)
             IN  BytesAt(image, p.start + dirent.sblock, inode_size(dirent))
  BY DEF read_file
<1>6. bfs_read_inode(image, p.start, BFS_ROOT_INODE + k) = d
  <2>1. k \in 0 .. Len(files)  BY <1>2
  <2> QED  BY <2>1, InodeRead
<1>7. inode_size(d) = data.bytes /\ (data.bytes > 0 => d.sblock = StartOf(files, k))
  <2>1. StartOf(files, Len(files) + 1) <= p.count /\ p.count * SECTOR_SIZE <= WordMod
    BY DEF BfsKept, OffsetsFit
  <2> QED  BY <1>1, <2>1, FileRecord
<1> HIDE DEF listed, m
<1>8. k \in named /\ named \subseteq {k} /\ named \subseteq Nat
  BY <1>2, <1>3, <1>4 DEF m
<1> HIDE DEF named
<1>9. Min(named) = k
  <2>1. \A y \in named : k <= y  BY <1>8
  <2> QED  BY <1>8, <2>1, MinIs
<1>10. listed[Min(named)].inode = BFS_ROOT_INODE + k  BY <1>4, <1>9 DEF m
<1>11. read_file(image, p.start, name) = BytesAt(image, p.start + d.sblock, data.bytes)
  BY <1>5, <1>6, <1>7, <1>8, <1>10
<1> HIDE DEF d
<1>12. CASE data.bytes = 0
  <2>1. files[k] \in BfsFile  BY <1>1, <1>2 DEF m
  <2>2. data = EmptyData  BY <1>12, <2>1 DEF BfsFile, FileData
  <2>3. BytesAt(image, p.start + d.sblock, data.bytes) = EmptyData
    BY <1>12 DEF BytesAt
  <2> QED  BY <1>11, <2>2, <2>3
<1>13. CASE data.bytes > 0
  <2>1. WhatAt(image, p.start + d.sblock) = [kind |-> "file", data |-> data]
    <3>1. k \in DOMAIN files  BY <1>2 DEF m
    <3>2. WhatAt(image, p.start + StartOf(files, k))
            = [kind |-> "file", data |-> files[k].data]
      BY <1>13, <3>1, BfsPartsRead
    <3> QED  BY <1>7, <1>13, <3>2
  <2> DEFINE run == WhatAt(image, p.start + d.sblock)
  <2>2. run.kind = "file" /\ run.data = data
    <3> HIDE DEF data
    <3> QED  BY <2>1
  <2>3. data.bytes # 0  BY <1>13
  <2>4. BytesAt(image, p.start + d.sblock, data.bytes) = data
    <3> HIDE DEF run, data
    <3>1. BytesAt(image, p.start + d.sblock, data.bytes) =
            IF data.bytes = 0 THEN EmptyData
            ELSE IF run.kind # "file" THEN Garbage
            ELSE IF run.data.bytes # data.bytes THEN Garbage ELSE run.data
      BY DEF BytesAt, run
    <3> QED  BY <2>2, <2>3, <3>1
  <2> QED  BY <1>11, <2>4
<1> QED  BY <1>2, <1>12, <1>13

\* A kept boot file system reads back.
LEMMA BfsReadsBack ==
  ASSUME FileOK(image), NEW p, NEW files, BfsKept(image, p, files),
         p.start \in Nat, p.count \in Nat, OffsetsFit(p), p.start + p.count <= image.len
  PROVE  ReadsBack(p, files)
<1> DEFINE listed == bfs_list_root(image, p.start)
<1>1. files \in Seq(BfsFile)  BY DEF BfsKept
<1>2. DOMAIN files = 1 .. Len(files)  BY <1>1, BfsSizes
<1>3. probe_slice(image, p) = "bfs"  BY BfsProbed
<1>4. /\ DOMAIN listed = 1 .. Len(files)
      /\ \A i \in 1 .. Len(files) : listed[i].name = files[i].name
  BY RootListed
<1> HIDE DEF listed
<1>5. [i \in DOMAIN listed |-> listed[i].name] = [i \in DOMAIN files |-> files[i].name]
  BY <1>2, <1>4
<1>6. ASSUME NEW f \in ToSet(files)
      PROVE  read_file(image, p.start, f.name) = f.data
  <2>1. PICK k \in DOMAIN files : files[k] = f  BY DEF ToSet
  <2>2. k \in 1 .. Len(files)  BY <1>2
  <2>3. read_file(image, p.start, files[k].name) = files[k].data  BY <2>2, FileReadBack
  <2> QED  BY <2>1, <2>3
<1> QED  BY <1>3, <1>5, <1>6 DEF ReadsBack, listed

\* A kept UFS is found in its slice, whatever end the search is given, and
\* its root holds the two names.
LEMMA UfsFound ==
  ASSUME FileOK(image), NEW p, UfsKept(image, p),
         p.start \in Nat, p.count \in Nat, p.start + p.count <= image.len
  PROVE  /\ \A end \in Nat : p.start + p.count <= end =>
              detect_ufs_at_start(image, p.start, end)
         /\ probe_slice(image, p) = "ufs"
         /\ list_root(image, p.start) = {".", ".."}
<1>1. PICK sb : /\ sb.kind = "ufs" /\ LayoutNumbers(sb)
                /\ sb.dsize = p.count /\ p.count > 48
                /\ RootParts(p.start, sb) \subseteq image.ext
  BY DEF UfsKept
<1> DEFINE at == p.start + UFS_SB_SECTOR
           root == [kind |-> "rootinode", db |-> sb.dblkno]
           block == [kind |-> "dirblock", names |-> {".", ".."}]
           E(a, n, what) == Extent(a, n, what)
<1>2. \A a, n, what : E(a, n, what) \in image.ext => WhatAt(image, a) = what
  <2> SUFFICES ASSUME NEW a, NEW n, NEW what, E(a, n, what) \in image.ext
               PROVE  WhatAt(image, a) = what
    OBVIOUS
  <2> DEFINE e == E(a, n, what)
  <2>1. e.at = a /\ e.what = what  BY DEF Extent
  <2> HIDE DEF e, E
  <2>2. e \in image.ext  BY DEF e
  <2>3. WhatAt(image, e.at) = e.what  BY <2>2, ReadIs
  <2> QED  BY <2>1, <2>3
<1>3. RootParts(p.start, sb) =
        {E(at, 3, sb)} \cup
        {E(p.start + sb.iblkno, 1, root), E(p.start + sb.dblkno, 1, block),
         E(p.start + sb.csaddr, sb.cssize, [kind |-> "summary", ncg |-> sb.ncg])}
  BY DEF RootParts, SuperblockRun, RootRuns
<1> HIDE DEF E, root, block
<1>4. /\ WhatAt(image, at) = sb /\ WhatAt(image, p.start + sb.iblkno) = root
      /\ WhatAt(image, p.start + sb.dblkno) = block
  BY <1>1, <1>2, <1>3
<1>5. root.kind = "rootinode" /\ root.db = sb.dblkno  BY DEF root
<1>6. block.kind = "dirblock" /\ block.names = {".", ".."}  BY DEF block
<1>7. list_root(image, p.start) = block.names
  BY <1>4, <1>5, <1>6 DEF list_root, at
<1>8. ASSUME NEW end \in Nat, p.start + p.count <= end
      PROVE  detect_ufs_at_start(image, p.start, end)
  BY <1>1, <1>4, <1>8 DEF detect_ufs_at_start, UFS_SB_SECTOR, UFS_SB_SECTORS, at
<1> DEFINE end == p.start + p.count
<1>9. end \in Nat /\ image.len \in Nat  BY DEF FileOK
<1>10. AnyDetector(image, p.start, end) = "ufs"  BY <1>8, <1>9 DEF AnyDetector
<1>11. (IF end < image.len THEN end ELSE image.len) = end /\ ~ (p.start >= end)
  BY <1>1, <1>9
<1>12. probe_slice(image, p) = "ufs"  BY <1>10, <1>11 DEF probe_slice
<1> QED  BY <1>6, <1>7, <1>8, <1>12

\* A sane VTOC that is reported holds the request's slices at their indices.
LEMMA ReportedSlices ==
  ASSUME LabelInv, Created,
         HasVtoc(inspect_disk_image(image)),
         inspect_disk_image(image).pdinfo.vtoc.sane
  PROVE  LET report == inspect_disk_image(image)
             parts == report.pdinfo.vtoc.partitions
         IN  /\ report.active = Partition(asked) /\ report.pdinfo = WithVtoc(asked)
             /\ \A i \in 0 .. 15 : parts[i].count > 0 => parts[i] \in ToSet(asked.slices)
             /\ \A p \in ToSet(asked.slices) : parts[p.index] = p
<1> DEFINE report == inspect_disk_image(image)
<1>1. /\ asked \in RequestType /\ Valid(asked) /\ Narrow(asked) /\ FileOK(image)
      /\ \A e \in image.ext : Own(e, asked)
  BY DEF Created, LabelInv
<1>2. HasMbr(image, asked)  BY <1>1, InspectedNothing
<1>3. /\ report.pdinfo \in {build_pdinfo(asked), WithVtoc(asked)}
      /\ report.active = Partition(asked)
  BY <1>1, <1>2, InspectedMbr DEF HasVtoc
<1>4. report.pdinfo.vtoc.sane  OBVIOUS
<1> HIDE DEF report
<1>5. report.pdinfo # build_pdinfo(asked)
  <2> SUFFICES ASSUME report.pdinfo = build_pdinfo(asked)  PROVE FALSE  OBVIOUS
  <2>1. build_pdinfo(asked).vtoc.sane = FALSE  BY DEF build_pdinfo, EmptyVtoc
  <2> QED  BY <1>4, <2>1
<1>6. report.pdinfo = WithVtoc(asked)  BY <1>3, <1>5
<1>7. WithVtoc(asked).vtoc = build_vtoc(asked.slices)  BY DEF WithVtoc, build_pdinfo
<1>8. report.pdinfo.vtoc.partitions = build_vtoc(asked.slices).partitions
  BY <1>6, <1>7
<1> QED  BY <1>1, <1>3, <1>6, <1>8, VtocEntries DEF report

\* A kept UFS is the one its index selects, and autodetection finds it or a
\* slice before it.
LEMMA UfsResolves ==
  ASSUME LabelInv, Created, NEW p \in ToSet(asked.slices), UfsKept(image, p)
  PROVE  Resolves(p)
<1> DEFINE report == inspect_disk_image(image)
           parts == report.pdinfo.vtoc.partitions
           sane == HasVtoc(report) /\ report.pdinfo.vtoc.sane
           S == ToSet(asked.slices)
<1>1. /\ asked \in RequestType /\ Valid(asked) /\ FileOK(image)
      /\ total_sectors(asked.geometry) <= image.len
  BY DEF Created, LabelInv
<1>2. image.len \in Nat /\ total_sectors(asked.geometry) \in Nat
  BY <1>1, RequestFacts DEF FileOK
<1>3. \A q \in S : q.index \in 0 .. 15 /\ q.start \in Nat /\ q.count \in Nat
                     /\ q.start + q.count <= total_sectors(asked.geometry)
  BY <1>1, RequestFacts
<1>4. p.index \in 0 .. 15 /\ p.start \in Nat /\ p.count \in Nat
      /\ p.start + p.count <= image.len
  BY <1>1, <1>2, <1>3
<1>5. /\ \A end \in Nat : p.start + p.count <= end =>
           detect_ufs_at_start(image, p.start, end)
      /\ probe_slice(image, p) = "ufs"
      /\ list_root(image, p.start) = {".", ".."}
  BY <1>1, <1>4, UfsFound
<1>6. p.count > 48  BY DEF UfsKept
<1>7. ASSUME sane
      PROVE  /\ \A i \in 0 .. 15 : parts[i].count > 0 => parts[i] \in S
             /\ \A q \in S : parts[q.index] = q
  BY <1>7, ReportedSlices
<1> HIDE DEF S
<1>8. ASSUME sane, NEW sel, sel.index = p.index
      PROVE  resolve_slice_ufs(image, sel) = p.start
  <2>1. get_vtoc_partition_by_selector(report, sel) = p
    <3>1. parts[p.index] = p  BY <1>7, <1>8 DEF S
    <3> QED  BY <1>4, <1>8, <3>1 DEF get_vtoc_partition_by_selector
  <2>2. p # NoSlice
    <3>1. NoSlice.index = 16  BY DEF NoSlice, Slice
    <3> QED  BY <1>4, <3>1
  <2>3. detect_ufs_at_start(image, p.start, image.len)  BY <1>2, <1>4, <1>5
  <2>4. Clamped(p) = p  BY StoredIs DEF Created
  <2> HIDE DEF report
  <2> QED  BY <2>1, <2>2, <2>3, <2>4 DEF resolve_slice_ufs, report
<1>9. ASSUME sane, p.tag # 0
      PROVE  autodetect_ufs(image) # -1
  <2> DEFINE end(q) == Lesser(q.start + q.count, image.len)
             ufs == {q \in Probed(report) :
                      q.start >= 0 /\ detect_ufs_at_start(image, q.start, end(q))}
             least == CHOOSE q \in ufs : \A r \in ufs : q.index <= r.index
  <2>1. Probed(report) = {q \in {parts[i] : i \in 0 .. 15} : q.tag # 0 /\ q.count > 0}
    BY <1>9 DEF Probed
  <2>2. \A q \in ufs : q \in S  BY <1>7, <1>9, <2>1
  <2>3. \A q \in ufs : q.index \in Nat /\ q.start \in Nat  BY <1>3, <2>2
  <2>4. p \in ufs
    <3>1. parts[p.index] = p  BY <1>7, <1>9 DEF S
    <3>2. p \in Probed(report)  BY <1>4, <1>6, <1>9, <2>1, <3>1
    <3>3. end(p) \in Nat /\ p.start + p.count <= end(p)
      BY <1>2, <1>4 DEF Lesser
    <3> HIDE DEF end
    <3>4. detect_ufs_at_start(image, p.start, end(p))  BY <1>5, <3>3
    <3> QED  BY <1>4, <3>2, <3>4
  <2> HIDE DEF ufs
  <2>5. \E q \in ufs : \A r \in ufs : q.index <= r.index
    <3> DEFINE I == {q.index : q \in ufs}
    <3>1. I \subseteq Nat /\ I # {}  BY <2>3, <2>4
    <3>2. Min(I) \in I /\ \A y \in I : Min(I) <= y
      <4> HIDE DEF I
      <4> QED  BY <3>1, MinInSet
    <3>3. PICK q \in ufs : q.index = Min(I)  BY <3>2
    <3> QED  BY <3>2, <3>3
  <2>6. least \in ufs  BY <2>5
  <2> HIDE DEF least
  <2>7. autodetect_ufs(image) = IF detect_ufs_at_start(image, 0, image.len) THEN 0
                                ELSE IF ufs = {} THEN -1 ELSE least.start
    BY DEF autodetect_ufs, ufs, least
  <2>8. least.start \in Nat /\ ufs # {}  BY <2>3, <2>6
  <2> QED  BY <2>7, <2>8
<1> DEFINE sel == [index |-> p.index, name |-> ""]
<1>10. sel.index = p.index  BY Zenon
<1> HIDE DEF sel
<1>11. sane /\ p.tag # 0 =>
         resolve_slice_ufs(image, sel) = p.start /\ autodetect_ufs(image) # -1
  BY <1>8, <1>9, <1>10
<1>12. Resolves(p) <=>
         /\ probe_slice(image, p) = "ufs"
         /\ list_root(image, p.start) = {".", ".."}
         /\ sane /\ p.tag # 0 =>
              resolve_slice_ufs(image, sel) = p.start /\ autodetect_ufs(image) # -1
  BY Zenon DEF Resolves, sel
<1> QED  BY <1>5, <1>11, <1>12

\* What the invariant says of the slices.
LEMMA SlicesImply == LabelInv /\ SlicesInv => SlicesKeepTheirFiles
<1> SUFFICES ASSUME LabelInv, SlicesInv, NEW i \in DOMAIN contents
             PROVE  /\ contents[i].fs = "bfs" /\ OffsetsFit(SliceOf(i)) =>
                         ReadsBack(SliceOf(i), contents[i].files)
                    /\ contents[i].fs = "ufs" => Resolves(SliceOf(i))
  BY DEF SlicesKeepTheirFiles
<1>1. Created
  <2> SUFFICES ASSUME NothingYet  PROVE FALSE  BY DEF LabelInv
  <2>1. DOMAIN contents = {}  BY DEF NothingYet
  <2> QED  BY <2>1
<1>2. /\ asked \in RequestType /\ Valid(asked) /\ FileOK(image)
      /\ total_sectors(asked.geometry) <= image.len
      /\ DOMAIN contents \subseteq {p.index : p \in ToSet(asked.slices)}
  BY <1>1 DEF Created, LabelInv
<1>3. PICK p \in ToSet(asked.slices) : p.index = i  BY <1>2
<1>4. SliceOf(i) = p  BY <1>1, <1>3, SliceFound
<1>5. Keeps(image, p, contents[i])  BY <1>3 DEF SlicesInv
<1>6. /\ p.start \in Nat /\ p.count \in Nat
      /\ p.start + p.count <= image.len
  <2>1. /\ p.start \in Nat /\ p.count \in Nat /\ total_sectors(asked.geometry) \in Nat
        /\ p.start + p.count <= total_sectors(asked.geometry)
    BY <1>2, RequestFacts
  <2>2. image.len \in Nat  BY <1>2 DEF FileOK
  <2> QED  BY <1>2, <2>1, <2>2
<1>7. contents[i].fs = "bfs" /\ OffsetsFit(p) => ReadsBack(p, contents[i].files)
  BY <1>2, <1>5, <1>6, BfsReadsBack DEF Keeps
<1>8. contents[i].fs = "ufs" => Resolves(p)  BY <1>1, <1>5, UfsResolves DEF Keeps
<1> QED  BY <1>4, <1>7, <1>8

\* On a disk of less than 2^31 sectors where no group's block lies behind its
\* slice, every slice (of at most 4 GiB, for BFS) reads back as what
\* format-bfs or format-ufs last put into it, whatever was in it before,
\* whatever other slices are formatted and however often the boot code is
\* installed: probe_slice tells the file system, list_root and read_file
\* return the files of a boot file system, and --slice and autodetection
\* find a UFS.
THEOREM SlicesKeepFiles ==
  Spec /\ []NarrowDisk /\ []LastGroupsFit => []SlicesKeepTheirFiles
<1>1. Init => SlicesInv
  <2> SUFFICES ASSUME Init  PROVE SlicesInv  OBVIOUS
  <2>1. DOMAIN contents = {}  BY DEF Init
  <2> QED  BY <2>1 DEF SlicesInv
<1> QED  BY <1>1, LabelStart, LabelStep, SlicesStep, SlicesImply, PTL DEF Spec

----------------------------------------------------------------------------
(* Bad blocks.                                                             *)

\* A track that is not entered stays, one that is goes to its alternate.
LEMMA TrackGoes ==
  ASSUME NEW track \in AltTable, NEW n \in Nat \ {0}, NEW s \in Nat
  PROVE  \/ RemapTrack(track, n, s) = s
         \/ \E k \in 1 .. Len(track.bad) :
              /\ track.bad[k] = s \div n
              /\ RemapTrack(track, n, s) = track.base + (k - 1) * n + (s % n)
<1> DEFINE I == {i \in 1 .. Len(track.bad) : track.bad[i] = s \div n}
           hit == IF I # {} THEN Min(I) ELSE 0
<1>1. RemapTrack(track, n, s) = IF hit = 0 THEN s
                                ELSE track.base + (hit - 1) * n + (s % n)
  BY DEF RemapTrack, SelectInSeq
<1>2. Len(track.bad) \in Nat
  <2>1. track.bad \in Seq(Nat)  BY DEF AltTable
  <2> QED  BY <2>1, LenProperties
<1>3. I \subseteq Nat  BY <1>2
<1>4. CASE I = {}
  <2>1. hit = 0  BY <1>4
  <2> QED  BY <1>1, <2>1
<1>5. CASE I # {}
  <2>1. hit = Min(I)  BY <1>5
  <2>2. hit \in I
    <3> HIDE DEF I
    <3>1. Min(I) \in I  BY <1>3, <1>5, MinInSet
    <3> QED  BY <1>5, <3>1
  <2> HIDE DEF hit
  <2>3. hit \in 1 .. Len(track.bad) /\ track.bad[hit] = s \div n /\ hit # 0
    BY <1>2, <2>2
  <2> QED  BY <1>1, <2>3
<1> QED  BY <1>4, <1>5

\* The same of sectors.
LEMMA SectorGoes ==
  ASSUME NEW table \in AltTable, NEW s
  PROVE  \/ RemapSector(table, s) = s
         \/ \E k \in 1 .. Len(table.bad) :
              table.bad[k] = s /\ RemapSector(table, s) = table.base + k - 1
<1> DEFINE I == {i \in 1 .. Len(table.bad) : table.bad[i] = s}
           hit == IF I # {} THEN Min(I) ELSE 0
<1>1. RemapSector(table, s) = IF hit = 0 THEN s ELSE table.base + hit - 1
  BY DEF RemapSector, SelectInSeq
<1>2. Len(table.bad) \in Nat
  <2>1. table.bad \in Seq(Nat)  BY DEF AltTable
  <2> QED  BY <2>1, LenProperties
<1>3. I \subseteq Nat  BY <1>2
<1>4. CASE I = {}
  <2>1. hit = 0  BY <1>4
  <2> QED  BY <1>1, <2>1
<1>5. CASE I # {}
  <2>1. hit \in I
    <3> HIDE DEF I
    <3>1. Min(I) \in I  BY <1>3, <1>5, MinInSet
    <3> QED  BY <1>5, <3>1
  <2> HIDE DEF hit
  <2>2. hit \in 1 .. Len(table.bad) /\ table.bad[hit] = s /\ hit # 0
    BY <1>2, <2>1
  <2> QED  BY <1>1, <2>2
<1> QED  BY <1>4, <1>5

\* Two sectors of bad tracks go to one place only when they are one sector;
\* the place is among the alternate tracks.
LEMMA TracksApart ==
  ASSUME NEW track \in AltTable, NEW n \in Nat \ {0}, NEW s \in Nat, NEW t \in Nat,
         NEW k \in 1 .. Len(track.bad), track.bad[k] = s \div n,
         NEW l \in 1 .. Len(track.bad), track.bad[l] = t \div n
  PROVE  /\ track.base + (k - 1) * n + (s % n) \in Nat
         /\ track.base <= track.base + (k - 1) * n + (s % n)
         /\ track.base + (k - 1) * n + (s % n) < track.base + Len(track.bad) * n
         /\ track.base + (k - 1) * n + (s % n) = track.base + (l - 1) * n + (t % n)
              => s = t
<1>1. track.base \in Nat /\ track.bad \in Seq(Nat)  BY DEF AltTable
<1>2. Len(track.bad) \in Nat  BY <1>1, LenProperties
<1> DEFINE b == track.base   m == Len(track.bad)
           i == k - 1   j == l - 1   u == s % n   v == t % n
<1>3. i \in Nat /\ j \in Nat /\ i < m /\ m \in Nat /\ b \in Nat  BY <1>1, <1>2
<1>4. /\ u \in 0 .. n - 1 /\ s = n * (s \div n) + u
      /\ v \in 0 .. n - 1 /\ t = n * (t \div n) + v
  <2>1. s \in Int /\ t \in Int  OBVIOUS
  <2>2. s % n \in 0 .. n - 1 /\ s = n * (s \div n) + (s % n)  BY <2>1, DivMod
  <2>3. t % n \in 0 .. n - 1 /\ t = n * (t \div n) + (t % n)  BY <2>1, DivMod
  <2> QED  BY <2>2, <2>3
<1>5. i * n = n * i /\ j * n = n * j /\ m * n = n * m  BY <1>3
<1>6. n * i \in Nat /\ n * j \in Nat /\ n * m \in Nat  BY <1>3
<1>7. n * i + n <= n * m  BY <1>3, MulMono
<1> HIDE DEF b, m, i, j, u, v
<1>8. ASSUME b + n * i + u = b + n * j + v  PROVE s = t
  <2>1. n * i + u = n * j + v  BY <1>3, <1>4, <1>6, <1>8
  <2> DEFINE x == n * i + u
  <2>2. x \in Int /\ n * i <= x /\ x < n * i + n /\ n * j <= x /\ x < n * j + n
    <3> DEFINE p == n * i   q == n * j
    <3>1. p \in Nat /\ q \in Nat /\ p + u = q + v  BY <1>6, <2>1
    <3>2. n \in Nat /\ u \in 0 .. n - 1 /\ v \in 0 .. n - 1  BY <1>4
    <3> HIDE DEF p, q
    <3>3. p + u \in Int /\ p <= p + u /\ p + u < p + n /\ q <= p + u /\ p + u < q + n
      BY <3>1, <3>2
    <3> QED  BY <3>3 DEF p, q
  <2> HIDE DEF x
  <2>3. x \div n = i /\ x \div n = j  BY <1>3, <2>2, DivUnique
  <2>4. i = j /\ u = v
    <3>1. i = j  BY <2>3
    <3> QED  BY <1>4, <1>6, <2>1, <3>1
  <2>5. k = l  BY <2>4 DEF i, j
  <2>6. s \div n = t \div n  BY <2>5
  <2> QED  BY <1>4, <2>4, <2>6
<1>9. b + n * i + u \in Nat /\ b <= b + n * i + u /\ b + n * i + u < b + n * m
  <2> DEFINE x == n * i   y == n * m
  <2>1. x \in Nat /\ y \in Nat /\ x + n <= y  BY <1>6, <1>7
  <2> HIDE DEF x, y
  <2>2. b + x + u \in Nat /\ b <= b + x + u /\ b + x + u < b + y
    BY <1>3, <1>4, <2>1
  <2> QED  BY <2>2 DEF x, y
<1> QED  BY <1>5, <1>8, <1>9 DEF b, m, i, j, u, v

\* A sector of a slice that holds files.
FileSector(r, s) ==
  /\ s \in Nat
  /\ \E p \in FileSlices(ToSet(r.slices)) : p.start <= s /\ s < p.start + p.count

\* Where the driver goes for a sector of such a slice.
Redirect(r, alts, s) ==
  RemapSector(alts.sector, RemapTrack(alts.track, r.geometry.sectors_per_track, s))

\* Two sectors of the slices that hold files never go to one place, nor does
\* one go to the place of another.  The alternates may be entered as bad
\* themselves: the alternate of a track and the alternates of sectors are
\* apart, and so are they from the slices.
LEMMA RedirectsApart ==
  ASSUME NEW r \in RequestType, Valid(r), NEW alts, AlternatesOwn(r, alts),
         NEW s, FileSector(r, s), NEW t, FileSector(r, t)
  PROVE  /\ Redirect(r, alts, s) = Redirect(r, alts, t) => s = t
         /\ Redirect(r, alts, s) = t => s = t
<1> DEFINE n == r.geometry.sectors_per_track
           track == alts.track
           table == alts.sector
           T(x) == RemapTrack(track, n, x)
           R(x) == RemapSector(table, T(x))
           tb == track.base   tl == Len(track.bad) * n
           sb == table.base   sl == Len(table.bad)
           Tracks(x) == tb <= x /\ x < tb + tl
           Sectors(x) == sb <= x /\ x < sb + sl
<1>1. n \in Nat \ {0}
  <2>1. r.geometry \in GeometryType  BY RequestFacts
  <2> QED  BY <2>1 DEF Valid, validate_geometry, GeometryType
<1>2. track \in AltTable /\ table \in AltTable  BY DEF AlternatesOwn
<1>3. tb \in Nat /\ sb \in Nat /\ Len(track.bad) \in Nat /\ sl \in Nat /\ tl \in Nat
  <2>1. track.bad \in Seq(Nat) /\ table.bad \in Seq(Nat) /\ tb \in Nat /\ sb \in Nat
    BY <1>2 DEF AltTable
  <2>2. Len(track.bad) \in Nat /\ sl \in Nat  BY <2>1, LenProperties
  <2> QED  BY <1>1, <2>1, <2>2
<1>4. /\ tb + tl <= sb \/ sb + sl <= tb
      /\ \A p \in FileSlices(ToSet(r.slices)) :
           /\ p.start + p.count <= tb \/ tb + tl <= p.start
           /\ p.start + p.count <= sb \/ sb + sl <= p.start
  BY DEF AlternatesOwn, Apart, Region, SliceRegion
<1> HIDE DEF tl, sl, tb, sb
<1>5. \A x \in Nat : ~ (Tracks(x) /\ Sectors(x))  BY <1>3, <1>4
<1>6. ASSUME NEW x, FileSector(r, x)  PROVE x \in Nat /\ ~ Tracks(x) /\ ~ Sectors(x)
  <2>1. PICK p \in FileSlices(ToSet(r.slices)) : p.start <= x /\ x < p.start + p.count
    BY <1>6 DEF FileSector
  <2>2. p.start \in Nat /\ p.count \in Nat  BY <2>1, RequestFacts DEF FileSlices
  <2>3. x \in Nat  BY <1>6 DEF FileSector
  <2> QED  BY <1>3, <1>4, <2>1, <2>2, <2>3
<1> HIDE DEF n, track, table
<1>7. ASSUME NEW x \in Nat
      PROVE  \/ T(x) = x
             \/ \E k \in 1 .. Len(track.bad) :
                  track.bad[k] = x \div n /\ T(x) = tb + (k - 1) * n + (x % n)
  BY <1>1, <1>2, TrackGoes DEF tb
<1>8. ASSUME NEW x \in Nat, T(x) # x  PROVE T(x) \in Nat /\ Tracks(T(x))
  <2>1. PICK k \in 1 .. Len(track.bad) :
          track.bad[k] = x \div n /\ T(x) = tb + (k - 1) * n + (x % n)
    BY <1>7, <1>8
  <2>2. /\ tb + (k - 1) * n + (x % n) \in Nat
        /\ tb <= tb + (k - 1) * n + (x % n)
        /\ tb + (k - 1) * n + (x % n) < tb + Len(track.bad) * n
    BY <1>1, <1>2, <2>1, TracksApart DEF tb
  <2> QED  BY <2>1, <2>2 DEF tl
<1>9. ASSUME NEW x \in Nat, NEW y \in Nat, T(x) # x, T(y) # y, T(x) = T(y)
      PROVE  x = y
  <2>1. PICK k \in 1 .. Len(track.bad) :
          track.bad[k] = x \div n /\ T(x) = tb + (k - 1) * n + (x % n)
    BY <1>7, <1>9
  <2>2. PICK l \in 1 .. Len(track.bad) :
          track.bad[l] = y \div n /\ T(y) = tb + (l - 1) * n + (y % n)
    BY <1>7, <1>9
  <2>3. tb + (k - 1) * n + (x % n) = tb + (l - 1) * n + (y % n)  BY <1>9, <2>1, <2>2
  <2> QED  BY <1>1, <1>2, <2>1, <2>2, <2>3, TracksApart DEF tb
<1>10. ASSUME NEW x  PROVE \/ RemapSector(table, x) = x
                           \/ \E k \in 1 .. sl : /\ table.bad[k] = x
                                                 /\ RemapSector(table, x) = sb + k - 1
  BY <1>2, SectorGoes DEF sb, sl
<1> DEFINE U(x) == RemapSector(table, x)
<1> HIDE DEF T
<1>11. ASSUME NEW x, U(x) # x  PROVE U(x) \in Nat /\ Sectors(U(x))
  BY <1>3, <1>10, <1>11
<1>12. ASSUME NEW x, NEW y, U(x) # x, U(y) # y, U(x) = U(y)  PROVE x = y
  <2>1. PICK k \in 1 .. sl : table.bad[k] = x /\ U(x) = sb + k - 1  BY <1>10, <1>12
  <2>2. PICK l \in 1 .. sl : table.bad[l] = y /\ U(y) = sb + l - 1  BY <1>10, <1>12
  <2>3. sb + k - 1 = sb + l - 1  BY <1>12, <2>1, <2>2
  <2>4. k \in Int /\ l \in Int  BY <1>3
  <2>5. k = l  BY <1>3, <2>3, <2>4
  <2> QED  BY <2>1, <2>2, <2>5
<1>13. /\ s \in Nat /\ ~ Tracks(s) /\ ~ Sectors(s)
       /\ t \in Nat /\ ~ Tracks(t) /\ ~ Sectors(t)
  BY <1>6
<1>14. /\ T(s) \in Nat /\ (T(s) # s => Tracks(T(s)))
       /\ T(t) \in Nat /\ (T(t) # t => Tracks(T(t)))
  BY <1>8, <1>13
<1> HIDE DEF U, Tracks, Sectors
<1>15. ~ Sectors(T(s)) /\ ~ Sectors(T(t))  BY <1>5, <1>13, <1>14
<1>16. U(T(s)) = t => s = t
  <2> SUFFICES ASSUME U(T(s)) = t  PROVE s = t  OBVIOUS
  <2>1. U(T(s)) = T(s)  BY <1>11, <1>13
  <2>2. T(s) = s  BY <1>13, <1>14, <2>1
  <2> QED  BY <2>1, <2>2
<1>17. U(T(s)) = U(T(t)) => s = t
  <2> SUFFICES ASSUME U(T(s)) = U(T(t))  PROVE s = t  OBVIOUS
  <2>1. T(s) = T(t)  BY <1>11, <1>12, <1>15
  <2>2. (T(s) = s /\ T(t) = t) \/ (T(s) # s /\ T(t) # t)  BY <1>13, <1>14, <2>1
  <2> QED  BY <1>9, <1>13, <2>1, <2>2
<1> QED  BY <1>16, <1>17 DEF Redirect, U, T, n, track, table

\* Every alternates table on the disk is empty or what the guest entered.
AltsInv ==
  \A e \in image.ext : e.what.kind = "alts" =>
    \/ e.what = build_empty_alt_info
    \/ \E b \in BadBlocks : asked = b.disk /\ e.what = b.alts

\* Every step keeps this.
LEMMA AltsStep == LabelInv /\ AltsInv /\ [Next]_vars => AltsInv'
<1> SUFFICES ASSUME LabelInv, AltsInv, [Next]_vars  PROVE AltsInv'  OBVIOUS
<1>1. ASSUME asked' = asked,
             \A e \in image'.ext : e \in image.ext \/ e.what.kind # "alts"
      PROVE  AltsInv'
  BY <1>1 DEF AltsInv
<1>2. ASSUME NEW img, NEW e, image' = Put(img, {e}), img.ext \subseteq image.ext
      PROVE  \A f \in image'.ext : f \in image.ext \/ f = e
  <2> DEFINE runs == {e}
  <2>1. image'.ext = {f \in img.ext : \A h \in runs : Apart(f, h)} \cup runs
    BY <1>2 DEF Put
  <2> QED  BY <1>2, <2>1
<1>3. CASE CreateSkeleton \/ CreateLayout
  <2>1. image'.ext = {}
    BY <1>3 DEF CreateSkeleton, CreateLayout, Begin, Truncated, Blank
  <2> QED  BY <2>1 DEF AltsInv
<1>4. CASE WriteMbr
  <2> DEFINE e == Extent(0, 1, build_mbr(asked))
  <2>1. asked' = asked /\ (image' = Put(image, {e}) \/ image' = image)
    BY <1>4 DEF WriteMbr
  <2>2. e.what.kind = "mbr"  BY DEF Extent, build_mbr
  <2> HIDE DEF e
  <2> QED  BY <1>1, <1>2, <2>1, <2>2
<1>5. CASE WritePdinfo
  <2> DEFINE e == Extent(LabelSector(asked), 1, build_pdinfo(asked))
  <2>1. asked' = asked /\ image' = Put(image, {e})  BY <1>5 DEF WritePdinfo
  <2>2. e.what.kind = "label"  BY DEF Extent, build_pdinfo
  <2> HIDE DEF e
  <2> QED  BY <1>1, <1>2, <2>1, <2>2
<1>6. CASE WriteVtoc
  <2> DEFINE e == Extent(LabelSector(asked), 1, WithVtoc(asked))
             img == Fill0(image, Region(LabelSector(asked) + 1, 1))
  <2>1. asked' = asked /\ (image' = Put(img, {e}) \/ image' = image)
    BY <1>6 DEF WriteVtoc
  <2>2. e.what.kind = "label"  BY DEF Extent, WithVtoc, build_pdinfo
  <2>3. img.ext \subseteq image.ext  BY DEF LabelInv, FileOK, Fill0
  <2> HIDE DEF e, img
  <2> QED  BY <1>1, <1>2, <2>1, <2>2, <2>3
<1>7. CASE WriteAlternates
  <2> DEFINE e == Extent(asked.start + AltPtr, AltLen, build_empty_alt_info)
  <2>1. asked' = asked /\ (image' = Put(image, {e}) \/ image' = image)
    BY <1>7 DEF WriteAlternates
  <2>2. e.what = build_empty_alt_info  BY DEF Extent
  <2> HIDE DEF e
  <2>3. \A f \in image'.ext : f \in image.ext \/ f.what = build_empty_alt_info
    BY <1>2, <2>1, <2>2
  <2> QED  BY <2>1, <2>3 DEF AltsInv
<1>8. CASE Killed \/ UNCHANGED vars
  <2>1. image' = image /\ asked' = asked  BY <1>8 DEF Killed, vars
  <2> QED  BY <2>1 DEF AltsInv
<1>9. CASE FormatBfs
  <2>1. PICK p, files : BfsWrites(p, files)  BY <1>9, FormatBfsWrites
  <2> DEFINE runs == Runs(p.start, p.count, files)
  <2>2. Created  BY <2>1, IdleCreated DEF BfsWrites
  <2>3. p.start \in Nat /\ p.count \in Nat
    BY <2>1, <2>2, RequestFacts DEF Created, BfsWrites
  <2>4. \A e \in runs : e.what.kind \in BfsKinds
    BY <2>1, <2>3, BfsRunsPlaced DEF BfsWrites
  <2>5. asked' = asked /\ \A e \in image'.ext : e \in image.ext \/ e \in runs
    BY <2>1 DEF BfsWrites
  <2>6. "alts" \notin BfsKinds  BY DEF BfsKinds
  <2> HIDE DEF runs
  <2> QED  BY <1>1, <2>4, <2>5, <2>6
<1>10. CASE FormatUfs
  <2>1. PICK p, sb, runs, c : UfsWrites(p, sb, runs, c)  BY <1>10, FormatUfsWrites
  <2>2. Created  BY <2>1, IdleCreated DEF UfsWrites
  <2>3. p.start \in Nat  BY <2>1, <2>2, RequestFacts DEF Created, UfsWrites
  <2>4. \A e \in UfsRuns(p.start, sb) : e.what.kind \in UfsKinds
    BY <2>1, <2>3, UfsRunsPlaced DEF UfsWrites
  <2>5. asked' = asked /\ runs \subseteq UfsRuns(p.start, sb)
        /\ \A e \in image'.ext : e \in image.ext \/ e \in runs
    BY <2>1 DEF UfsWrites
  <2>6. "alts" \notin UfsKinds  BY DEF UfsKinds
  <2> QED  BY <1>1, <2>4, <2>5, <2>6
<1>11. CASE InstallBoot
  <2>1. PICK mbr, runs : BootWrites(mbr, runs)  BY <1>11, InstallBootWrites
  <2>2. mbr.what.kind = "mbr"  BY <2>1 DEF BootWrites
  <2>3. asked' = asked /\ \A e \in image'.ext : e \in image.ext \/ e \in runs
    BY <2>1 DEF BootWrites
  <2>4. \A e \in runs : e = mbr \/ e.what.kind = "hdboot"  BY <2>1 DEF BootWrites
  <2> QED  BY <1>1, <2>2, <2>3, <2>4
<1>12. CASE MarkBad
  <2>1. PICK e : BadWrites(e)  BY <1>12, MarkBadWrites
  <2>2. PICK b \in BadBlocks : asked = b.disk /\ e.what = b.alts
    BY <2>1 DEF BadWrites
  <2>3. asked' = asked /\ \A f \in image'.ext : f \in image.ext \/ f = e
    BY <2>1 DEF BadWrites
  <2> QED  BY <2>2, <2>3 DEF AltsInv
<1> QED
  BY <1>3, <1>4, <1>5, <1>6, <1>7, <1>8, <1>9, <1>10, <1>11, <1>12 DEF Next

\* What the driver does with a sector of a slice: nothing, or a redirection
\* through tables of its own.
LEMMA GuestRedirect ==
  ASSUME LabelInv, Created, AltsInv,
         NEW report, report = inspect_disk_image(image),
         report.active = Partition(asked), report.pdinfo = WithVtoc(asked)
  PROVE  \/ \A p, rel : p.start + rel \in Nat =>
              resolve_guest_visible_sector(image, report, p, rel) = p.start + rel
         \/ \E alts : AlternatesOwn(asked, alts) /\ \A p, rel :
              \/ resolve_guest_visible_sector(image, report, p, rel) = p.start + rel
              \/ resolve_guest_visible_sector(image, report, p, rel)
                   = Redirect(asked, alts, p.start + rel)
<1> DEFINE alt == read_alt_info(image, report)
           n == asked.geometry.sectors_per_track
           G(p, rel) == resolve_guest_visible_sector(image, report, p, rel)
<1>1. report.pdinfo.geometry = asked.geometry  BY DEF WithVtoc, build_pdinfo
<1>2. \A p, rel :
        G(p, rel) = IF alt.kind # "alts" \/ p.index = 0 \/ p.tag \in {V_BACKUP, V_OTHER}
                    THEN p.start + rel ELSE Redirect(asked, alt, p.start + rel)
  BY <1>1 DEF resolve_guest_visible_sector, remap_guest_visible_sector, Redirect
<1>3. n \in Nat \ {0}
  <2>1. asked.geometry \in GeometryType /\ Valid(asked)  BY RequestFacts DEF Created
  <2> QED  BY <2>1 DEF Valid, validate_geometry, GeometryType
<1> HIDE DEF G
<1>4. CASE alt.kind # "alts"  BY <1>2, <1>4 DEF G
<1>5. CASE alt.kind = "alts"
  <2> DEFINE at == report.active.start + report.pdinfo.alt_ptr
  <2>1. alt = WhatAt(image, at)  BY DEF read_alt_info
  <2>2. WhatAt(image, at).kind # "zero"  BY <1>5, <2>1
  <2> HIDE DEF at, alt
  <2>3. PICK e \in image.ext : e.at = at /\ e.what = WhatAt(image, at)  BY <2>2, ReadFrom
  <2>4. \/ alt = build_empty_alt_info
        \/ \E b \in BadBlocks : asked = b.disk /\ alt = b.alts
    BY <1>5, <2>1, <2>3 DEF AltsInv
  <2>5. CASE alt = build_empty_alt_info
    <3>1. alt.track = EmptyTable /\ alt.sector = EmptyTable
      BY <2>5 DEF build_empty_alt_info
    <3>2. EmptyTable \in AltTable /\ Len(EmptyTable.bad) = 0
      BY DEF EmptyTable, AltTable
    <3>3. ASSUME NEW s \in Nat  PROVE Redirect(asked, alt, s) = s
      <4> DEFINE t == RemapTrack(EmptyTable, n, s)
      <4>1. 1 .. Len(EmptyTable.bad) = {}  BY <3>2
      <4>2. t = s  BY <1>3, <3>2, <4>1, TrackGoes
      <4> HIDE DEF t
      <4>3. RemapSector(EmptyTable, t) = t  BY <3>2, <4>1, SectorGoes
      <4> QED  BY <3>1, <4>2, <4>3 DEF Redirect, t
    <3>4. \A p, rel : p.start + rel \in Nat => G(p, rel) = p.start + rel
      BY <1>2, <3>3
    <3> QED  BY <3>4 DEF G
  <2>6. CASE \E b \in BadBlocks : asked = b.disk /\ alt = b.alts
    <3>1. AlternatesOwn(asked, alt)  BY <2>6, AlternatesAssumption
    <3>2. \A p, rel : \/ G(p, rel) = p.start + rel
                      \/ G(p, rel) = Redirect(asked, alt, p.start + rel)
      BY <1>2
    <3> QED  BY <3>1, <3>2 DEF G
  <2> QED  BY <2>4, <2>5, <2>6
<1> QED  BY <1>4, <1>5

\* What the invariants say of the sectors the guest sees.
LEMMA AltsImply == LabelInv /\ AltsInv => GuestSectorsDistinct
<1> DEFINE report == inspect_disk_image(image)
           parts == report.pdinfo.vtoc.partitions
           files == FileSlices(Probed(report))
           G == GuestSectors(report)
           at(x) == resolve_guest_visible_sector(image, report, x[1], x[2])
           Im == {at(x) : x \in G}
           S == ToSet(asked.slices)
<1> SUFFICES ASSUME LabelInv, AltsInv, HasVtoc(report),
                    \A p, q \in files : p # q => Apart(SliceRegion(p), SliceRegion(q))
             PROVE  Cardinality(Im) = Cardinality(G)
  BY DEF GuestSectorsDistinct
<1>1. CASE ~ report.pdinfo.vtoc.sane
  <2>1. files = {}  BY <1>1 DEF Probed, FileSlices
  <2>2. G = {}  BY <2>1 DEF GuestSectors
  <2> HIDE DEF G, at
  <2>3. Im = G  BY <2>2
  <2> QED  BY <2>3
<1>2. CASE report.pdinfo.vtoc.sane
  <2>1. Created
    <3> SUFFICES ASSUME NothingYet  PROVE FALSE  BY DEF LabelInv
    <3>1. image.ext = {}  BY DEF NothingYet, Blank
    <3>2. WhatAt(image, 0).kind = "zero"  BY <3>1 DEF WhatAt, Zero
    <3>3. report = Report("ok", EmptyPartition, NoPdInfo)
      BY <3>2 DEF inspect_disk_image
    <3> QED  BY <3>3 DEF HasVtoc, Report, NoPdInfo
  <2>2. asked \in RequestType /\ Valid(asked)  BY <2>1 DEF Created
  <2>3. /\ report.active = Partition(asked) /\ report.pdinfo = WithVtoc(asked)
        /\ \A i \in 0 .. 15 : parts[i].count > 0 => parts[i] \in S
    BY <1>2, <2>1, ReportedSlices
  <2> DEFINE total == total_sectors(asked.geometry)
  <2>4. \A p \in S : /\ p.start \in Nat /\ p.count \in Nat
                     /\ p.start + p.count <= total
    BY <2>2, RequestFacts
  <2>5. total \in Nat  BY <2>2, RequestFacts
  <2>6. files \subseteq {parts[i] : i \in 0 .. 15}  BY DEF FileSlices, Probed
  <2>7. files \subseteq FileSlices(S)  BY <2>3, <2>6 DEF FileSlices
  <2>8. ASSUME NEW x \in G
        PROVE  /\ x = <<x[1], x[2]>> /\ x[1] \in files
               /\ x[2] \in Nat /\ x[2] < x[1].count
    <3>1. PICK p \in files :
            x \in {<<p, rel>> : rel \in 0 .. Lesser(p.count,
                     GuestTracks * report.pdinfo.geometry.sectors_per_track) - 1}
      BY <2>8 DEF GuestSectors
    <3> DEFINE k == GuestTracks * report.pdinfo.geometry.sectors_per_track
    <3>2. PICK rel \in 0 .. Lesser(p.count, k) - 1 : x = <<p, rel>>  BY <3>1
    <3>3. p.count \in Nat  BY <2>4, <2>7 DEF FileSlices
    <3>4. k \in Nat
      <4>1. report.pdinfo.geometry = asked.geometry  BY <2>3 DEF WithVtoc, build_pdinfo
      <4>2. asked.geometry \in GeometryType  BY <2>2, RequestFacts
      <4>3. GuestTracks \in Nat  BY ArgumentsAssumption
      <4> QED  BY <4>1, <4>2, <4>3 DEF GeometryType
    <3> HIDE DEF k
    <3>5. rel \in Nat /\ rel < p.count  BY <3>3, <3>4 DEF Lesser
    <3> QED  BY <3>2, <3>5
  <2> HIDE DEF files, G, S
  <2>9. IsFiniteSet(G)
    <3> DEFINE e == [i \in 0 .. 15 |-> parts[i]]
               P == {parts[i] : i \in 0 .. 15}
    <3>1. e \in Surjection(0 .. 15, P)  BY DEF Surjection
    <3> HIDE DEF e, P, total
    <3>2. IsFiniteSet(0 .. 15) /\ IsFiniteSet(0 .. total)
      <4>1. 0 \in Int /\ 15 \in Int /\ total \in Int  BY <2>5
      <4>2. IsFiniteSet(0 .. 15)  BY <4>1, FS_Interval
      <4>3. IsFiniteSet(0 .. total)  BY <4>1, FS_Interval
      <4> QED  BY <4>2, <4>3
    <3>3. IsFiniteSet(P)  BY <3>1, <3>2, FS_Surjection
    <3>4. IsFiniteSet(files)  BY <2>6, <3>3, FS_Subset DEF P
    <3>5. IsFiniteSet(files \X (0 .. total))  BY <3>2, <3>4, FS_Product
    <3>6. G \subseteq files \X (0 .. total)
      <4> SUFFICES ASSUME NEW x \in G  PROVE x \in files \X (0 .. total)  OBVIOUS
      <4>1. x = <<x[1], x[2]>> /\ x[1] \in files /\ x[2] \in Nat /\ x[2] < x[1].count
        BY <2>8
      <4>2. x[1] \in S  BY <2>7, <4>1 DEF FileSlices
      <4>3. x[2] \in 0 .. total  BY <2>4, <2>5, <4>1, <4>2
      <4> QED  BY <4>1, <4>3
    <3> QED  BY <3>5, <3>6, FS_Subset
  <2>10. \A x \in G : FileSector(asked, x[1].start + x[2])
    <3> SUFFICES ASSUME NEW x \in G  PROVE FileSector(asked, x[1].start + x[2])  OBVIOUS
    <3>1. x[1] \in FileSlices(S) /\ x[2] \in Nat /\ x[2] < x[1].count  BY <2>7, <2>8
    <3>2. x[1].start \in Nat /\ x[1].count \in Nat  BY <2>4, <3>1 DEF FileSlices
    <3> QED  BY <3>1, <3>2 DEF FileSector, S
  <2>11. ASSUME NEW x \in G, NEW y \in G, x[1].start + x[2] = y[1].start + y[2]
         PROVE  x = y
    <3>1. /\ x = <<x[1], x[2]>> /\ x[1] \in files /\ x[2] \in Nat /\ x[2] < x[1].count
          /\ y = <<y[1], y[2]>> /\ y[1] \in files /\ y[2] \in Nat /\ y[2] < y[1].count
      BY <2>8
    <3>2. /\ x[1].start \in Nat /\ x[1].count \in Nat
          /\ y[1].start \in Nat /\ y[1].count \in Nat
      BY <2>4, <2>7, <3>1 DEF FileSlices
    <3>3. x[1] = y[1]
      <4> SUFFICES ASSUME x[1] # y[1]  PROVE FALSE  OBVIOUS
      <4>1. Apart(SliceRegion(x[1]), SliceRegion(y[1]))  BY <3>1
      <4>2. \/ x[1].start + x[1].count <= y[1].start
            \/ y[1].start + y[1].count <= x[1].start
        BY <4>1 DEF Apart, SliceRegion, Region
      <4> QED  BY <2>11, <3>1, <3>2, <4>2
    <3>4. x[2] = y[2]  BY <2>11, <3>1, <3>2, <3>3
    <3> QED  BY <3>1, <3>3, <3>4
  <2> HIDE DEF report
  <2>12. ASSUME NEW x \in G, NEW y \in G, at(x) = at(y)  PROVE x = y
    <3> DEFINE s == x[1].start + x[2]
               t == y[1].start + y[2]
    <3>1. FileSector(asked, s) /\ FileSector(asked, t)  BY <2>10
    <3>2. s \in Nat /\ t \in Nat  BY <3>1 DEF FileSector
    <3>3. CASE \A p, rel : p.start + rel \in Nat =>
                 resolve_guest_visible_sector(image, report, p, rel) = p.start + rel
      <4>1. at(x) = s /\ at(y) = t  BY <3>2, <3>3
      <4> QED  BY <2>11, <2>12, <4>1
    <3>4. CASE \E alts : AlternatesOwn(asked, alts) /\ \A p, rel :
                 \/ resolve_guest_visible_sector(image, report, p, rel) = p.start + rel
                 \/ resolve_guest_visible_sector(image, report, p, rel)
                      = Redirect(asked, alts, p.start + rel)
      <4>1. PICK alts : AlternatesOwn(asked, alts) /\ \A p, rel :
                 \/ resolve_guest_visible_sector(image, report, p, rel) = p.start + rel
                 \/ resolve_guest_visible_sector(image, report, p, rel)
                      = Redirect(asked, alts, p.start + rel)
        BY <3>4
      <4>2. /\ at(x) = s \/ at(x) = Redirect(asked, alts, s)
            /\ at(y) = t \/ at(y) = Redirect(asked, alts, t)
        BY <4>1
      <4> HIDE DEF s, t, at
      <4>3. /\ Redirect(asked, alts, s) = Redirect(asked, alts, t) => s = t
            /\ Redirect(asked, alts, s) = t => s = t
            /\ Redirect(asked, alts, t) = s => t = s
        BY <2>2, <3>1, <4>1, RedirectsApart
      <4>4. s = t  BY <2>12, <4>2, <4>3
      <4> QED  BY <2>11, <4>4 DEF s, t
    <3> QED  BY <2>1, <2>3, <3>3, <3>4, GuestRedirect DEF report
  <2> HIDE DEF at
  <2> DEFINE f == [x \in G |-> at(x)]
  <2>13. f \in Bijection(G, Im)
    BY <2>12 DEF Bijection, Injection, Surjection, IsInjective
  <2>14. ExistsBijection(G, Im)  BY <2>13 DEF ExistsBijection
  <2> HIDE DEF Im
  <2> QED  BY <2>9, <2>14, FS_Bijection
<1> QED  BY <1>1, <1>2

\* On a disk of less than 2^31 sectors, as long as the slices that hold files
\* do not overlap, no two of their sectors are the same sector to the guest,
\* whatever tracks and sectors are entered as bad, alternates among them.
THEOREM GuestSectorsAreDistinct == Spec /\ []NarrowDisk => []GuestSectorsDistinct
<1>1. Init => AltsInv  BY DEF Init, AltsInv, Blank
<1> QED  BY <1>1, LabelStart, LabelStep, AltsStep, AltsImply, PTL DEF Spec

============================================================================
