----------------------------- MODULE DiskImage -----------------------------
(***************************************************************************)
(* The svr4-disk-image command: one image file and the subcommands that    *)
(* create, format and make it bootable, each run to its end before the     *)
(* next.  create-skeleton and create-layout write the label in separate    *)
(* writes and may be killed, or refuse, between two of them.               *)
(*                                                                         *)
(* asked, made and contents are history variables: the last request that   *)
(* got past its checks, whether it ran to its end, and what each slice was *)
(* last formatted with, until something else is written over it.           *)
(***************************************************************************)
EXTENDS DiskInspect

CONSTANTS
  Layouts,     \* create-layout: [cylinders, size_mb, heads, sectors, mode, opts]
  Skeletons,   \* create-skeleton: requests
  Selectors,   \* --slice arguments
  StandFiles,  \* format-bfs: [dir, files] sequences of host files
  UfsOptions,  \* format-ufs: [block_size, bytes_per_inode]
  Payloads,    \* install-boot: hdboot files
  BadBlocks,   \* what the guest may enter in the alternates: [disk, alts]
  GuestTracks  \* how many tracks of a slice GuestSectorsDistinct looks at

\* What the arguments of the commands can be: clap parses the numbers of
\* create-layout and format-ufs and the bounds of the UNIX partition as
\* unsigned, the start and length of a --slice as signed.
GeometryType == [cylinders : Nat, heads : Nat, sectors_per_track : Nat]

SliceType == [index : Nat, tag : Nat, start : Int, count : Int]

RequestType ==
  [geometry : GeometryType, mode : {"chs", "lba28"}, start : Nat, size : Nat,
   slices : Seq(SliceType)]

\* A host file: name, what symlink_metadata and the leading dot say of it,
\* contents; no bytes are the contents of an empty file only.
FileData == {d \in [text : STRING, bytes : Nat] : d.bytes = 0 => d = EmptyData}

\* The inode numbers of a boot file system are 16-bit, from 3 on.
MaxStandFiles == 65533

HostFile == [name : STRING, kind : {"file", "dot", "dir"}, data : FileData]

LayoutOptions ==
  [stand_start_sector : Nat, stand_size_mb : Nat, swap_size_mb : Nat,
   root_align_sectors : Nat]

ASSUME ArgumentsAssumption ==
  /\ Layouts \subseteq [cylinders : Nat, size_mb : Nat, heads : Nat, sectors : Nat,
                        mode : {"chs", "lba28"}, opts : LayoutOptions]
  /\ Skeletons \subseteq RequestType
  /\ StandFiles \subseteq [dir : Seq(HostFile), files : Seq(HostFile)]
  /\ \A s \in StandFiles : Len(s.dir) + Len(s.files) <= MaxStandFiles
  /\ UfsOptions \subseteq [block_size : Nat, bytes_per_inode : Nat]
  /\ GuestTracks \in Nat

\* The slices that hold files: not free, the whole disk, alternates (6, 8)
\* or an area the driver does not interpret.
FileSlices(slices) ==
  {p \in slices : p.count > 0 /\ p.tag \notin {0, V_BACKUP, 6, V_OTHER, 8}}

\* External: the guest takes its alternates outside the slices that hold
\* files, and one sector as the alternate of one thing only.
AltTable == [base : Nat, bad : Seq(Nat)]

AlternatesOwn(r, alts) ==
  LET tracks == Region(alts.track.base,
                       Len(alts.track.bad) * r.geometry.sectors_per_track)
      sectors == Region(alts.sector.base, Len(alts.sector.bad))
  IN  /\ alts \in [kind : {"alts"}, track : AltTable, sector : AltTable]
      /\ Apart(tracks, sectors)
      /\ \A p \in FileSlices(ToSet(r.slices)) :
           Apart(SliceRegion(p), tracks) /\ Apart(SliceRegion(p), sectors)

ASSUME AlternatesAssumption == \A b \in BadBlocks : AlternatesOwn(b.disk, b.alts)

VARIABLES image, pc, asked, made, contents

vars == <<image, pc, asked, made, contents>>

Init ==
  /\ image = Blank(0)
  /\ pc = "none"              \* there is no image yet
  /\ asked = NoRequest
  /\ made = FALSE
  /\ contents = <<>>

Idle == pc \in {"none", "idle"}

SliceOf(i) == CHOOSE p \in ToSet(asked.slices) : p.index = i

----------------------------------------------------------------------------
(* create_raw_image_skeleton.                                              *)

\* Mutant: the old file is not truncated.
BeginOnOldFile(r) == [image EXCEPT !.len = total_sectors(r.geometry)]

Truncated(r) == Blank(total_sectors(r.geometry))

\* The checks come first; then the file is truncated and sized.
Begin(r) ==
  /\ Idle /\ Valid(r)
  /\ image' = Truncated(r)
  /\ asked' = r
  /\ made' = FALSE
  /\ contents' = <<>>
  /\ pc' = "mbr"

CreateSkeleton == \E r \in Skeletons : Begin(r)

\* create_layout: resolve_geometry, build_slice_layout.
CreateLayout ==
  \E l \in Layouts :
    LET g == IF l.size_mb > 0 THEN build_geometry(l.size_mb, l.heads, l.sectors)
             ELSE GeometryOf(l.cylinders, l.heads, l.sectors)
    IN  /\ l.size_mb > 0 => geometry_possible(l.size_mb, l.heads, l.sectors, l.mode)
        /\ LayoutPossible(g, l.opts)
        /\ Begin(build_slice_layout(g, l.mode, l.opts))

WriteMbr ==
  /\ pc = "mbr"
  /\ image' = IF MbrPossible(asked) THEN Put(image, {Extent(0, 1, build_mbr(asked))})
              ELSE image
  /\ pc' = IF MbrPossible(asked) THEN "pdinfo" ELSE "idle"
  /\ UNCHANGED <<asked, made, contents>>

\* No bound is checked here: past the end, the file grows.
WritePdinfo ==
  /\ pc = "pdinfo"
  /\ image' = Put(image, {Extent(LabelSector(asked), 1, build_pdinfo(asked))})
  /\ pc' = "vtoc"
  /\ UNCHANGED <<asked, made, contents>>

\* The 512 bytes from byte 100 of the pdinfo sector on: the tail of the
\* block clears the start of the sector after it.
WithVtoc(r) == [build_pdinfo(r) EXCEPT !.vtoc = build_vtoc(r.slices)]

WriteVtoc ==
  /\ pc = "vtoc"
  /\ IF LabelSector(asked) + 2 > total_sectors(asked.geometry)
     THEN pc' = "idle" /\ image' = image
     ELSE /\ pc' = "alts"
          /\ image' = Put(Fill0(image, Region(LabelSector(asked) + 1, 1)),
                          {Extent(LabelSector(asked), 1, WithVtoc(asked))})
  /\ UNCHANGED <<asked, made, contents>>

WriteAlternates ==
  /\ pc = "alts"
  /\ pc' = "idle"
  /\ IF asked.start + AltPtr + AltLen > total_sectors(asked.geometry)
     THEN image' = image /\ made' = made
     ELSE /\ image' = Put(image, {Extent(asked.start + AltPtr, AltLen,
                                         build_empty_alt_info)})
          /\ made' = TRUE
  /\ UNCHANGED <<asked, contents>>

\* The process is killed between two writes.
Killed ==
  /\ ~ Idle
  /\ pc' = "idle"
  /\ UNCHANGED <<image, asked, made, contents>>

----------------------------------------------------------------------------
(* Formatting a slice.                                                     *)

\* The slice a command works on; a slice of no length is refused.
Selected(selector) ==
  Clamped(get_vtoc_partition_by_selector(inspect_disk_image(image), selector))

Formattable(p) == p # NoSlice /\ p.count > 0

\* What was in the slices that overlap a region is lost when it is written.
Lost == [fs |-> "lost", files |-> <<>>]

Losing(region) ==
  [i \in DOMAIN contents |->
     IF Apart(SliceRegion(SliceOf(i)), region) THEN contents[i] ELSE Lost]

Wrote(p, c) ==
  [i \in DOMAIN contents \cup {p.index} |->
     IF i = p.index THEN c ELSE Losing(SliceRegion(p))[i]]

\* format_bfs: the flat files of --from-dir, dotfiles left out, then the
\* --file arguments; anything but a file in the directory is refused.
Gathered(s) ==
  LET kept[k \in 0 .. Len(s.dir)] ==
        IF k = 0 THEN <<>>
        ELSE IF s.dir[k].kind = "dot" THEN kept[k - 1]
        ELSE Append(kept[k - 1], s.dir[k])
  IN  kept[Len(s.dir)] \o s.files

FormatBfs ==
  \E selector \in Selectors, s \in StandFiles :
    LET p == Selected(selector)
        files == [i \in DOMAIN Gathered(s) |->
                    [name |-> Gathered(s)[i].name, data |-> Gathered(s)[i].data]]
        out == format_bfs_slice(image, p.start, p.count, files)
    IN  /\ pc = "idle" /\ Formattable(p)
        /\ \A f \in ToSet(s.dir) : f.kind \in {"file", "dot"}
        /\ out.status = "done"
        /\ image' = out.img
        /\ contents' = Wrote(p, [fs |-> "bfs", files |-> files])
        /\ UNCHANGED <<pc, asked, made>>

\* format_ufs: the geometry of the pdinfo.
FormatUfs ==
  \E selector \in Selectors, o \in UfsOptions :
    LET p == Selected(selector)
        g == inspect_disk_image(image).pdinfo.geometry
        opts == [block_size |-> o.block_size, bytes_per_inode |-> o.bytes_per_inode,
                 tracks_per_cylinder |-> g.heads,
                 sectors_per_track |-> g.sectors_per_track]
        out == format(image, p.start, p.count, opts)
    IN  /\ pc = "idle" /\ Formattable(p)
        /\ out.status # "refused"
        /\ image' = out.img
        /\ contents' = Wrote(p, [fs |-> IF out.status = "done" THEN "ufs"
                                        ELSE "broken", files |-> <<>>])
        /\ UNCHANGED <<pc, asked, made>>

----------------------------------------------------------------------------
(* install_boot.  A payload is [elf, segments]; a segment has its place,   *)
(* its size, whether the file holds all of it, and whether it puts the     *)
(* boot signature at byte 510.                                             *)

Loaded(payload) == SelectSeq(payload.segments, LAMBDA g : g.load /\ g.filesz > 0)

\* The last segment over byte 510 decides what is there.
flatten_hdboot_bootstrap(payload) ==
  LET over == SelectSeq(Loaded(payload),
                        LAMBDA g : g.paddr <= 510 /\ g.paddr + g.filesz >= 512)
  IN  /\ payload.elf /\ payload.segments # <<>>
      /\ \A g \in ToSet(Loaded(payload)) :
           g.paddr + g.filesz <= HDPDLOC * SECTOR_SIZE /\ g.whole
      /\ Loaded(payload) # <<>>
      /\ over # <<>> /\ Last(over).signature

\* Mutant: the bootstrap area is taken to be one sector longer.
BootAreaLong(start) == Region(start, HDPDLOC + 1)

BootArea(start) == Region(start, HDPDLOC)

\* The chainloader goes into the first 446 bytes of the MBR only, before the
\* bootstrap is found to fit in the file.
InstallBoot ==
  \E payload \in Payloads :
    LET report == inspect_disk_image(image)
        area == BootArea(report.active.start)
        mbr == Extent(0, 1, [WhatAt(image, 0) EXCEPT !.code = "chainloader"])
    IN  /\ pc = "idle" /\ report.status = "ok" /\ report.active.type # 0
        /\ flatten_hdboot_bootstrap(payload)
        /\ image' = Put(image, {mbr} \cup
                          IF area.at + area.n > image.len THEN {}
                          ELSE {Extent(area.at, area.n, [kind |-> "hdboot"])})
        /\ contents' = Losing(area)
        /\ UNCHANGED <<pc, asked, made>>

\* External: the guest enters bad blocks in the alternates of its disk.
MarkBad ==
  \E b \in BadBlocks :
    /\ pc = "idle" /\ made
    /\ asked = b.disk
    /\ WhatAt(image, asked.start + AltPtr) = build_empty_alt_info
    /\ image' = Put(image, {Extent(asked.start + AltPtr, AltLen, b.alts)})
    /\ UNCHANGED <<pc, asked, made, contents>>

Next ==
  \/ CreateSkeleton \/ CreateLayout
  \/ WriteMbr \/ WritePdinfo \/ WriteVtoc \/ WriteAlternates \/ Killed
  \/ FormatBfs \/ FormatUfs \/ InstallBoot \/ MarkBad

Spec == Init /\ [][Next]_vars

----------------------------------------------------------------------------
(* Properties.                                                             *)

\* Type correctness of the image file and the history variables.
TypeOK ==
  /\ image.len \in Nat
  /\ \A e \in image.ext : e.at \in Nat /\ e.n \in Nat \ {0} /\ e.at + e.n <= image.len
  /\ \A e, f \in image.ext : e # f => Apart(e, f)
  /\ pc \in {"none", "idle", "mbr", "pdinfo", "vtoc", "alts"}
  /\ made \in BOOLEAN
  /\ DOMAIN contents \subseteq {p.index : p \in ToSet(asked.slices)}

\* The address a decoded CHS triple stands for.
ChsToLba(chs, g) ==
  chs[1] * CylinderSize(g) + chs[2] * g.sectors_per_track + chs[3] - 1

\* The CHS fields name the sector, or the last CHS-addressable one in lba28.
ChsShows(raw, lba, r) ==
  ChsToLba(decode_chs(raw), r.geometry) =
    IF r.mode = "lba28"
    THEN Lesser(lba, MAX_CHS_CYLINDERS * CylinderSize(r.geometry) - 1) ELSE lba

\* The partition table, geometry and slices of a report are the request's.
Shows(report, r) ==
  /\ report.active.start = r.start /\ report.active.count = r.size
  /\ ChsShows(report.active.start_chs, r.start, r)
  /\ ChsShows(report.active.end_chs, r.start + r.size - 1, r)
  /\ report.pdinfo.geometry = r.geometry
  /\ {p \in {report.pdinfo.vtoc.partitions[i] : i \in 0 .. 15} : p.count > 0}
       = {p \in ToSet(r.slices) : p.count > 0}

\* The sectors of the partition that hold its pdinfo, VTOC and alternates.
LabelRegion(r) == Region(LabelSector(r), 1 + AltLen)

\* inspect_disk_image reports a sane VTOC only with the partition, geometry
\* and slices of the last create command, whenever create_raw_image_skeleton
\* was killed or refused; and once it has returned, it reports them with
\* usable alternates, until a slice over the label itself is formatted.
InspectedIsCreated ==
  LET report == inspect_disk_image(image)
  IN  /\ HasVtoc(report) /\ report.pdinfo.vtoc.sane => Shows(report, asked)
      /\ made =>
           \/ \E p \in ToSet(asked.slices) :
                p.index \in DOMAIN contents
                  /\ ~ Apart(SliceRegion(p), LabelRegion(asked))
           \/ /\ HasVtoc(report) /\ report.pdinfo.vtoc.sane
              /\ read_alt_info(image, report).kind = "alts"

\* A BFS slice reads back as the files it was formatted with, in order.
ReadsBack(p, files) ==
  /\ probe_slice(image, p) = "bfs"
  /\ LET listed == bfs_list_root(image, p.start)
     IN  [i \in DOMAIN listed |-> listed[i].name]
           = [i \in DOMAIN files |-> files[i].name]
  /\ \A f \in ToSet(files) : read_file(image, p.start, f.name) = f.data

\* A UFS slice is recognised, has a root, and is what --slice resolves to.
Resolves(p) ==
  /\ probe_slice(image, p) = "ufs"
  /\ list_root(image, p.start) = {".", ".."}
  /\ LET report == inspect_disk_image(image)
     IN  HasVtoc(report) /\ report.pdinfo.vtoc.sane /\ p.tag # 0 =>
           /\ resolve_slice_ufs(image, [index |-> p.index, name |-> ""]) = p.start
           /\ autodetect_ufs(image) # -1

\* The end offset of a boot file system, in bytes, fits in a word.
OffsetsFit(p) == p.count * SECTOR_SIZE <= WordMod

\* Whatever was formatted or installed since, and whatever was in the slice
\* before (a BFS superblock under a UFS, a UFS superblock under a BFS), a
\* slice (of at most 4 GiB, for BFS) is detected and read back as what
\* format-bfs or format-ufs last put into it.
SlicesKeepTheirFiles ==
  \A i \in DOMAIN contents :
    /\ contents[i].fs = "bfs" /\ OffsetsFit(SliceOf(i)) =>
         ReadsBack(SliceOf(i), contents[i].files)
    /\ contents[i].fs = "ufs" => Resolves(SliceOf(i))

\* Nothing outside the region changes, and what is new is inside it.
TouchesOnly(region) ==
  /\ {e \in image.ext : Apart(e, region)} \subseteq image'.ext
  /\ \A e \in image'.ext \ image.ext : Within(e, region)

\* install-boot keeps the partition table and writes nothing beyond the
\* sectors before the pdinfo.
BootOnly ==
  LET mbr == WhatAt(image, 0)
  IN  /\ TouchesOnly(Region(0, asked.start + HDPDLOC))
      /\ WhatAt(image', 0) = [mbr EXCEPT !.code = "chainloader"]
      /\ \A e \in image'.ext \ image.ext : e.at \in {0, asked.start}

\* A command on a finished image writes to one slice, to the boot area or
\* (the guest) to the alternates, and to nothing else; the file keeps its
\* length.
StaysInSlice ==
  [][pc = "idle" /\ pc' = "idle" =>
       /\ image'.len = image.len
       /\ \/ \E i \in DOMAIN contents' : TouchesOnly(SliceRegion(SliceOf(i)))
          \/ BootOnly
          \/ TouchesOnly(Region(asked.start + AltPtr, AltLen))]_vars

\* Every UFS superblock format wrote describes a layout the allocator can
\* work with: the groups tile the slice, their bitmaps fit in their blocks,
\* and the summary area, group block, inodes and data of a group are apart.
LayoutSound ==
  \A e \in image.ext : e.what.kind = "ufs" => SoundLayout(e.what)

\* build_slice_layout: root, swap and stand are whole cylinders on cylinder
\* boundaries inside the partition, apart from each other, and root takes
\* what is left; with cylinders of at least 35 sectors they are clear of
\* the bootstrap, the label and the alternates.
LayoutSlicesApart ==
  LET r == asked
      parts == {p \in ToSet(r.slices) : p.index # 0}
      unit == CylinderSize(r.geometry)
  IN  asked \notin Skeletons \cup {NoRequest} =>
        /\ \A p \in parts :
             /\ p.start % unit = 0 /\ p.count % unit = 0 /\ p.count > 0
             /\ Within(SliceRegion(p), Region(r.start, r.size))
             /\ unit >= 35 =>
                  Apart(SliceRegion(p), Region(0, r.start + AltPtr + AltLen))
        /\ \A p, q \in parts : p # q => Apart(SliceRegion(p), SliceRegion(q))
        /\ \E p \in parts : p.start + p.count = total_sectors(r.geometry)

\* The sectors of the first tracks of the slices that hold files.
GuestSectors(report) ==
  UNION {{<<p, rel>> : rel \in 0 .. Lesser(p.count,
             GuestTracks * report.pdinfo.geometry.sectors_per_track) - 1} :
         p \in FileSlices(Probed(report))}

\* remap_guest_visible_sector sends no two sectors of the slices that hold
\* files to one place, however tracks and sectors are marked bad, as long as
\* the slices themselves do not overlap.
GuestSectorsDistinct ==
  LET report == inspect_disk_image(image)
      files == FileSlices(Probed(report))
  IN  made /\ HasVtoc(report)
        /\ (\A p, q \in files : p # q => Apart(SliceRegion(p), SliceRegion(q)))
      => Cardinality({resolve_guest_visible_sector(image, report, x[1], x[2]) :
                        x \in GuestSectors(report)})
           = Cardinality(GuestSectors(report))

============================================================================
