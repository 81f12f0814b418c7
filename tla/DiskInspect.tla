---------------------------- MODULE DiskInspect ----------------------------
(***************************************************************************)
(* Reading a disk image back (mbr.rs, svr4.rs, inspect.rs): the active     *)
(* UNIX partition, its pdinfo and VTOC, the file system of every slice,    *)
(* how a slice is selected, and the guest-visible address of a sector.     *)
(* Also where the mount and populate commands find their UFS file system.  *)
(***************************************************************************)
EXTENDS DiskLayout, UfsFormat, Bfs

----------------------------------------------------------------------------
(* The MBR.                                                                *)

\* decode_chs: cylinder, head, sector.
decode_chs(raw) ==
  <<(raw[2] \div 64) * 256 + raw[3], raw[1], raw[2] % 64>>

\* The first bootable UNIX partition, else the first UNIX partition.
find_active_unix_partition(table) ==
  LET unix == {i \in DOMAIN table : table[i].type = UNIXWARE_PARTITION_TYPE}
      active == {i \in unix : table[i].bootable}
  IN  IF active # {} THEN table[Min(active)]
      ELSE IF unix # {} THEN table[Min(unix)] ELSE EmptyPartition

----------------------------------------------------------------------------
(* Slices.                                                                 *)

PARTITION_TAG_NAMES ==
  <<"boot", "root", "swap", "usr", "backup", "alts", "other", "alttrk",
    "stand", "var", "home", "dump">>

partition_tag_name(tag) ==
  IF tag \in DOMAIN PARTITION_TAG_NAMES THEN PARTITION_TAG_NAMES[tag] ELSE "unknown"

\* Mutant: BFS is tried first.
BfsFirst(img, base, end) ==
  IF detect_at_start(img, base, end) THEN "bfs"
  ELSE IF detect_ufs_at_start(img, base, end) THEN "ufs" ELSE "none"

\* AnyDetector: UFS first, since formatting a slice as UFS leaves its first
\* sectors, and a BFS superblock in them, as they were.
AnyDetector(img, base, end) ==
  IF detect_ufs_at_start(img, base, end) THEN "ufs"
  ELSE IF detect_at_start(img, base, end) THEN "bfs" ELSE "none"

\* probe_slice: the slice is cut off at the end of the file; a negative
\* start, taken as unsigned, is past it.
probe_slice(img, p) ==
  LET end == IF p.start + p.count < img.len THEN p.start + p.count ELSE img.len
  IN  IF p.start < 0 \/ p.start >= end THEN "none"
      ELSE AnyDetector(img, p.start, end)

----------------------------------------------------------------------------
(* inspect_disk_image.  The report's vtoc is there even when its sanity is *)
(* wrong; only then are no slices probed.  A pdinfo sector past the end of *)
(* the file is read short, and parse_pdinfo panics.                        *)

NoPdInfo == [kind |-> "zero", vtoc |-> EmptyVtoc]

Report(status, active, pdinfo) ==
  [status |-> status, active |-> active, pdinfo |-> pdinfo]

inspect_disk_image(img) ==
  LET mbr == WhatAt(img, 0)
      active == find_active_unix_partition(mbr.table)
      label == WhatAt(img, active.start + HDPDLOC)
  IN  IF mbr.kind # "mbr" \/ active.type = 0
      THEN Report("ok", EmptyPartition, NoPdInfo)
      ELSE IF active.start + HDPDLOC >= img.len
      THEN Report("panic", EmptyPartition, NoPdInfo)
      ELSE IF label.kind # "label" THEN Report("ok", active, NoPdInfo)
      ELSE Report("ok", active, label)

\* report.vtoc is None unless the pdinfo is valid.
HasVtoc(report) == report.status = "ok" /\ report.pdinfo.kind = "label"

\* The slices that are listed and probed.
Probed(report) ==
  IF ~ report.pdinfo.vtoc.sane THEN {}
  ELSE {p \in {report.pdinfo.vtoc.partitions[i] : i \in 0 .. 15} :
          p.tag # 0 /\ p.count > 0}

NoSlice == Slice(16, 0, 0, 0)

\* The commands take a negative start or length for zero.
Clamped(p) == Slice(p.index, p.tag, Greater(0, p.start), Greater(0, p.count))

\* get_vtoc_partition_by_selector: by index, else the first with the tag.
get_vtoc_partition_by_selector(report, selector) ==
  LET parts == report.pdinfo.vtoc.partitions
      tagged == {i \in 0 .. 15 : partition_tag_name(parts[i].tag) = selector.name}
  IN  IF ~ HasVtoc(report) THEN NoSlice
      ELSE IF selector.index \in 0 .. 15 THEN parts[selector.index]
      ELSE IF tagged = {} THEN NoSlice
      ELSE parts[CHOOSE i \in tagged : \A j \in tagged : i <= j]

----------------------------------------------------------------------------
(* The slice that mount and populate open: the one selected, else a bare   *)
(* image at sector 0, else the first slice with a UFS superblock.          *)

resolve_slice_ufs(img, selector) ==
  LET p == Clamped(get_vtoc_partition_by_selector(inspect_disk_image(img), selector))
  IN  IF p # NoSlice /\ detect_ufs_at_start(img, p.start, img.len)
      THEN p.start ELSE -1

autodetect_ufs(img) ==
  LET report == inspect_disk_image(img)
      ufs == {p \in Probed(report) :
                p.start >= 0 /\
                detect_ufs_at_start(img, p.start,
                                    Lesser(p.start + p.count, img.len))}
  IN  IF detect_ufs_at_start(img, 0, img.len) THEN 0
      ELSE IF ufs = {} THEN -1
      ELSE (CHOOSE p \in ufs : \A q \in ufs : p.index <= q.index).start

----------------------------------------------------------------------------
(* Bad blocks: the alternates the guest's driver redirects to.             *)

read_alt_info(img, report) ==
  WhatAt(img, report.active.start + report.pdinfo.alt_ptr)

\* Mutant: every sector of a bad track goes to the start of its alternate.
RemapTrackStart(track, sectors, s) ==
  LET hit == SelectInSeq(track.bad, LAMBDA t : t = s \div sectors)
  IN  IF hit = 0 THEN s ELSE track.base + (hit - 1) * sectors

\* The first entry for the sector's track names its alternate track.
RemapTrack(track, sectors, s) ==
  LET hit == SelectInSeq(track.bad, LAMBDA t : t = s \div sectors)
  IN  IF hit = 0 THEN s ELSE track.base + (hit - 1) * sectors + (s % sectors)

RemapSector(table, s) ==
  LET hit == SelectInSeq(table.bad, LAMBDA b : b = s)
  IN  IF hit = 0 THEN s ELSE table.base + hit - 1

\* Tracks first, then sectors; not for the slices that show the raw disk.
remap_guest_visible_sector(pdinfo, p, alt, s) ==
  IF alt.kind # "alts" \/ p.index = 0 \/ p.tag \in {V_BACKUP, V_OTHER} THEN s
  ELSE RemapSector(alt.sector,
                   RemapTrack(alt.track, pdinfo.geometry.sectors_per_track, s))

\* resolve_guest_visible_sector, for a slice of a report: where the guest
\* finds the slice's sector number rel.
resolve_guest_visible_sector(img, report, p, rel) ==
  remap_guest_visible_sector(report.pdinfo, p, read_alt_info(img, report),
                             p.start + rel)

============================================================================
