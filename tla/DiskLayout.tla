---------------------------- MODULE DiskLayout ----------------------------
(***************************************************************************)
(* How create.rs lays out a disk image: the geometry, the standard slices, *)
(* the checks, and the label structures it builds (MBR, pdinfo, VTOC,      *)
(* alternates).  A request to create an image is a record [geometry, mode, *)
(* start, size, slices]: the UNIX partition and the VTOC slices in it.     *)
(***************************************************************************)
EXTENDS Sectors, SequencesExt

HDPDLOC == 29                 \* pdinfo, within the UNIX partition
UNIXWARE_PARTITION_TYPE == 99
MAX_CHS_CYLINDERS == 1024
MAX_KERNEL_CHS_HEADS == 16
MAX_CHS_SECTORS_PER_TRACK == 63

V_BACKUP == 5
V_OTHER  == 7
LAYOUT_TAG_ROOT  == 2
LAYOUT_TAG_SWAP  == 3
LAYOUT_TAG_STAND == 9

AltPtr == 30                  \* alternates, within the UNIX partition
AltLen == 4                   \* their length: 2048 bytes

Slice(index, tag, start, count) ==
  [index |-> index, tag |-> tag, start |-> start, count |-> count]

SliceRegion(p) == Region(p.start, p.count)

NoRequest == [slices |-> <<>>, mode |-> "none"]

MiB(n) == n * 2048            \* in sectors

----------------------------------------------------------------------------
(* Geometry.                                                               *)

CylinderSize(g) == g.heads * g.sectors_per_track

total_sectors(g) == g.cylinders * CylinderSize(g)

GeometryOf(cylinders, heads, spt) ==
  [cylinders |-> cylinders, heads |-> heads, sectors_per_track |-> spt]

validate_geometry(g, mode) ==
  /\ g.cylinders > 0 /\ g.heads > 0 /\ g.sectors_per_track > 0
  /\ mode = "chs" => g.cylinders <= MAX_CHS_CYLINDERS
  /\ g.heads <= MAX_KERNEL_CHS_HEADS
  /\ g.sectors_per_track <= MAX_CHS_SECTORS_PER_TRACK

\* build_geometry: the whole cylinders that hold size_mb, as a word.
WholeCylinders(size_mb, heads, spt) == DivCeil(MiB(size_mb), heads * spt)

build_geometry(size_mb, heads, spt) ==
  GeometryOf(AsU32(WholeCylinders(size_mb, heads, spt)), heads, spt)

\* Its refusals; zero heads or sectors are refused before the division, and
\* the cylinders are counted before they are cut to a word.
geometry_possible(size_mb, heads, spt, mode) ==
  /\ heads > 0 /\ spt > 0
  /\ heads <= MAX_KERNEL_CHS_HEADS /\ spt <= MAX_CHS_SECTORS_PER_TRACK
  /\ mode = "chs" =>
       WholeCylinders(size_mb, heads, spt) <= MAX_CHS_CYLINDERS

----------------------------------------------------------------------------
(* The standard layout.  opts holds stand_start_sector, stand_size_mb,     *)
(* swap_size_mb and root_align_sectors.                                    *)

\* Mutant: the start is aligned to root_align_sectors only.
NoCylinderAlign(sector, opts, g) == align_up(sector, opts.root_align_sectors)

\* The start of a slice that may begin at "sector" at the earliest.
AlignedStart(sector, opts, g) ==
  align_up(align_up(sector, opts.root_align_sectors), CylinderSize(g))

stand_start(g, opts) == align_up(opts.stand_start_sector, CylinderSize(g))
stand_count(g, opts) == align_up(MiB(opts.stand_size_mb), CylinderSize(g))
swap_count(g, opts)  == align_up(MiB(opts.swap_size_mb), CylinderSize(g))

swap_start(g, opts) ==
  AlignedStart(stand_start(g, opts) + stand_count(g, opts), opts, g)

root_start(g, opts) ==
  AlignedStart(swap_start(g, opts) + swap_count(g, opts), opts, g)

root_count(g, opts) ==
  ((total_sectors(g) - root_start(g, opts)) \div CylinderSize(g)) * CylinderSize(g)

LayoutPossible(g, opts) ==
  /\ stand_count(g, opts) > 0 /\ swap_count(g, opts) > 0
  /\ stand_start(g, opts) >= 1
  /\ root_start(g, opts) < total_sectors(g)
  /\ root_count(g, opts) > 0

\* The partition's size is cut to a word, the slices are not: a disk that is
\* too long is refused by validate_vtoc_partitions, for its backup slice.
build_slice_layout(g, mode, opts) ==
  [geometry |-> g, mode |-> mode, start |-> 1, size |-> AsU32(total_sectors(g) - 1),
   slices |-> <<Slice(0, V_BACKUP, 1, total_sectors(g) - 1),
                Slice(1, LAYOUT_TAG_ROOT, root_start(g, opts), root_count(g, opts)),
                Slice(2, LAYOUT_TAG_SWAP, swap_start(g, opts), swap_count(g, opts)),
                Slice(10, LAYOUT_TAG_STAND, stand_start(g, opts),
                      stand_count(g, opts))>>]

----------------------------------------------------------------------------
(* Checks on a request.                                                    *)

validate_unix_partition(r) ==
  /\ r.start >= 1 /\ r.size > 0
  /\ r.start + r.size <= total_sectors(r.geometry)

\* Slices may overlap, and may cover the partition's own label.
validate_vtoc_partitions(r) ==
  /\ \A p \in ToSet(r.slices) :
       /\ p.index \in 0 .. 15
       /\ p.start >= 0 /\ p.count >= 0
       /\ p.start >= r.start /\ p.start + p.count <= r.start + r.size
  /\ \A i, j \in DOMAIN r.slices : i # j => r.slices[i].index # r.slices[j].index

Valid(r) ==
  /\ validate_geometry(r.geometry, r.mode)
  /\ validate_unix_partition(r)
  /\ validate_vtoc_partitions(r)

----------------------------------------------------------------------------
(* Label structures.                                                       *)

\* The three CHS bytes of an address that is not 0: head, sector with the
\* cylinder's bits 8 and 9, the cylinder's low byte.
ChsBytes(lba, g) ==
  LET cylinder == lba \div CylinderSize(g)
      temp == lba % CylinderSize(g)
  IN  <<(temp \div g.sectors_per_track) % 256,
        (((temp % g.sectors_per_track) + 1) % 64) + 64 * ((cylinder \div 256) % 4),
        cylinder % 256>>

\* Only lba28 saturates; the other mode refuses an address past the end.
Encodable(lba, g, saturate) == saturate \/ lba <= total_sectors(g) - 1

encode_chs(lba, g, saturate) ==
  LET last == total_sectors(g) - 1
      cap == MAX_CHS_CYLINDERS * CylinderSize(g) - 1
      inside == IF lba > last THEN last ELSE lba
      shown == IF saturate /\ inside > cap THEN cap ELSE inside
  IN  IF lba = 0 THEN <<0, 0, 0>> ELSE ChsBytes(shown, g)

Partition(r) ==
  [bootable |-> TRUE, type |-> UNIXWARE_PARTITION_TYPE, start |-> r.start,
   count |-> r.size,
   start_chs |-> encode_chs(r.start, r.geometry, r.mode = "lba28"),
   end_chs |-> encode_chs(r.start + r.size - 1, r.geometry, r.mode = "lba28")]

EmptyPartition ==
  [bootable |-> FALSE, type |-> 0, start |-> 0, count |-> 0,
   start_chs |-> <<0, 0, 0>>, end_chs |-> <<0, 0, 0>>]

MbrPossible(r) ==
  \A lba \in {r.start, r.start + r.size - 1} :
    Encodable(lba, r.geometry, r.mode = "lba28")

build_mbr(r) ==
  [kind |-> "mbr", code |-> "none",
   table |-> <<Partition(r), EmptyPartition, EmptyPartition, EmptyPartition>>]

EmptyVtoc ==
  [sane |-> FALSE, partitions |-> [i \in 0 .. 15 |-> Slice(i, 0, 0, 0)]]

\* The VTOC starts at byte 100 of the pdinfo sector: the two share it.
build_pdinfo(r) ==
  [kind |-> "label", geometry |-> r.geometry, logical_sector_0 |-> r.start,
   alt_ptr |-> AltPtr, vtoc |-> EmptyVtoc]

\* The start and the length of a slice are stored as signed words, although
\* the checks above were made in 64 bits.
Stored(p) == Slice(p.index, p.tag, AsI32(p.start), AsI32(p.count))

build_vtoc(slices) ==
  [sane |-> TRUE,
   partitions |->
     [i \in 0 .. 15 |->
        IF \E p \in ToSet(slices) : p.index = i
        THEN Stored(CHOOSE p \in ToSet(slices) : p.index = i)
        ELSE Slice(i, 0, 0, 0)]]

EmptyTable == [base |-> 0, bad |-> <<>>]

build_empty_alt_info ==
  [kind |-> "alts", track |-> EmptyTable, sector |-> EmptyTable]

LabelSector(r) == r.start + HDPDLOC

============================================================================
