-------------------------- MODULE DiskImageProofs --------------------------
(***************************************************************************)
(* Proofs about the layouts that svr4-disk-image computes, for every       *)
(* geometry, size and option: the standard slices of create-layout, and    *)
(* the cylinder groups of format-ufs.                                      *)
(***************************************************************************)
EXTENDS DiskImage, ArithmeticLemmas

----------------------------------------------------------------------------
(* Rounding.                                                               *)

\* DivCeil is the least multiple count that covers its argument.
LEMMA DivCeilBounds ==
  ASSUME NEW x \in Nat, NEW n \in Nat \ {0}
  PROVE  /\ DivCeil(x, n) \in Nat
         /\ x <= n * DivCeil(x, n) /\ n * DivCeil(x, n) < x + n
<1> DEFINE q == DivCeil(x, n)
<1>1. x + n - 1 \in Nat  OBVIOUS
<1>2. q \in Int /\ (x + n - 1) % n \in 0 .. n - 1
      /\ x + n - 1 = n * q + ((x + n - 1) % n)
  BY <1>1, DivMod DEF DivCeil
<1>3. q \in Nat  BY <1>1 DEF DivCeil
<1> HIDE DEF q
<1>4. n * q \in Int  BY <1>2
<1>5. x <= n * q /\ n * q < x + n  BY <1>2, <1>4
<1> QED  BY <1>3, <1>5 DEF q

\* align_up reaches the next multiple, and zero alignment changes nothing.
LEMMA AlignUp ==
  ASSUME NEW x \in Nat, NEW n \in Nat
  PROVE  /\ align_up(x, n) \in Nat /\ x <= align_up(x, n)
         /\ n # 0 => /\ align_up(x, n) = n * DivCeil(x, n)
                     /\ DivCeil(x, n) \in Nat
<1>1. CASE n = 0  BY <1>1 DEF align_up
<1>2. CASE n # 0
  <2> DEFINE q == DivCeil(x, n)
  <2>1. q \in Nat /\ x <= n * q  BY <1>2, DivCeilBounds
  <2>2. align_up(x, n) = q * n  BY <1>2 DEF align_up
  <2> HIDE DEF q
  <2>3. q * n = n * q /\ n * q \in Nat  BY <2>1
  <2> QED  BY <2>1, <2>2, <2>3 DEF q
<1> QED  BY <1>1, <1>2

----------------------------------------------------------------------------
(* Words.                                                                  *)

\* What an unsigned word keeps: all of a number below 2^32, else less.
LEMMA UnsignedWord ==
  ASSUME NEW x \in Nat
  PROVE  /\ AsU32(x) \in Nat /\ AsU32(x) <= x
         /\ x < WordMod => AsU32(x) = x
<1> DEFINE n == WordMod
           q == x \div n
<1>1. n \in Nat \ {0}  BY WordAssumption
<1>2. q \in Int /\ x % n \in 0 .. n - 1 /\ x = n * q + (x % n)  BY <1>1, DivMod
<1>3. q \in Nat  BY <1>1
<1>4. x < n => q = 0  BY <1>1, DivUnique
<1> HIDE DEF n, q
<1>5. n * q \in Nat  BY <1>1, <1>3
<1>6. x < n => n * q = 0  BY <1>1, <1>4
<1>7. x % n \in Nat /\ x % n <= x /\ (x < n => x % n = x)
  BY <1>1, <1>2, <1>5, <1>6
<1> QED  BY <1>7 DEF AsU32, n

\* A signed word holds an integer, and a number below 2^31 as it is.
LEMMA SignedWord ==
  ASSUME NEW x \in Int
  PROVE  /\ AsI32(x) \in Int
         /\ x \in Nat /\ x < WordMod \div 2 => AsI32(x) = x
<1>1. WordMod \in Nat \ {0}  BY WordAssumption
<1>2. AsU32(x) \in Int  BY <1>1, ModType DEF AsU32
<1>3. WordMod \div 2 <= WordMod /\ WordMod \div 2 \in Int  BY <1>1
<1>4. x \in Nat /\ x < WordMod \div 2 => AsU32(x) = x  BY <1>1, <1>3, UnsignedWord
<1> HIDE DEF AsU32
<1> QED  BY <1>1, <1>2, <1>3, <1>4 DEF AsI32

----------------------------------------------------------------------------
(* The standard slices of create-layout.                                   *)

\* A multiple leaves no remainder.
LEMMA MultipleMod ==
  ASSUME NEW n \in Nat \ {0}, NEW q \in Nat  PROVE (n * q) % n = 0
<1> DEFINE x == n * q
<1>1. x \in Int  OBVIOUS
<1>2. x \div n = q  BY <1>1, DivUnique
<1>3. x = n * q  OBVIOUS
<1> HIDE DEF x
<1>4. x % n \in Int /\ x = n * (x \div n) + (x % n)
  <2>1. x % n \in 0 .. n - 1 /\ x = n * (x \div n) + (x % n)  BY <1>1, DivMod
  <2> QED  BY <2>1
<1>5. x % n = 0  BY <1>1, <1>2, <1>3, <1>4
<1> QED  BY <1>5 DEF x

\* A disk and its cylinders in sectors; no geometry that passes
\* validate_geometry has empty cylinders.
LEMMA CylinderType ==
  ASSUME NEW g \in GeometryType
  PROVE  /\ CylinderSize(g) \in Nat
         /\ total_sectors(g) = CylinderSize(g) * g.cylinders
         /\ g.cylinders \in Nat
         /\ g.heads > 0 /\ g.sectors_per_track > 0 => CylinderSize(g) > 0
  BY DEF GeometryType, CylinderSize, total_sectors

\* align_up to cylinders gives whole cylinders.
LEMMA CylinderAlign ==
  ASSUME NEW g \in GeometryType, CylinderSize(g) > 0, NEW x \in Nat
  PROVE  \E q \in Nat : /\ align_up(x, CylinderSize(g)) = CylinderSize(g) * q
                        /\ x <= CylinderSize(g) * q
<1> DEFINE u == CylinderSize(g)
<1>1. u \in Nat /\ u # 0  BY CylinderType
<1> HIDE DEF u
<1>2. DivCeil(x, u) \in Nat /\ align_up(x, u) = u * DivCeil(x, u)
      /\ x <= align_up(x, u)
  BY <1>1, AlignUp
<1> QED  BY <1>2 DEF u

\* However root_align_sectors and the cylinders relate, a slice starts on a
\* cylinder, at or after the sector it was to start at.
LEMMA StartsAligned ==
  ASSUME NEW g \in GeometryType, CylinderSize(g) > 0,
         NEW opts \in LayoutOptions, NEW x \in Nat
  PROVE  \E q \in Nat : /\ AlignedStart(x, opts, g) = CylinderSize(g) * q
                        /\ x <= CylinderSize(g) * q
<1> DEFINE y == align_up(x, opts.root_align_sectors)
<1>1. y \in Nat /\ x <= y  BY AlignUp DEF LayoutOptions
<1> HIDE DEF y
<1>2. PICK q \in Nat : /\ align_up(y, CylinderSize(g)) = CylinderSize(g) * q
                       /\ y <= CylinderSize(g) * q
  BY <1>1, CylinderAlign
<1>3. CylinderSize(g) * q \in Nat  BY CylinderType
<1> QED  BY <1>1, <1>2, <1>3 DEF AlignedStart, y

\* The slices in whole cylinders: stand, swap and root follow each other,
\* and root ends where the disk ends.
LEMMA StandardSlices ==
  ASSUME NEW g \in GeometryType, CylinderSize(g) > 0,
         NEW opts \in LayoutOptions, LayoutPossible(g, opts)
  PROVE  LET u == CylinderSize(g)
         IN  \E a, b, c, d, e, f \in Nat :
               /\ stand_start(g, opts) = u * a /\ stand_count(g, opts) = u * b
               /\ swap_start(g, opts) = u * c /\ swap_count(g, opts) = u * d
               /\ root_start(g, opts) = u * e /\ root_count(g, opts) = u * f
               /\ 0 < a /\ 0 < b /\ 0 < d /\ 0 < f
               /\ u * a + u * b <= u * c /\ u * c + u * d <= u * e
               /\ u * e + u * f = total_sectors(g)
<1> DEFINE u == CylinderSize(g)
           T == total_sectors(g)
<1>u. u \in Nat \ {0}  BY CylinderType
<1>1. PICK a \in Nat : stand_start(g, opts) = u * a
  BY CylinderAlign DEF LayoutOptions, stand_start
<1>2. PICK b \in Nat : stand_count(g, opts) = u * b
  <2>1. MiB(opts.stand_size_mb) \in Nat  BY DEF LayoutOptions, MiB
  <2> QED  BY <2>1, CylinderAlign DEF stand_count
<1>3. PICK d \in Nat : swap_count(g, opts) = u * d
  <2>1. MiB(opts.swap_size_mb) \in Nat  BY DEF LayoutOptions, MiB
  <2> QED  BY <2>1, CylinderAlign DEF swap_count
<1>4. PICK c \in Nat : swap_start(g, opts) = u * c /\ u * a + u * b <= u * c
  <2>1. u * a + u * b \in Nat  BY <1>u
  <2> QED  BY <2>1, <1>1, <1>2, StartsAligned DEF swap_start
<1>5. PICK e \in Nat : root_start(g, opts) = u * e /\ u * c + u * d <= u * e
  <2>1. u * c + u * d \in Nat  BY <1>u
  <2> QED  BY <2>1, <1>3, <1>4, StartsAligned DEF root_start
<1>6. /\ T = u * g.cylinders /\ g.cylinders \in Nat
      /\ u * e < T
  BY <1>5, CylinderType DEF LayoutPossible
<1>7. root_count(g, opts) = ((T - u * e) \div u) * u
  BY <1>5 DEF root_count
<1>8. u * a > 0 /\ u * b > 0 /\ u * d > 0
  <2>1. u * a >= 1  BY <1>1 DEF LayoutPossible
  <2>2. u * b > 0 /\ u * d > 0  BY <1>2, <1>3 DEF LayoutPossible
  <2> QED  BY <2>1, <2>2, <1>u
<1> HIDE DEF u, T
<1>9. e < g.cylinders  BY <1>u, <1>6, MulCancel
<1> DEFINE f == g.cylinders - e
<1>10. f \in Nat /\ f > 0  BY <1>6, <1>9
<1>11. T - u * e = u * f
  <2> DEFINE k == g.cylinders
  <2>1. k \in Nat /\ T = u * k  BY <1>6
  <2> HIDE DEF k
  <2>2. u * k - u * e = u * (k - e)  BY <1>u, <2>1
  <2> QED  BY <2>1, <2>2 DEF k
<1> HIDE DEF f
<1>12. (u * f) \div u = f
  <2>1. u * f \in Int  BY <1>u, <1>10
  <2> QED  BY <2>1, <1>u, <1>10, DivUnique
<1>13. root_count(g, opts) = u * f  BY <1>7, <1>10, <1>11, <1>12, <1>u
<1>14. u * e + u * f = T
  <2>1. u * e \in Nat /\ u * f \in Nat /\ T \in Int  BY <1>u, <1>6, <1>10
  <2> QED  BY <1>11, <2>1
<1>15. a > 0 /\ b > 0 /\ d > 0  BY <1>8, <1>u
<1> QED
  BY <1>1, <1>2, <1>3, <1>4, <1>5, <1>10, <1>13, <1>14, <1>15 DEF u, T

\* The whole layout of a request, as LayoutSlicesApart states it.
SlicesSound(r) ==
  LET parts == {p \in ToSet(r.slices) : p.index # 0}
      unit == CylinderSize(r.geometry)
  IN  /\ \A p \in parts :
           /\ p.start % unit = 0 /\ p.count % unit = 0 /\ p.count > 0
           /\ Within(SliceRegion(p), Region(r.start, r.size))
           /\ unit >= 35 =>
                Apart(SliceRegion(p), Region(0, r.start + AltPtr + AltLen))
      /\ \A p, q \in parts : p # q => Apart(SliceRegion(p), SliceRegion(q))
      /\ \E p \in parts : p.start + p.count = total_sectors(r.geometry)

\* The partition's size is not cut to a word, since the backup slice, whose
\* length is not, has to fit in it.
LEMMA StandardSize ==
  ASSUME NEW g \in GeometryType, NEW mode, NEW opts,
         Valid(build_slice_layout(g, mode, opts))
  PROVE  AsU32(total_sectors(g) - 1) = total_sectors(g) - 1
<1> DEFINE T == total_sectors(g)
           r == build_slice_layout(g, mode, opts)
           backup == Slice(0, V_BACKUP, 1, T - 1)
<1>1. r.slices[1] = backup /\ 1 \in DOMAIN r.slices /\ r.start = 1
      /\ r.size = AsU32(T - 1)
  BY DEF build_slice_layout
<1>2. backup \in ToSet(r.slices)  BY <1>1 DEF ToSet
<1>3. backup.start = 1 /\ backup.count = T - 1  BY DEF Slice
<1> HIDE DEF r, backup
<1>4. backup.count >= 0 /\ backup.start + backup.count <= r.start + r.size
  BY <1>2 DEF Valid, validate_vtoc_partitions, r
<1>5. T \in Int
  <2>1. CylinderSize(g) \in Nat /\ T = CylinderSize(g) * g.cylinders
        /\ g.cylinders \in Nat
    BY CylinderType
  <2> QED  BY <2>1
<1> HIDE DEF T
<1>6. T - 1 \in Nat  BY <1>3, <1>4, <1>5
<1>7. AsU32(T - 1) \in Nat /\ AsU32(T - 1) <= T - 1  BY <1>6, UnsignedWord
<1>8. AsU32(T - 1) = T - 1  BY <1>1, <1>3, <1>4, <1>5, <1>7
<1> QED  BY <1>8 DEF T

\* build_slice_layout: whatever disk and options got past the checks.
LEMMA StandardLayoutSound ==
  ASSUME NEW g \in GeometryType, CylinderSize(g) > 0, NEW mode,
         NEW opts \in LayoutOptions, LayoutPossible(g, opts),
         Valid(build_slice_layout(g, mode, opts))
  PROVE  SlicesSound(build_slice_layout(g, mode, opts))
<1> DEFINE u == CylinderSize(g)
           T == total_sectors(g)
           r == build_slice_layout(g, mode, opts)
           parts == {p \in ToSet(r.slices) : p.index # 0}
<1>u. u \in Nat \ {0}  BY CylinderType
<1>1. PICK a, b, c, d, e, f \in Nat :
        /\ stand_start(g, opts) = u * a /\ stand_count(g, opts) = u * b
        /\ swap_start(g, opts) = u * c /\ swap_count(g, opts) = u * d
        /\ root_start(g, opts) = u * e /\ root_count(g, opts) = u * f
        /\ 0 < a /\ 0 < b /\ 0 < d /\ 0 < f
        /\ u * a + u * b <= u * c /\ u * c + u * d <= u * e
        /\ u * e + u * f = T
  BY StandardSlices
<1> DEFINE backup == Slice(0, V_BACKUP, 1, T - 1)
           root == Slice(1, LAYOUT_TAG_ROOT, u * e, u * f)
           swap == Slice(2, LAYOUT_TAG_SWAP, u * c, u * d)
           stand == Slice(10, LAYOUT_TAG_STAND, u * a, u * b)
<1>2. /\ r.slices = <<backup, root, swap, stand>>
      /\ r.geometry = g /\ r.start = 1 /\ r.size = T - 1
  <2>1. r.size = AsU32(T - 1) /\ AsU32(T - 1) = T - 1
    BY StandardSize DEF build_slice_layout
  <2> QED  BY <1>1, <2>1 DEF build_slice_layout
<1>3. parts = {root, swap, stand}
  <2>1. ToSet(r.slices) = {backup, root, swap, stand}
    <3> DEFINE s == <<backup, root, swap, stand>>
    <3>1. DOMAIN s = 1 .. 4  OBVIOUS
    <3>2. ToSet(s) = {s[1], s[2], s[3], s[4]}  BY <3>1 DEF ToSet
    <3>3. s[1] = backup /\ s[2] = root /\ s[3] = swap /\ s[4] = stand  OBVIOUS
    <3> HIDE DEF s, backup, root, swap, stand
    <3> QED  BY <1>2, <3>2, <3>3 DEF s
  <2>2. backup.index = 0 /\ root.index = 1 /\ swap.index = 2 /\ stand.index = 10
    BY DEF Slice
  <2> HIDE DEF r, backup, root, swap, stand
  <2> QED  BY <2>1, <2>2
<1>4. /\ u * a \in Nat /\ u * b \in Nat /\ u * c \in Nat
      /\ u * d \in Nat /\ u * e \in Nat /\ u * f \in Nat
      /\ u <= u * a /\ 0 < u * b /\ 0 < u * d /\ 0 < u * f
  <2>1. u <= u * a /\ u <= u * b /\ u <= u * d /\ u <= u * f
    <3>1. u * 0 + u <= u * a /\ u * 0 + u <= u * b
          /\ u * 0 + u <= u * d /\ u * 0 + u <= u * f
      BY <1>1, <1>u, MulMono
    <3> QED  BY <3>1, <1>u
  <2>2. /\ u * a \in Nat /\ u * b \in Nat /\ u * c \in Nat
        /\ u * d \in Nat /\ u * e \in Nat /\ u * f \in Nat
    BY <1>u
  <2> QED  BY <2>1, <2>2, <1>u
<1>5. /\ (u * a) % u = 0 /\ (u * b) % u = 0 /\ (u * c) % u = 0
      /\ (u * d) % u = 0 /\ (u * e) % u = 0 /\ (u * f) % u = 0
  BY <1>u, MultipleMod
<1>6. /\ root.start = u * e /\ root.count = u * f
      /\ swap.start = u * c /\ swap.count = u * d
      /\ stand.start = u * a /\ stand.count = u * b
  BY DEF Slice
<1>7. T \in Int /\ u * a + u * b <= u * c /\ u * c + u * d <= u * e
      /\ u * e + u * f = T
  BY <1>1, <1>4
<1> HIDE DEF u, T, r, root, swap, stand, backup
<1>8. \A p \in {root, swap, stand} :
        /\ p.start % u = 0 /\ p.count % u = 0 /\ p.count > 0
        /\ p.start \in Nat /\ p.count \in Nat
        /\ u <= p.start /\ p.start + p.count <= T
  <2> DEFINE xa == u * a   xb == u * b   xc == u * c
             xd == u * d   xe == u * e   xf == u * f
  <2>1. /\ xa \in Nat /\ xb \in Nat /\ xc \in Nat /\ xd \in Nat /\ xe \in Nat
        /\ xf \in Nat /\ u <= xa /\ 0 < xb /\ 0 < xd /\ 0 < xf
        /\ xa + xb <= xc /\ xc + xd <= xe /\ xe + xf = T /\ T \in Int
    BY <1>4, <1>7
  <2>2. /\ xa % u = 0 /\ xb % u = 0 /\ xc % u = 0
        /\ xd % u = 0 /\ xe % u = 0 /\ xf % u = 0
    BY <1>5
  <2>3. /\ root.start = xe /\ root.count = xf /\ swap.start = xc
        /\ swap.count = xd /\ stand.start = xa /\ stand.count = xb
    BY <1>6
  <2> HIDE DEF xa, xb, xc, xd, xe, xf
  <2>4. /\ u <= xc /\ u <= xe /\ xa + xb <= T /\ xc + xd <= T /\ xe + xf <= T
    BY <2>1, <1>u
  <2> QED  BY <2>1, <2>2, <2>3, <2>4
<1>9. ASSUME NEW p \in parts
      PROVE  /\ p.start % u = 0 /\ p.count % u = 0 /\ p.count > 0
             /\ Within(SliceRegion(p), Region(r.start, r.size))
             /\ u >= 35 =>
                  Apart(SliceRegion(p), Region(0, r.start + AltPtr + AltLen))
  BY <1>2, <1>3, <1>7, <1>8, <1>9, <1>u
     DEF Within, Apart, SliceRegion, Region, AltPtr, AltLen
<1>10. /\ Apart(SliceRegion(root), SliceRegion(swap))
       /\ Apart(SliceRegion(root), SliceRegion(stand))
       /\ Apart(SliceRegion(swap), SliceRegion(stand))
       /\ Apart(SliceRegion(swap), SliceRegion(root))
       /\ Apart(SliceRegion(stand), SliceRegion(root))
       /\ Apart(SliceRegion(stand), SliceRegion(swap))
  BY <1>4, <1>6, <1>7 DEF Apart, SliceRegion, Region
<1>11. \A p, q \in parts : p # q => Apart(SliceRegion(p), SliceRegion(q))
  BY <1>3, <1>10
<1>12. root \in parts /\ root.start + root.count = T  BY <1>3, <1>6, <1>7
<1> QED  BY <1>2, <1>9, <1>11, <1>12 DEF SlicesSound, u, T, r

\* The geometry create_layout works with is one of whole, non-empty
\* cylinders, given in full or computed from a size.
LEMMA ResolvedGeometry ==
  ASSUME NEW l \in Layouts,
         l.size_mb > 0 => geometry_possible(l.size_mb, l.heads, l.sectors, l.mode)
  PROVE  (IF l.size_mb > 0 THEN build_geometry(l.size_mb, l.heads, l.sectors)
          ELSE GeometryOf(l.cylinders, l.heads, l.sectors)) \in GeometryType
<1>1. /\ l.size_mb \in Nat /\ l.heads \in Nat /\ l.sectors \in Nat
      /\ l.cylinders \in Nat
  BY ArgumentsAssumption
<1>2. CASE l.size_mb > 0
  <2> DEFINE n == l.heads * l.sectors
             x == MiB(l.size_mb)
  <2>1. n \in Nat \ {0} /\ x \in Nat
    BY <1>1, <1>2 DEF geometry_possible, MiB
  <2> HIDE DEF n, x
  <2>2. AsU32(DivCeil(x, n)) \in Nat  BY <2>1, DivCeilBounds, UnsignedWord
  <2> QED
    BY <1>1, <1>2, <2>2
       DEF build_geometry, WholeCylinders, GeometryOf, GeometryType, n, x
<1>3. CASE ~(l.size_mb > 0)
  BY <1>1, <1>3 DEF GeometryOf, GeometryType
<1> QED  BY <1>2, <1>3

\* On every disk and with every option that create-layout accepts, root,
\* swap and stand are whole cylinders inside the partition, apart from each
\* other and (with cylinders of at least 35 sectors) from the bootstrap, the
\* label and the alternates, and root takes what is left.
THEOREM SlicesAreApart == Spec => []LayoutSlicesApart
<1>1. Init => LayoutSlicesApart  BY DEF Init, LayoutSlicesApart
<1>2. LayoutSlicesApart /\ [Next]_vars => LayoutSlicesApart'
  <2> SUFFICES ASSUME LayoutSlicesApart, [Next]_vars  PROVE LayoutSlicesApart'
    OBVIOUS
  <2>1. CASE asked' = asked  BY <2>1 DEF LayoutSlicesApart
  <2>2. CASE CreateSkeleton
    <3>1. asked' \in Skeletons  BY <2>2 DEF CreateSkeleton, Begin
    <3> QED  BY <3>1 DEF LayoutSlicesApart
  <2>3. CASE CreateLayout
    <3>1. PICK l \in Layouts :
            LET g == IF l.size_mb > 0
                     THEN build_geometry(l.size_mb, l.heads, l.sectors)
                     ELSE GeometryOf(l.cylinders, l.heads, l.sectors)
            IN  /\ l.size_mb > 0 =>
                     geometry_possible(l.size_mb, l.heads, l.sectors, l.mode)
                /\ LayoutPossible(g, l.opts)
                /\ Begin(build_slice_layout(g, l.mode, l.opts))
      BY <2>3 DEF CreateLayout
    <3> DEFINE g == IF l.size_mb > 0
                    THEN build_geometry(l.size_mb, l.heads, l.sectors)
                    ELSE GeometryOf(l.cylinders, l.heads, l.sectors)
               r == build_slice_layout(g, l.mode, l.opts)
    <3>2. g \in GeometryType /\ l.opts \in LayoutOptions
      BY <3>1, ResolvedGeometry, ArgumentsAssumption
    <3>3. LayoutPossible(g, l.opts) /\ asked' = r /\ Valid(r)
      BY <3>1 DEF Begin
    <3> HIDE DEF g
    <3>4. r.geometry = g  BY DEF build_slice_layout
    <3>5. CylinderSize(g) > 0
      BY <3>2, <3>3, <3>4, CylinderType DEF Valid, validate_geometry
    <3>6. SlicesSound(r)  BY <3>2, <3>3, <3>5, StandardLayoutSound
    <3> HIDE DEF r
    <3> QED  BY <3>3, <3>6 DEF LayoutSlicesApart, SlicesSound
  <2>4. CASE WriteMbr  BY <2>1, <2>4 DEF WriteMbr
  <2>5. CASE WritePdinfo  BY <2>1, <2>5 DEF WritePdinfo
  <2>6. CASE WriteVtoc  BY <2>1, <2>6 DEF WriteVtoc
  <2>7. CASE WriteAlternates  BY <2>1, <2>7 DEF WriteAlternates
  <2>8. CASE Killed  BY <2>1, <2>8 DEF Killed
  <2>9. CASE FormatBfs  BY <2>1, <2>9 DEF FormatBfs
  <2>10. CASE FormatUfs  BY <2>1, <2>10 DEF FormatUfs
  <2>11. CASE InstallBoot  BY <2>1, <2>11 DEF InstallBoot
  <2>12. CASE MarkBad  BY <2>1, <2>12 DEF MarkBad
  <2>13. CASE UNCHANGED vars  BY <2>1, <2>13 DEF vars
  <2> QED
    BY <2>2, <2>3, <2>4, <2>5, <2>6, <2>7, <2>8, <2>9, <2>10, <2>11, <2>12,
       <2>13 DEF Next
<1> QED  BY <1>1, <1>2, PTL DEF Spec

----------------------------------------------------------------------------
(* The cylinder groups of format-ufs.                                      *)

FormatOptions ==
  [block_size : Nat, bytes_per_inode : Nat, tracks_per_cylinder : Nat,
   sectors_per_track : Nat]

\* The two block sizes the checks of format let through.
LEMMA BlockSizes ==
  ASSUME NEW img, NEW base, NEW size \in Int, NEW opts \in FormatOptions,
         Acceptable(img, base, size, opts)
  PROVE  \/ opts.block_size = 4096 /\ opts.block_size \div SECTOR_SIZE = 8
         \/ opts.block_size = 8192 /\ opts.block_size \div SECTOR_SIZE = 16
<1> DEFINE b == opts.block_size
<1>1. b \in Nat /\ b \div 512 \in {2 ^ k : k \in 3 .. 4} /\ b % 512 = 0
  BY DEF FormatOptions, Acceptable, SECTOR_SIZE
<1> HIDE DEF b
<1>2. {2 ^ k : k \in 3 .. 4} = {8, 16}  OBVIOUS
<1>3. b \div 512 = 8 \/ b \div 512 = 16  BY <1>1, <1>2
<1>4. b = 4096 \/ b = 8192  BY <1>1, <1>3
<1> QED  BY <1>3, <1>4 DEF b, SECTOR_SIZE

\* A group has at least one cylinder and no more than its bitmap describes;
\* the groups cover the cylinders and the last one is not empty.
LEMMA GroupSizes ==
  ASSUME NEW img, NEW base, NEW size \in Int, NEW opts \in FormatOptions,
         Acceptable(img, base, size, opts)
  PROVE  LET cpg == cylinders_per_group(size, opts)
             ncg == DivCeil(size \div spc(opts), cpg)
             fpg == cpg * spc(opts)
         IN  /\ cpg \in Nat \ {0} /\ spc(opts) \in Nat \ {0} /\ ncg \in Nat \ {0}
             /\ fpg \in Nat \ {0}
             /\ fpg <= (opts.block_size - UFS_CG_FREE_OFFSET) * 8
             /\ fpg * (ncg - 1) < size /\ size <= fpg * ncg
<1> DEFINE s == spc(opts)
           ncyl == size \div s
           m == max_cylinders_per_group(opts)
           cpg == cylinders_per_group(size, opts)
           ncg == DivCeil(ncyl, cpg)
           w == (opts.block_size - UFS_CG_FREE_OFFSET) * 8
<1>1. s \in Nat \ {0}
  <2>1. s \in Nat  BY DEF FormatOptions, spc
  <2> QED  BY <2>1 DEF Acceptable
<1>2. w \in Nat
  BY BlockSizes DEF UFS_CG_FREE_OFFSET
<1>3. m = w \div s /\ m > 0  BY DEF max_cylinders_per_group, Acceptable
<1>4. size > 0 /\ size % s = 0  BY DEF Acceptable
<1>5. cpg = Lesser(Lesser(ncyl, MAXCPG), m)  BY DEF cylinders_per_group
<1> HIDE DEF s, m, cpg, w
<1>6. ncyl \in Int /\ size = s * ncyl
  <2>1. ncyl \in Int /\ size = s * ncyl + (size % s)  BY <1>1, DivMod
  <2> HIDE DEF ncyl
  <2> QED  BY <1>1, <1>4, <2>1
<1> HIDE DEF ncyl
<1>7. ncyl \in Nat \ {0}
  <2>1. s * 0 < s * ncyl  BY <1>1, <1>4, <1>6
  <2> QED  BY <1>1, <1>6, <2>1, MulCancel
<1>8. m \in Nat /\ s * m <= w
  <2>1. m \in Int /\ w % s \in 0 .. s - 1 /\ w = s * m + (w % s)
    BY <1>1, <1>2, <1>3, DivMod
  <2>2. s * m \in Int /\ w % s \in Nat /\ m > 0  BY <1>1, <1>3, <2>1
  <2> QED  BY <2>1, <2>2
<1>9. cpg \in Nat \ {0} /\ cpg <= m
  BY <1>3, <1>5, <1>7, <1>8 DEF Lesser, MAXCPG
<1>10. ncg \in Nat /\ ncyl <= cpg * ncg /\ cpg * ncg < ncyl + cpg
  BY <1>7, <1>9, DivCeilBounds
<1> HIDE DEF ncg
<1>11. cpg * ncg \in Nat  BY <1>9, <1>10
<1>12. ncg # 0  BY <1>7, <1>9, <1>10
<1>13. cpg * s \in Nat \ {0} /\ s * cpg = cpg * s  BY <1>1, <1>9
<1>14. cpg * s <= w
  <2>1. cpg < m => s * cpg + s <= s * m  BY <1>1, <1>8, <1>9, MulMono
  <2>2. s * m \in Nat /\ s * cpg \in Nat  BY <1>1, <1>8, <1>9
  <2> QED  BY <1>1, <1>2, <1>8, <1>9, <1>13, <2>1, <2>2
<1>15. size <= (cpg * s) * ncg
  <2> DEFINE k == cpg * ncg
  <2>1. k \in Nat /\ ncyl <= k  BY <1>10, <1>11
  <2>2. (cpg * s) * ncg = s * k  BY <1>1, <1>9, <1>10
  <2> HIDE DEF k
  <2>3. ncyl < k => s * ncyl + s <= s * k  BY <1>1, <1>7, <2>1, MulMono
  <2>4. s * ncyl \in Nat /\ s * k \in Nat  BY <1>1, <1>7, <2>1
  <2>5. s * ncyl <= s * k  BY <1>1, <1>7, <2>1, <2>3, <2>4
  <2> QED  BY <1>6, <2>2, <2>5
<1>16. (cpg * s) * (ncg - 1) < size
  <2> DEFINE j == cpg * (ncg - 1)
  <2>1. j \in Nat /\ j < ncyl
    <3>1. cpg * (ncg - 1) = cpg * ncg - cpg  BY <1>9, <1>10
    <3>2. ncg - 1 \in Nat  BY <1>10, <1>12
    <3>3. cpg * (ncg - 1) \in Nat  BY <1>9, <3>2
    <3> QED  BY <1>7, <1>9, <1>10, <1>11, <3>1, <3>3
  <2>2. (cpg * s) * (ncg - 1) = s * j  BY <1>1, <1>9, <1>10
  <2> HIDE DEF j
  <2>3. s * j + s <= s * ncyl  BY <1>1, <1>7, <2>1, MulMono
  <2>4. s * j \in Nat /\ s * ncyl \in Nat  BY <1>1, <1>7, <2>1
  <2> QED  BY <1>1, <1>6, <2>2, <2>3, <2>4
<1> QED
  BY <1>1, <1>9, <1>10, <1>12, <1>13, <1>14, <1>15, <1>16 DEF s, ncyl, cpg, ncg, w

\* The inode blocks leave room for a data block and are no more than MAXIPG.
LEMMA InodeBlocks ==
  ASSUME NEW img, NEW base, NEW size \in Int, NEW opts \in FormatOptions,
         Acceptable(img, base, size, opts),
         NEW ncg \in Nat \ {0}, NEW fpg \in Nat, NEW n \in Nat
  PROVE  LET count == compute_inode_block_count(size, opts, ncg, fpg, n)
             frag == opts.block_size \div SECTOR_SIZE
         IN  /\ count \in Nat
             /\ count > 0 => (n + count + 1) * frag <= fpg
             /\ count * (opts.block_size \div UFS_DINODE_SIZE) <= MAXIPG
<1> DEFINE ipb == opts.block_size \div UFS_DINODE_SIZE
           frag == opts.block_size \div SECTOR_SIZE
           t == Greater(1, DivCeil(size * SECTOR_SIZE, opts.bytes_per_inode))
           wanted == DivCeil(DivCeil(t, ncg), ipb)
           q == fpg \div frag
           cap == MAXIPG \div ipb
           count == compute_inode_block_count(size, opts, ncg, fpg, n)
<1>1. (frag = 8 /\ ipb = 32 /\ cap = 64) \/ (frag = 16 /\ ipb = 64 /\ cap = 32)
  BY BlockSizes DEF UFS_DINODE_SIZE, MAXIPG
<1>2. count = Greater(0, Lesser(Lesser(wanted, q - (n + 1)), cap))
  BY DEF compute_inode_block_count
<1>3. wanted \in Nat
  <2>1. size * SECTOR_SIZE \in Nat /\ opts.bytes_per_inode \in Nat \ {0}
    BY DEF Acceptable, FormatOptions, SECTOR_SIZE
  <2>2. DivCeil(size * SECTOR_SIZE, opts.bytes_per_inode) \in Nat
    BY <2>1, DivCeilBounds
  <2>3. t \in Nat  BY <2>2 DEF Greater
  <2> HIDE DEF t, ipb
  <2>4. DivCeil(t, ncg) \in Nat  BY <2>3, DivCeilBounds
  <2>5. ipb \in Nat \ {0}  BY <1>1
  <2> QED  BY <2>4, <2>5, DivCeilBounds
<1> HIDE DEF ipb, frag, wanted, cap, count
<1>4. q \in Int /\ frag * q <= fpg
  <2>0. frag \in Nat \ {0}  BY <1>1
  <2>1. q \in Int /\ fpg % frag \in 0 .. frag - 1 /\ fpg = frag * q + (fpg % frag)
    BY <2>0, DivMod
  <2> HIDE DEF q
  <2>2. frag * q \in Int  BY <2>0, <2>1
  <2> QED  BY <2>0, <2>1, <2>2
<1> HIDE DEF q
<1>5. count \in Nat /\ count <= cap /\ (count > 0 => n + count + 1 <= q)
  BY <1>1, <1>2, <1>3, <1>4 DEF Greater, Lesser
<1>6. count * ipb <= MAXIPG  BY <1>1, <1>5 DEF MAXIPG
<1>7. ASSUME count > 0  PROVE (n + count + 1) * frag <= fpg
  BY <1>1, <1>4, <1>5, <1>7
<1> QED  BY <1>5, <1>6, <1>7 DEF ipb, frag, count

\* The numbers of a superblock, and a block of inodes before the data.
LayoutNumbers(sb) ==
  /\ sb.frag \in {8, 16} /\ sb.dsize \in Nat
  /\ sb.ncg \in Nat \ {0} /\ sb.fpg \in Nat \ {0} /\ sb.cssize \in Nat \ {0}
  /\ sb.csaddr \in Nat /\ sb.cblkno \in Nat /\ sb.iblkno \in Nat /\ sb.dblkno \in Nat
  /\ sb.iblkno + sb.frag <= sb.dblkno

\* format: every layout that passes its checks is one the allocator can work
\* with.
LEMMA LayoutIsSound ==
  ASSUME NEW img, NEW base, NEW size \in Int, NEW opts \in FormatOptions,
         Acceptable(img, base, size, opts), LayoutAcceptable(Layout(size, opts))
  PROVE  SoundLayout(Layout(size, opts)) /\ LayoutNumbers(Layout(size, opts))
<1> DEFINE sb == Layout(size, opts)
           frag == opts.block_size \div SECTOR_SIZE
           ipb == opts.block_size \div UFS_DINODE_SIZE
           cpg == cylinders_per_group(size, opts)
           fpg == cpg * spc(opts)
           ncg == DivCeil(size \div spc(opts), cpg)
           push == SummaryPush(opts, ncg)
           n == INODE_BLOCK_NUMBER + push
           count == compute_inode_block_count(size, opts, ncg, fpg, n)
<1>1. \/ opts.block_size = 4096 /\ frag = 8 /\ ipb = 32
      \/ opts.block_size = 8192 /\ frag = 16 /\ ipb = 64
  BY BlockSizes DEF UFS_DINODE_SIZE
<1>2. /\ sb.bsize = opts.block_size /\ sb.frag = frag /\ sb.dsize = size
      /\ sb.ncg = ncg /\ sb.fpg = fpg /\ sb.ipg = count * ipb
      /\ sb.csaddr = SUMMARY_BLOCK_NUMBER * frag
      /\ sb.cblkno = (CG_BLOCK_NUMBER + push) * frag
      /\ sb.iblkno = n * frag /\ sb.dblkno = (n + count) * frag
      /\ sb.cssize = DivCeil(ncg * UFS_CSUM_SIZE, SECTOR_SIZE)
  BY DEF Layout, SuperblockOf
<1>3. /\ ncg \in Nat \ {0} /\ fpg \in Nat \ {0}
      /\ fpg <= (opts.block_size - UFS_CG_FREE_OFFSET) * 8
      /\ fpg * (ncg - 1) < size /\ size <= fpg * ncg
  BY GroupSizes
<1>4. LayoutAcceptable(sb)  OBVIOUS
<1> HIDE DEF sb, frag, ipb, cpg, fpg, ncg
<1>5. push \in Nat
  <2> DEFINE x == DivCeil(ncg * UFS_CSUM_SIZE, SECTOR_SIZE)
             y == DivCeil(SUMMARY_BLOCK_NUMBER * frag + x, frag)
  <2>1. x \in Nat
    <3>1. ncg * UFS_CSUM_SIZE \in Nat /\ SECTOR_SIZE \in Nat \ {0}
      BY <1>3 DEF UFS_CSUM_SIZE, SECTOR_SIZE
    <3> QED  BY <3>1, DivCeilBounds
  <2>2. push = Greater(0, y - CG_BLOCK_NUMBER)
    BY DEF SummaryPush, frag
  <2> HIDE DEF x
  <2>3. y \in Nat
    <3>1. SUMMARY_BLOCK_NUMBER * frag + x \in Nat /\ frag \in Nat \ {0}
      BY <1>1, <2>1 DEF SUMMARY_BLOCK_NUMBER
    <3> QED  BY <3>1, DivCeilBounds
  <2> HIDE DEF y, push
  <2> QED  BY <2>2, <2>3 DEF Greater, CG_BLOCK_NUMBER
<1>6. n \in Nat /\ n = push + 6  BY <1>5 DEF INODE_BLOCK_NUMBER
<1> HIDE DEF push, n
<1>7. /\ count \in Nat /\ (count > 0 => (n + count + 1) * frag <= fpg)
      /\ count * ipb <= MAXIPG
  BY <1>3, <1>6, InodeBlocks DEF frag, ipb
<1> HIDE DEF count
<1>8. count > 0
  <2>1. count * ipb > 0  BY <1>2, <1>4 DEF LayoutAcceptable
  <2> QED  BY <1>1, <1>7, <2>1
<1>9. sb.fpg * (sb.ncg - 1) < sb.dsize /\ sb.dsize <= sb.fpg * sb.ncg
  BY <1>2, <1>3
<1>10. UFS_CG_FREE_OFFSET + DivCeil(sb.fpg, 8) <= sb.bsize
  <2> DEFINE d == DivCeil(fpg, 8)
  <2>1. d \in Nat /\ 8 * d < fpg + 8  BY <1>3, DivCeilBounds
  <2> HIDE DEF d
  <2>2. UFS_CG_FREE_OFFSET + d <= opts.block_size
    BY <1>1, <1>3, <2>1 DEF UFS_CG_FREE_OFFSET
  <2> QED  BY <1>2, <2>2 DEF d
<1>11. sb.ipg > 2 /\ sb.ipg <= MAXIPG
  <2>1. count * ipb > 2  BY <1>1, <1>7, <1>8
  <2> QED  BY <1>2, <1>7, <2>1
<1>12. sb.dblkno % sb.frag = 0 /\ sb.dblkno + sb.frag <= sb.fpg
  <2>1. ((n + count) * frag) % frag = 0  BY <1>1, <1>6, <1>7
  <2>2. (n + count) * frag + frag <= fpg
    BY <1>1, <1>3, <1>6, <1>7, <1>8
  <2> QED  BY <1>2, <2>1, <2>2
<1>13. sb.dblkno + sb.frag <= sb.dsize /\ sb.csaddr + sb.cssize <= sb.cblkno
  BY <1>4 DEF LayoutAcceptable
<1>14. UFS_SB_SECTOR + UFS_SB_SECTORS <= sb.csaddr
  <2>1. UFS_SB_SECTOR + UFS_SB_SECTORS <= SUMMARY_BLOCK_NUMBER * frag
    BY <1>1 DEF UFS_SB_SECTOR, UFS_SB_SECTORS, SUMMARY_BLOCK_NUMBER
  <2> QED  BY <1>2, <2>1
<1>15. sb.cblkno + sb.frag <= sb.iblkno
  <2>1. (CG_BLOCK_NUMBER + push) * frag + frag <= n * frag
    BY <1>1, <1>5, <1>6 DEF CG_BLOCK_NUMBER
  <2> QED  BY <1>2, <2>1
<1>16. sb.iblkno + (sb.ipg * UFS_DINODE_SIZE) \div SECTOR_SIZE <= sb.dblkno
  <2>1. ((count * ipb) * UFS_DINODE_SIZE) \div SECTOR_SIZE = count * frag
    BY <1>1, <1>7 DEF UFS_DINODE_SIZE, SECTOR_SIZE
  <2>2. n * frag + count * frag <= (n + count) * frag  BY <1>1, <1>6, <1>7
  <2> QED  BY <1>2, <2>1, <2>2
<1>17. SoundLayout(sb)
  BY <1>9, <1>10, <1>11, <1>12, <1>13, <1>14, <1>15, <1>16 DEF SoundLayout
<1>18. LayoutNumbers(sb)
  <2>1. size \in Nat  BY DEF Acceptable
  <2>2. frag \in {8, 16}  BY <1>1
  <2>3. sb.cssize \in Nat \ {0}
    <3>1. ncg * UFS_CSUM_SIZE \in Nat \ {0} /\ SECTOR_SIZE \in Nat \ {0}
      BY <1>3 DEF UFS_CSUM_SIZE, SECTOR_SIZE
    <3> DEFINE x == ncg * UFS_CSUM_SIZE
               c == DivCeil(x, SECTOR_SIZE)
    <3>2. c \in Nat /\ x <= SECTOR_SIZE * c  BY <3>1, DivCeilBounds
    <3>3. c # 0
      <4> HIDE DEF x, c
      <4>1. c = 0 => SECTOR_SIZE * c = 0  BY DEF SECTOR_SIZE
      <4> QED  BY <3>1, <3>2, <4>1 DEF x
    <3> QED  BY <1>2, <3>2, <3>3
  <2>4. /\ SUMMARY_BLOCK_NUMBER * frag \in Nat /\ (CG_BLOCK_NUMBER + push) * frag \in Nat
        /\ n * frag \in Nat /\ (n + count) * frag \in Nat
        /\ n * frag + frag <= (n + count) * frag
    BY <1>5, <1>6, <1>7, <1>8, <2>2 DEF SUMMARY_BLOCK_NUMBER, CG_BLOCK_NUMBER
  <2> QED  BY <1>2, <1>3, <2>1, <2>2, <2>3, <2>4 DEF LayoutNumbers
<1> QED  BY <1>17, <1>18 DEF sb

----------------------------------------------------------------------------
(* What the image holds.  A layout is computed from the label read back    *)
(* from the image, so the invariant follows the label from the request to  *)
(* the file.                                                               *)

\* A structure on disk names its kind; a label has a geometry and slices of
\* numbers, and a UFS superblock is sound.
StructureOK(w) ==
  /\ "kind" \in DOMAIN w
  /\ w.kind = "ufs" => SoundLayout(w)
  /\ w.kind = "label" =>
       /\ w.geometry \in GeometryType
       /\ \A i \in 0 .. 15 : w.vtoc.partitions[i].count \in Int

RequestOK(r) ==
  /\ r.geometry \in GeometryType
  /\ \A i \in DOMAIN r.slices : r.slices[i].count \in Int

RunsOK(runs) == \A e \in runs : StructureOK(e.what)

ImageOK(img) == "ext" \in DOMAIN img /\ RunsOK(img.ext)

\* The inductive invariant: while a create command is between two writes its
\* request is well-typed, and so is what any command left in the image.
ImageInv ==
  /\ ~ Idle => RequestOK(asked)
  /\ ImageOK(image)

\* A structure of any other kind is no label and no superblock.
LEMMA PlainStructure ==
  ASSUME NEW w, "kind" \in DOMAIN w, w.kind \notin {"ufs", "label"}
  PROVE  StructureOK(w)
  BY DEF StructureOK

\* write_at leaves old structures or puts the new ones.
LEMMA PutOK ==
  ASSUME NEW img, ImageOK(img), NEW runs, RunsOK(runs)
  PROVE  ImageOK(Put(img, runs))
  BY DEF ImageOK, RunsOK, Put

\* fill(0) leaves old structures.
LEMMA Fill0OK ==
  ASSUME NEW img, ImageOK(img), NEW region
  PROVE  ImageOK(Fill0(img, region))
  BY DEF ImageOK, RunsOK, Fill0

\* What is read at a sector is a structure of the image, or zeros.
LEMMA ReadOK ==
  ASSUME NEW img, ImageOK(img), NEW at
  PROVE  StructureOK(WhatAt(img, at))
<1> DEFINE here == {e \in img.ext : e.at = at}
<1>1. CASE here = {}
  <2>1. WhatAt(img, at) = Zero  BY <1>1 DEF WhatAt
  <2> QED  BY <2>1, PlainStructure DEF Zero
<1>2. CASE here # {}
  <2> DEFINE c == CHOOSE e \in here : TRUE
  <2>1. c \in here  BY <1>2
  <2>2. WhatAt(img, at) = c.what  BY <1>2 DEF WhatAt
  <2> HIDE DEF c
  <2>3. c \in img.ext  BY <2>1
  <2> QED  BY <2>2, <2>3 DEF ImageOK, RunsOK
<1> QED  BY <1>1, <1>2

\* The pdinfo of a report with a VTOC was read from the image.
LEMMA InspectedOK ==
  ASSUME NEW img, ImageOK(img), HasVtoc(inspect_disk_image(img))
  PROVE  /\ inspect_disk_image(img).pdinfo.geometry \in GeometryType
         /\ \A i \in 0 .. 15 :
              inspect_disk_image(img).pdinfo.vtoc.partitions[i].count \in Int
<1> DEFINE mbr == WhatAt(img, 0)
           active == find_active_unix_partition(mbr.table)
           label == WhatAt(img, active.start + HDPDLOC)
           report == inspect_disk_image(img)
<1>1. StructureOK(label)  BY ReadOK
<1>2. report = IF mbr.kind # "mbr" \/ active.type = 0
               THEN Report("ok", EmptyPartition, NoPdInfo)
               ELSE IF active.start + HDPDLOC >= img.len
               THEN Report("panic", EmptyPartition, NoPdInfo)
               ELSE IF label.kind # "label" THEN Report("ok", active, NoPdInfo)
               ELSE Report("ok", active, label)
  BY DEF inspect_disk_image
<1> HIDE DEF mbr, active, label
<1>3. report.pdinfo = NoPdInfo \/ (report.pdinfo = label /\ label.kind = "label")
  BY <1>2 DEF Report
<1>4. report.pdinfo.kind = "label"  BY DEF HasVtoc
<1> HIDE DEF report
<1>5. report.pdinfo = label /\ label.kind = "label"
  BY <1>3, <1>4 DEF NoPdInfo
<1> QED  BY <1>1, <1>5 DEF StructureOK, report

\* The slice a command works on is one of that VTOC.
LEMMA SelectedOK ==
  ASSUME ImageOK(image), NEW selector, Selected(selector) # NoSlice
  PROVE  /\ HasVtoc(inspect_disk_image(image))
         /\ Selected(selector).count \in Int
<1> DEFINE report == inspect_disk_image(image)
           parts == report.pdinfo.vtoc.partitions
           tagged == {i \in 0 .. 15 : partition_tag_name(parts[i].tag) = selector.name}
           first == CHOOSE i \in tagged : \A j \in tagged : i <= j
<1>1. get_vtoc_partition_by_selector(report, selector) =
        IF ~ HasVtoc(report) THEN NoSlice
        ELSE IF selector.index \in 0 .. 15 THEN parts[selector.index]
        ELSE IF tagged = {} THEN NoSlice ELSE parts[first]
  BY DEF get_vtoc_partition_by_selector
<1>2. HasVtoc(report)
  <2>1. ~ HasVtoc(report) => Selected(selector) = Clamped(NoSlice)
    BY <1>1 DEF Selected
  <2>2. Clamped(NoSlice) = NoSlice  BY DEF Clamped, NoSlice, Slice, Greater
  <2> QED  BY <2>1, <2>2
<1>3. \A i \in 0 .. 15 : parts[i].count \in Int  BY <1>2, InspectedOK
<1>4. tagged # {} => first \in 0 .. 15
  <2> SUFFICES ASSUME tagged # {}  PROVE first \in 0 .. 15  OBVIOUS
  <2>1. tagged \subseteq Nat /\ tagged \subseteq 0 .. 15  OBVIOUS
  <2> HIDE DEF tagged
  <2>2. first = Min(tagged)  BY DEF Min
  <2>3. Min(tagged) \in tagged  BY <2>1, MinInSet
  <2> QED  BY <2>1, <2>2, <2>3
<1> DEFINE p == get_vtoc_partition_by_selector(report, selector)
<1> HIDE DEF report, parts, tagged, first
<1>5. p.count \in Int
  <2>1. NoSlice.count \in Int  BY DEF NoSlice, Slice
  <2> QED  BY <1>1, <1>2, <1>3, <1>4, <2>1
<1> HIDE DEF p
<1>6. Clamped(p).count \in Int  BY <1>5 DEF Clamped, Slice, Greater
<1> QED  BY <1>2, <1>6 DEF Selected, report, p

\* The label of a well-typed request is a well-typed structure.
LEMMA LabelOK ==
  ASSUME NEW r, RequestOK(r)
  PROVE  StructureOK(build_pdinfo(r)) /\ StructureOK(WithVtoc(r))
<1> DEFINE P == build_vtoc(r.slices).partitions
<1>1. \A i \in 0 .. 15 : P[i].count \in Int
  <2> SUFFICES ASSUME NEW i \in 0 .. 15  PROVE P[i].count \in Int  OBVIOUS
  <2> DEFINE S == {p \in ToSet(r.slices) : p.index = i}
             c == CHOOSE p \in ToSet(r.slices) : p.index = i
  <2>1. P[i] = IF \E p \in ToSet(r.slices) : p.index = i THEN Stored(c)
               ELSE Slice(i, 0, 0, 0)
    BY DEF build_vtoc
  <2>2. CASE \E p \in ToSet(r.slices) : p.index = i
    <3>1. c \in ToSet(r.slices)  BY <2>2
    <3> HIDE DEF c
    <3>2. PICK j \in DOMAIN r.slices : c = r.slices[j]  BY <3>1 DEF ToSet
    <3>3. c.count \in Int  BY <3>2 DEF RequestOK
    <3>4. Stored(c).count \in Int  BY <3>3, SignedWord DEF Stored, Slice
    <3> QED  BY <2>1, <2>2, <3>4
  <2>3. CASE ~ \E p \in ToSet(r.slices) : p.index = i
    BY <2>1, <2>3 DEF Slice
  <2> QED  BY <2>2, <2>3
<1>2. \A i \in 0 .. 15 : EmptyVtoc.partitions[i].count \in Int
  BY DEF EmptyVtoc, Slice
<1>3. StructureOK(build_pdinfo(r))
  <2>1. /\ "kind" \in DOMAIN build_pdinfo(r) /\ build_pdinfo(r).kind = "label"
        /\ build_pdinfo(r).geometry = r.geometry
        /\ build_pdinfo(r).vtoc = EmptyVtoc
    BY DEF build_pdinfo
  <2> QED  BY <1>2, <2>1 DEF StructureOK, RequestOK
<1>4. StructureOK(WithVtoc(r))
  <2>1. /\ "kind" \in DOMAIN WithVtoc(r) /\ WithVtoc(r).kind = "label"
        /\ WithVtoc(r).geometry = r.geometry
        /\ WithVtoc(r).vtoc = build_vtoc(r.slices)
    BY DEF WithVtoc, build_pdinfo
  <2> HIDE DEF P
  <2> QED  BY <1>1, <2>1 DEF StructureOK, RequestOK, P
<1> QED  BY <1>3, <1>4

\* create_layout's request is well-typed.
LEMMA StandardRequestOK ==
  ASSUME NEW g \in GeometryType, CylinderSize(g) > 0, NEW mode,
         NEW opts \in LayoutOptions, LayoutPossible(g, opts)
  PROVE  RequestOK(build_slice_layout(g, mode, opts))
<1> DEFINE u == CylinderSize(g)
           r == build_slice_layout(g, mode, opts)
           backup == Slice(0, V_BACKUP, 1, total_sectors(g) - 1)
           root == Slice(1, LAYOUT_TAG_ROOT, root_start(g, opts), root_count(g, opts))
           swap == Slice(2, LAYOUT_TAG_SWAP, swap_start(g, opts), swap_count(g, opts))
           stand == Slice(10, LAYOUT_TAG_STAND, stand_start(g, opts),
                          stand_count(g, opts))
<1>1. /\ root_count(g, opts) \in Int /\ swap_count(g, opts) \in Int
      /\ stand_count(g, opts) \in Int /\ total_sectors(g) \in Int
  <2>1. u \in Nat  BY CylinderType
  <2>2. PICK a, b, c, d, e, f \in Nat :
          /\ stand_start(g, opts) = u * a /\ stand_count(g, opts) = u * b
          /\ swap_start(g, opts) = u * c /\ swap_count(g, opts) = u * d
          /\ root_start(g, opts) = u * e /\ root_count(g, opts) = u * f
          /\ 0 < a /\ 0 < b /\ 0 < d /\ 0 < f
          /\ u * a + u * b <= u * c /\ u * c + u * d <= u * e
          /\ u * e + u * f = total_sectors(g)
    BY StandardSlices
  <2> HIDE DEF u
  <2>3. u * b \in Int /\ u * d \in Int /\ u * e \in Int /\ u * f \in Int  BY <2>1
  <2>4. u * e + u * f \in Int  BY <2>3
  <2> QED  BY <2>2, <2>3, <2>4
<1>2. r.geometry = g /\ r.slices = <<backup, root, swap, stand>>
  BY DEF build_slice_layout
<1>3. /\ backup.count \in Int /\ root.count \in Int
      /\ swap.count \in Int /\ stand.count \in Int
  BY <1>1 DEF Slice
<1> HIDE DEF r, backup, root, swap, stand
<1>4. \A i \in DOMAIN r.slices : r.slices[i].count \in Int
  <2>1. DOMAIN r.slices = 1 .. 4  BY <1>2
  <2>2. /\ r.slices[1] = backup /\ r.slices[2] = root
        /\ r.slices[3] = swap /\ r.slices[4] = stand
    BY <1>2
  <2> QED  BY <1>3, <2>1, <2>2
<1>5. RequestOK(r)  BY <1>2, <1>4 DEF RequestOK
<1> QED  BY <1>5 DEF r

\* format_bfs writes no label and no UFS superblock.
LEMMA BfsRunsOK ==
  ASSUME NEW base, NEW n, NEW files
  PROVE  RunsOK(Runs(base, n, files))
<1> SUFFICES ASSUME NEW e \in Runs(base, n, files)
             PROVE  "kind" \in DOMAIN e.what /\ e.what.kind \notin {"ufs", "label"}
  BY PlainStructure DEF RunsOK
<1> DEFINE super == [kind |-> "bfs",
                     data_start |-> AsU32(data_start(files) * SECTOR_SIZE),
                     data_end |-> AsU32(n * SECTOR_SIZE - 1)]
           table == [kind |-> "dirents", slots |-> InodeTable(files)]
           root == [kind |-> "ldir", entries |-> RootDirectory(files)]
           content(i) == [kind |-> "file", data |-> files[i].data]
<1>1. \/ e.what = super \/ e.what = table \/ e.what = root
      \/ \E i \in DOMAIN files : e.what = content(i)
  BY DEF Runs, Extent
<1>2. \A w \in {super, table, root} :
        "kind" \in DOMAIN w /\ w.kind \notin {"ufs", "label"}
  OBVIOUS
<1>3. \A i \in DOMAIN files :
        "kind" \in DOMAIN content(i) /\ content(i).kind \notin {"ufs", "label"}
  OBVIOUS
<1> HIDE DEF super, table, root, content
<1> QED  BY <1>1, <1>2, <1>3

\* format writes a sound superblock, group blocks, and the root's structures.
LEMMA UfsRunsOK ==
  ASSUME NEW base, NEW sb, SoundLayout(sb), sb.kind = "ufs", "kind" \in DOMAIN sb
  PROVE  /\ RunsOK(GroupRuns(base, sb)) /\ RunsOK({SuperblockRun(base, sb)})
         /\ RunsOK(RootRuns(base, sb))
<1>1. RunsOK(GroupRuns(base, sb))
  <2> SUFFICES ASSUME NEW e \in GroupRuns(base, sb)
               PROVE  "kind" \in DOMAIN e.what /\ e.what.kind \notin {"ufs", "label"}
    BY PlainStructure DEF RunsOK
  <2>1. PICK cg \in 0 .. sb.ncg - 1 : e.what = [kind |-> "cg", cg |-> cg]
    BY DEF GroupRuns, Extent
  <2> QED  BY <2>1
<1>2. RunsOK({SuperblockRun(base, sb)})
  <2>1. SuperblockRun(base, sb).what = sb  BY DEF SuperblockRun, Extent
  <2> QED  BY <2>1 DEF RunsOK, StructureOK
<1>3. RunsOK(RootRuns(base, sb))
  <2> SUFFICES ASSUME NEW e \in RootRuns(base, sb)
               PROVE  "kind" \in DOMAIN e.what /\ e.what.kind \notin {"ufs", "label"}
    BY PlainStructure DEF RunsOK
  <2>1. \/ e.what = [kind |-> "rootinode", db |-> sb.dblkno]
        \/ e.what = [kind |-> "dirblock", names |-> {".", ".."}]
        \/ e.what = [kind |-> "summary", ncg |-> sb.ncg]
    BY DEF RootRuns, Extent
  <2> QED  BY <2>1
<1> QED  BY <1>1, <1>2, <1>3

\* format leaves sound superblocks, also when it panics halfway.
LEMMA FormatOK ==
  ASSUME NEW img, ImageOK(img), NEW base, NEW size \in Int,
         NEW opts \in FormatOptions
  PROVE  ImageOK(format(img, base, size, opts).img)
<1> DEFINE sb == Layout(size, opts)
           fits == {e \in GroupRuns(base, sb) : e.at + e.n <= img.len}
           out == format(img, base, size, opts)
<1>1. CASE ~ Acceptable(img, base, size, opts) \/ ~ LayoutAcceptable(sb)
  <2>1. out.img = img  BY <1>1 DEF format
  <2> QED  BY <2>1
<1>2. CASE Acceptable(img, base, size, opts) /\ LayoutAcceptable(sb)
  <2>1. SoundLayout(sb)  BY <1>2, LayoutIsSound
  <2>2. sb.kind = "ufs" /\ "kind" \in DOMAIN sb  BY DEF Layout, SuperblockOf
  <2>3. \/ out.img = Put(img, fits \cup {SuperblockRun(base, sb)})
        \/ out.img = Put(img, fits \cup {SuperblockRun(base, sb)}
                                \cup RootRuns(base, sb))
    BY <1>2 DEF format
  <2> HIDE DEF sb, out
  <2>4. /\ RunsOK(GroupRuns(base, sb)) /\ RunsOK({SuperblockRun(base, sb)})
        /\ RunsOK(RootRuns(base, sb))
    BY <2>1, <2>2, UfsRunsOK
  <2>5. /\ RunsOK(fits \cup {SuperblockRun(base, sb)})
        /\ RunsOK(fits \cup {SuperblockRun(base, sb)} \cup RootRuns(base, sb))
    BY <2>4 DEF RunsOK
  <2> HIDE DEF fits
  <2>6. ImageOK(out.img)  BY <2>3, <2>5, PutOK
  <2> QED  BY <2>6 DEF out
<1> QED  BY <1>1, <1>2

\* install_boot changes the code of an MBR it has read as one.
LEMMA ChainloaderOK ==
  ASSUME ImageOK(image), inspect_disk_image(image).active.type # 0
  PROVE  StructureOK([WhatAt(image, 0) EXCEPT !.code = "chainloader"])
<1> DEFINE mbr == WhatAt(image, 0)
           new == [mbr EXCEPT !.code = "chainloader"]
<1>1. mbr.kind = "mbr"
  <2>1. mbr.kind # "mbr" => inspect_disk_image(image).active = EmptyPartition
    BY DEF inspect_disk_image, Report
  <2> QED  BY <2>1 DEF EmptyPartition
<1>2. "kind" \in DOMAIN mbr  BY ReadOK DEF StructureOK
<1> HIDE DEF mbr
<1>3. DOMAIN new = DOMAIN mbr /\ new.kind = "mbr"  BY <1>1, <1>2
<1> HIDE DEF new
<1>4. StructureOK(new)  BY <1>2, <1>3, PlainStructure
<1> QED  BY <1>4 DEF new, mbr

\* Every step of a command, a kill and a panic included, keeps ImageInv.
LEMMA ImageStep == ImageInv /\ [Next]_vars => ImageInv'
<1> SUFFICES ASSUME ImageInv, [Next]_vars  PROVE ImageInv'  OBVIOUS
<1> USE DEF ImageInv
<1>a. ASSUME NEW r, RequestOK(r), Begin(r)  PROVE ImageInv'
  <2>1. image' = Blank(total_sectors(r.geometry)) /\ asked' = r
    BY <1>a DEF Begin, Truncated
  <2>2. ImageOK(image')  BY <2>1 DEF Blank, ImageOK, RunsOK
  <2> QED  BY <1>a, <2>1, <2>2
<1>b. ASSUME asked' = asked, pc' = pc \/ pc' = "idle" \/ ~ Idle, ImageOK(image')
      PROVE  ImageInv'
  BY <1>b DEF Idle
<1>1. CASE CreateSkeleton
  <2>1. PICK r \in Skeletons : Begin(r)  BY <1>1 DEF CreateSkeleton
  <2>2. RequestOK(r)
    <3>1. r \in RequestType  BY ArgumentsAssumption
    <3>2. r.geometry \in GeometryType /\ r.slices \in Seq(SliceType)
      BY <3>1 DEF RequestType
    <3>3. \A i \in DOMAIN r.slices : r.slices[i] \in SliceType  BY <3>2
    <3> QED  BY <3>2, <3>3 DEF RequestOK, SliceType
  <2> QED  BY <1>a, <2>1, <2>2
<1>2. CASE CreateLayout
  <2>1. PICK l \in Layouts :
          LET g == IF l.size_mb > 0
                   THEN build_geometry(l.size_mb, l.heads, l.sectors)
                   ELSE GeometryOf(l.cylinders, l.heads, l.sectors)
          IN  /\ l.size_mb > 0 =>
                   geometry_possible(l.size_mb, l.heads, l.sectors, l.mode)
              /\ LayoutPossible(g, l.opts)
              /\ Begin(build_slice_layout(g, l.mode, l.opts))
    BY <1>2 DEF CreateLayout
  <2> DEFINE g == IF l.size_mb > 0
                  THEN build_geometry(l.size_mb, l.heads, l.sectors)
                  ELSE GeometryOf(l.cylinders, l.heads, l.sectors)
             r == build_slice_layout(g, l.mode, l.opts)
  <2>2. g \in GeometryType /\ l.opts \in LayoutOptions
    BY <2>1, ResolvedGeometry, ArgumentsAssumption
  <2>3. LayoutPossible(g, l.opts) /\ Begin(r)  BY <2>1
  <2> HIDE DEF g
  <2>4. r.geometry = g /\ Valid(r)  BY <2>3 DEF build_slice_layout, Begin
  <2>5. CylinderSize(g) > 0
    BY <2>2, <2>4, CylinderType DEF Valid, validate_geometry
  <2>6. RequestOK(r)  BY <2>2, <2>3, <2>5, StandardRequestOK
  <2> HIDE DEF r
  <2> QED  BY <1>a, <2>3, <2>6
<1>3. CASE WriteMbr
  <2>1. RunsOK({Extent(0, 1, build_mbr(asked))})
    <3>1. StructureOK(build_mbr(asked))  BY PlainStructure DEF build_mbr
    <3> QED  BY <3>1 DEF RunsOK, Extent
  <2>2. ImageOK(Put(image, {Extent(0, 1, build_mbr(asked))}))  BY <2>1, PutOK
  <2>3. /\ image' = image \/ image' = Put(image, {Extent(0, 1, build_mbr(asked))})
        /\ asked' = asked /\ pc = "mbr"
    BY <1>3 DEF WriteMbr
  <2> QED  BY <1>b, <2>2, <2>3 DEF Idle
<1>4. CASE WritePdinfo
  <2> DEFINE runs == {Extent(LabelSector(asked), 1, build_pdinfo(asked))}
  <2>1. pc = "pdinfo" /\ asked' = asked /\ image' = Put(image, runs)
    BY <1>4 DEF WritePdinfo
  <2>2. RequestOK(asked)  BY <2>1 DEF Idle
  <2>3. RunsOK(runs)  BY <2>2, LabelOK DEF RunsOK, Extent
  <2> HIDE DEF runs
  <2>4. ImageOK(image')  BY <2>1, <2>3, PutOK
  <2> QED  BY <1>b, <2>1, <2>4 DEF Idle
<1>5. CASE WriteVtoc
  <2> DEFINE runs == {Extent(LabelSector(asked), 1, WithVtoc(asked))}
             cleared == Fill0(image, Region(LabelSector(asked) + 1, 1))
  <2>1. /\ pc = "vtoc" /\ asked' = asked
        /\ image' = image \/ image' = Put(cleared, runs)
    BY <1>5 DEF WriteVtoc
  <2>2. RequestOK(asked)  BY <2>1 DEF Idle
  <2>3. RunsOK(runs)  BY <2>2, LabelOK DEF RunsOK, Extent
  <2>4. ImageOK(cleared)  BY Fill0OK
  <2> HIDE DEF runs, cleared
  <2>5. ImageOK(image')  BY <2>1, <2>3, <2>4, PutOK
  <2> QED  BY <1>b, <2>1, <2>5 DEF Idle
<1>6. CASE WriteAlternates
  <2> DEFINE runs == {Extent(asked.start + AltPtr, AltLen, build_empty_alt_info)}
  <2>1. /\ pc = "alts" /\ asked' = asked
        /\ image' = image \/ image' = Put(image, runs)
    BY <1>6 DEF WriteAlternates
  <2>2. RunsOK(runs)
    <3>1. StructureOK(build_empty_alt_info)
      BY PlainStructure DEF build_empty_alt_info
    <3> QED  BY <3>1 DEF RunsOK, Extent
  <2> HIDE DEF runs
  <2>3. ImageOK(image')  BY <2>1, <2>2, PutOK
  <2> QED  BY <1>b, <2>1, <2>3 DEF Idle
<1>7. CASE Killed  BY <1>7, <1>b DEF Killed
<1>8. CASE FormatBfs
  <2>1. PICK selector \in Selectors, s \in StandFiles :
          LET p == Selected(selector)
              files == [i \in DOMAIN Gathered(s) |->
                          [name |-> Gathered(s)[i].name, data |-> Gathered(s)[i].data]]
              out == format_bfs_slice(image, p.start, p.count, files)
          IN  image' = out.img /\ UNCHANGED <<pc, asked>>
    BY <1>8 DEF FormatBfs
  <2> DEFINE p == Selected(selector)
             files == [i \in DOMAIN Gathered(s) |->
                         [name |-> Gathered(s)[i].name, data |-> Gathered(s)[i].data]]
             cleared == Fill0(image, Region(p.start, p.count))
             runs == Runs(p.start, p.count, files)
  <2>2. UNCHANGED <<pc, asked>>
        /\ image' = format_bfs_slice(image, p.start, p.count, files).img
    BY <2>1
  <2> HIDE DEF p, files
  <2>3. image' = image \/ image' = Put(cleared, runs)
    BY <2>2 DEF format_bfs_slice
  <2>4. ImageOK(cleared)  BY Fill0OK
  <2>5. RunsOK(runs)  BY BfsRunsOK
  <2> HIDE DEF cleared, runs
  <2>6. ImageOK(image')  BY <2>3, <2>4, <2>5, PutOK
  <2> QED  BY <1>b, <2>2, <2>6
<1>9. CASE FormatUfs
  <2>1. PICK selector \in Selectors, o \in UfsOptions :
          LET p == Selected(selector)
              g == inspect_disk_image(image).pdinfo.geometry
              opts == [block_size |-> o.block_size,
                       bytes_per_inode |-> o.bytes_per_inode,
                       tracks_per_cylinder |-> g.heads,
                       sectors_per_track |-> g.sectors_per_track]
          IN  /\ Formattable(p)
              /\ image' = format(image, p.start, p.count, opts).img
              /\ UNCHANGED <<pc, asked>>
    BY <1>9 DEF FormatUfs
  <2> DEFINE p == Selected(selector)
             g == inspect_disk_image(image).pdinfo.geometry
             opts == [block_size |-> o.block_size,
                      bytes_per_inode |-> o.bytes_per_inode,
                      tracks_per_cylinder |-> g.heads,
                      sectors_per_track |-> g.sectors_per_track]
  <2>2. HasVtoc(inspect_disk_image(image)) /\ p.count \in Int
    BY <2>1, SelectedOK DEF Formattable
  <2>3. g \in GeometryType  BY <2>2, InspectedOK
  <2>4. image' = format(image, p.start, p.count, opts).img /\ UNCHANGED <<pc, asked>>
    BY <2>1
  <2> HIDE DEF p, g
  <2>5. opts \in FormatOptions
    BY <2>3, ArgumentsAssumption DEF FormatOptions, GeometryType
  <2> HIDE DEF opts
  <2>6. ImageOK(image')  BY <2>2, <2>4, <2>5, FormatOK
  <2> QED  BY <1>b, <2>4, <2>6
<1>10. CASE InstallBoot
  <2> DEFINE report == inspect_disk_image(image)
             area == BootArea(report.active.start)
             mbr == Extent(0, 1, [WhatAt(image, 0) EXCEPT !.code = "chainloader"])
             boot == Extent(area.at, area.n, [kind |-> "hdboot"])
  <2>1. /\ report.active.type # 0 /\ UNCHANGED <<pc, asked>>
        /\ image' = Put(image, {mbr} \cup IF area.at + area.n > image.len THEN {}
                                          ELSE {boot})
    BY <1>10 DEF InstallBoot
  <2>2. StructureOK(mbr.what)  BY <2>1, ChainloaderOK DEF Extent
  <2>3. StructureOK(boot.what)
    <3>1. boot.what = [kind |-> "hdboot"]  BY DEF Extent
    <3>2. StructureOK([kind |-> "hdboot"])  BY PlainStructure
    <3> QED  BY <3>1, <3>2
  <2> HIDE DEF report, area, mbr, boot
  <2>4. RunsOK({mbr}) /\ RunsOK({mbr} \cup {boot})  BY <2>2, <2>3 DEF RunsOK
  <2>5. image' = Put(image, {mbr}) \/ image' = Put(image, {mbr} \cup {boot})
    BY <2>1
  <2>6. ImageOK(image')  BY <2>4, <2>5, PutOK
  <2> QED  BY <1>b, <2>1, <2>6
<1>11. CASE MarkBad
  <2>1. PICK b \in BadBlocks :
          /\ image' = Put(image, {Extent(asked.start + AltPtr, AltLen, b.alts)})
          /\ UNCHANGED <<pc, asked>>
    BY <1>11 DEF MarkBad
  <2> DEFINE runs == {Extent(asked.start + AltPtr, AltLen, b.alts)}
  <2>2. StructureOK(b.alts)
    <3>1. b.alts \in [kind : {"alts"}, track : AltTable, sector : AltTable]
      BY AlternatesAssumption DEF AlternatesOwn
    <3>2. "kind" \in DOMAIN b.alts /\ b.alts.kind = "alts"  BY <3>1
    <3> QED  BY <3>2, PlainStructure
  <2>3. RunsOK(runs)  BY <2>2 DEF RunsOK, Extent
  <2>4. ImageOK(image')  BY <2>1, <2>3, PutOK
  <2> QED  BY <1>b, <2>1, <2>4
<1>12. CASE UNCHANGED vars  BY <1>12, <1>b DEF vars
<1> QED
  BY <1>1, <1>2, <1>3, <1>4, <1>5, <1>6, <1>7, <1>8, <1>9, <1>10, <1>11, <1>12
     DEF Next

\* Whatever disk was created, whichever slice was formatted with whatever
\* options, and wherever a command was killed, refused or panicked: every UFS
\* superblock in the image describes groups that tile the slice, bitmaps that
\* fit in their blocks, and areas that do not meet.
THEOREM SuperblocksAreSound == Spec => []LayoutSound
<1>1. Init => ImageInv
  BY DEF Init, ImageInv, Idle, ImageOK, RunsOK, Blank
<1>2. ImageInv => LayoutSound
  BY DEF ImageInv, ImageOK, RunsOK, StructureOK, LayoutSound
<1> QED  BY <1>1, <1>2, ImageStep, PTL DEF Spec

============================================================================
