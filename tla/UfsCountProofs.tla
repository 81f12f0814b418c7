-------------------------- MODULE UfsCountProofs --------------------------
(***************************************************************************)
(* Proofs about the counters of UfsAllocator, for every geometry: the      *)
(* counts that alloc.rs adjusts by one with every call stay equal to a     *)
(* count of the bitmaps, so the group headers never hide room from a       *)
(* search and a recount finds nothing to correct.                          *)
(***************************************************************************)
EXTENDS UfsAllocatorProofs

----------------------------------------------------------------------------
(* Counting.                                                               *)

\* Every fragment address lies below fs_dsize.
LEMMA FragBelow ==
  ASSUME NEW f \in AllDataFrags  PROVE f \in 1 .. DSize - 1
<1>1. PICK cg \in CG : f \in DataFrags[cg]  BY DEF AllDataFrags
<1>2. cg_ndblk(cg) \in 0 .. FPG /\ cgbase(cg) \in Nat  BY NdblkBound
<1>3. f \in Int /\ cgbase(cg) + DBlkNo <= f /\ f <= cgbase(cg) + cg_ndblk(cg) - 1
  BY <1>1, <1>2, GeometryAssumption DEF DataFrags
<1>4. cg_ndblk(cg) > 0 => cgbase(cg) + cg_ndblk(cg) <= DSize
  BY <1>2, GeometryAssumption DEF cg_ndblk
<1> QED  BY <1>2, <1>3, <1>4, GeometryAssumption

\* A count of blocks or fragments fits its u32.
LEMMA FragsFew ==
  ASSUME NEW S \in SUBSET AllDataFrags
  PROVE  IsFiniteSet(S) /\ Cardinality(S) \in Count
<1> DEFINE I == 1 .. DSize - 1
<1>1. 1 \in Int /\ DSize - 1 \in Int /\ DSize >= 1  BY GeometryAssumption
<1>2. IsFiniteSet(I) /\ Cardinality(I) <= DSize - 1
  <2>1. /\ IsFiniteSet(1 .. DSize - 1)
        /\ Cardinality(1 .. DSize - 1) = IF 1 > DSize - 1 THEN 0 ELSE DSize - 1 - 1 + 1
    BY <1>1, FS_Interval
  <2> QED  BY <1>1, <2>1, GeometryAssumption
<1>3. S \in SUBSET I  BY FragBelow
<1> HIDE DEF I
<1>4. IsFiniteSet(S) /\ Cardinality(S) <= Cardinality(I)
  BY <1>2, <1>3, FS_Subset
<1>5. Cardinality(S) \in Nat /\ Cardinality(I) \in Nat
  BY <1>2, <1>4, FS_CardinalityType
<1> QED
  BY <1>2, <1>4, <1>5, WidthAssumption, CountModAssumption, GeometryAssumption
  DEF Count

\* A count of inodes fits its u32, since inode 0 is never among them.
LEMMA InodesFew ==
  ASSUME NEW S \in SUBSET Inode, 0 \notin S
  PROVE  IsFiniteSet(S) /\ Cardinality(S) \in Count
<1> DEFINE N == NCG * IPG
           I == 1 .. N - 1
<1>1. N \in Nat /\ N >= 1  BY GeometryAssumption
<1>2. S \in SUBSET I  BY <1>1 DEF Inode
<1>2a. N <= CountMod  BY WidthAssumption
<1> HIDE DEF N
<1>3. IsFiniteSet(I) /\ Cardinality(I) <= N - 1
  <2>1. 1 \in Int /\ N - 1 \in Int  BY <1>1
  <2>2. /\ IsFiniteSet(1 .. N - 1)
        /\ Cardinality(1 .. N - 1) = IF 1 > N - 1 THEN 0 ELSE N - 1 - 1 + 1
    BY <2>1, FS_Interval
  <2> QED  BY <1>1, <2>2
<1> HIDE DEF I
<1>4. IsFiniteSet(S) /\ Cardinality(S) <= Cardinality(I)
  BY <1>2, <1>3, FS_Subset
<1>5. Cardinality(S) \in Nat /\ Cardinality(I) \in Nat
  BY <1>3, <1>4, FS_CardinalityType
<1> QED  BY <1>1, <1>2a, <1>3, <1>4, <1>5, CountModAssumption DEF Count

\* A count that fits is stored as it is.
LEMMA CountKept ==
  ASSUME NEW x \in Count  PROVE x % CountMod = x /\ Adjust(x, 0) = x
<1>1. x \in 0 .. CountMod - 1  BY DEF Count
<1>2. x % CountMod = x  BY <1>1, CountModAssumption
<1>3. x + 0 = x  BY <1>1, CountModAssumption
<1> QED  BY <1>2, <1>3 DEF Adjust

\* Adding one to a counter counts a new element, taking one off a lost one.
LEMMA AdjustByOne ==
  ASSUME NEW S, IsFiniteSet(S), Cardinality(S) \in Count, NEW x
  PROVE  /\ x \in S => Adjust(Cardinality(S), -1) = Cardinality(S \ {x})
         /\ x \notin S /\ Cardinality(S \cup {x}) \in Count =>
              Adjust(Cardinality(S), 1) = Cardinality(S \cup {x})
<1> DEFINE n == Cardinality(S)
<1>1. n \in Nat /\ n < CountMod /\ CountMod \in Nat
  BY CountModAssumption DEF Count
<1>2. ASSUME x \in S  PROVE Adjust(n, -1) = Cardinality(S \ {x})
  <2>1. IsFiniteSet(S \ {x}) /\ Cardinality(S \ {x}) = n - 1
    BY <1>2, FS_RemoveElement
  <2>2. Cardinality(S \ {x}) \in Nat  BY <2>1, FS_CardinalityType
  <2> DEFINE m == Cardinality(S \ {x})
  <2> HIDE DEF n, m
  <2>3. m \in Nat /\ m = n - 1  BY <2>1, <2>2 DEF m
  <2>4. m \in Count /\ n + (-1) = m  BY <1>1, <2>3 DEF Count
  <2>5. m % CountMod = m  BY <2>4, CountKept
  <2> QED  BY <2>4, <2>5 DEF Adjust, m
<1>3. ASSUME x \notin S, Cardinality(S \cup {x}) \in Count
      PROVE  Adjust(n, 1) = Cardinality(S \cup {x})
  <2>1. Cardinality(S \cup {x}) = n + 1  BY <1>3, FS_AddElement
  <2> QED  BY <1>3, <2>1, CountKept DEF Adjust
<1> QED  BY <1>2, <1>3

----------------------------------------------------------------------------
(* Layout.                                                                 *)

\* The reserved inodes of a group lie in it.
LEMMA ReservedInGroup ==
  ASSUME NEW cg \in CG
  PROVE  /\ Reserved(cg) \subseteq InodesOf[cg]
         /\ ReservedInodes \cap InodesOf[cg] = Reserved(cg)
         /\ ReservedInodes \subseteq InodesOf[0]
<1>1. 0 \in CG /\ cg \in Nat  BY FirstBlock DEF CG
<1>2. /\ InodesOf[cg] = IPG * cg .. IPG * cg + IPG - 1
      /\ InodesOf[0] = IPG * 0 .. IPG * 0 + IPG - 1
  BY <1>1, InodesOfGroup
<1>3. ReservedInodes \subseteq InodesOf[0]
  BY <1>2, GeometryAssumption DEF ReservedInodes
<1>4. cg # 0 => ReservedInodes \cap InodesOf[cg] = {}
  BY <1>1, <1>3 DEF InodesOf
<1> QED  BY <1>3, <1>4 DEF Reserved

\* The counts of a group that is laid out on first touch, and those of a
\* group that is not: read_allocatable_cg_block, field by field.
LEMMA ReadCounts ==
  ASSUME NEW s \in AllocState, NEW C \in SUBSET CG
  PROVE  LET r == read_allocatable_cgs(s, C)
         IN  /\ r.total = s.total
             /\ \A cg \in CG :
                  IF cg \in C /\ s.magic[cg] = "pristine"
                    THEN /\ r.nbfree[cg] = Cardinality(DataBlocks[cg])
                         /\ r.nifree[cg] = IPG - Cardinality(Reserved(cg))
                         /\ r.ndir[cg] = 0
                    ELSE /\ r.nbfree[cg] = s.nbfree[cg]
                         /\ r.nifree[cg] = s.nifree[cg]
                         /\ r.ndir[cg] = s.ndir[cg]
<1> DEFINE P == {cg \in C : s.magic[cg] = "pristine"}
           r == read_allocatable_cgs(s, C)
           span(cg) == IF cg_ndblk(cg) > DBlkNo THEN cg_ndblk(cg) - DBlkNo ELSE 0
           blocks(cg) == (span(cg) \div Frag) % CountMod
           frags(cg)  == (span(cg) % Frag) % CountMod
           inodes(cg) == (IPG - Cardinality(Reserved(cg))) % CountMod
<1>1. CASE P = {}
  <2>1. r = s  BY <1>1 DEF read_allocatable_cgs
  <2> QED  BY <1>1, <2>1
<1>2. CASE P # {}
  <2>1. r = initialize_pristine_cgs(s, P)  BY <1>2 DEF read_allocatable_cgs
  <2> HIDE DEF blocks, frags, inodes, r, P
  <2>2. r = [s EXCEPT
        !.free   = s.free \cup UNION {DataFrags[cg] : cg \in P},
        !.used   = s.used \cup UNION {Reserved(cg) : cg \in P},
        !.magic  = [cg \in CG |-> IF cg \in P THEN "valid" ELSE s.magic[cg]],
        !.irotor = [cg \in CG |-> IF cg \in P THEN 0 ELSE s.irotor[cg]],
        !.nbfree = [cg \in CG |-> IF cg \in P THEN blocks(cg) ELSE s.nbfree[cg]],
        !.nifree = [cg \in CG |-> IF cg \in P THEN inodes(cg) ELSE s.nifree[cg]],
        !.nffree = [cg \in CG |-> IF cg \in P THEN frags(cg) ELSE s.nffree[cg]],
        !.ndir   = [cg \in CG |-> IF cg \in P THEN 0 ELSE s.ndir[cg]]]
    BY <2>1 DEF initialize_pristine_cgs, blocks, frags, inodes
  <2>3. /\ r.total = s.total
        /\ r.nbfree = [cg \in CG |-> IF cg \in P THEN blocks(cg) ELSE s.nbfree[cg]]
        /\ r.nifree = [cg \in CG |-> IF cg \in P THEN inodes(cg) ELSE s.nifree[cg]]
        /\ r.ndir   = [cg \in CG |-> IF cg \in P THEN 0 ELSE s.ndir[cg]]
    BY <2>2 DEF AllocState
  <2>4. ASSUME NEW cg \in CG
        PROVE  /\ blocks(cg) = Cardinality(DataBlocks[cg])
               /\ inodes(cg) = IPG - Cardinality(Reserved(cg))
    <3>1. Cardinality(DataBlocks[cg]) = span(cg) \div Frag  BY DataBlockCount
    <3>2. DataBlocks[cg] \in SUBSET AllDataFrags  BY DEF DataBlocks, AllDataFrags
    <3>3. Cardinality(DataBlocks[cg]) \in Count  BY <3>2, FragsFew
    <3>4. blocks(cg) = Cardinality(DataBlocks[cg])
      BY <3>1, <3>3, CountKept DEF blocks
    <3> DEFINE F == InodesOf[cg] \ Reserved(cg)
    <3>5. F \in SUBSET Inode /\ 0 \notin F
      BY ReservedInGroup DEF InodesOf, ReservedInodes
    <3>6. Cardinality(F) \in Count  BY <3>5, InodesFew
    <3>7. InodesOf[cg] \cap Reserved(cg) = Reserved(cg)  BY ReservedInGroup
    <3>8. Cardinality(F) = IPG - Cardinality(Reserved(cg))
      <4>1. IsFiniteSet(InodesOf[cg]) /\ Cardinality(InodesOf[cg]) = IPG
        BY InodesOfGroup
      <4>2. Cardinality(F) = Cardinality(InodesOf[cg])
                               - Cardinality(InodesOf[cg] \cap Reserved(cg))
        BY <4>1, FS_Difference
      <4> QED  BY <3>7, <4>1, <4>2
    <3>9. inodes(cg) = IPG - Cardinality(Reserved(cg))
      BY <3>6, <3>8, CountKept DEF inodes
    <3> QED  BY <3>4, <3>9
  <2> QED  BY <2>3, <2>4 DEF r, P
<1> QED  BY <1>1, <1>2

----------------------------------------------------------------------------
(* The counts of a state, against its bitmaps.                             *)

\* What makes the counts inductive: directories are used inodes that are not
\* reserved, a laid-out group has its reserved inodes marked, and nothing is
\* used in a group that is not laid out.
BitsOK(s, D) ==
  /\ D \subseteq s.used \ ReservedInodes
  /\ \A cg \in CG :
       /\ s.magic[cg] = "valid" => Reserved(cg) \subseteq s.used
       /\ s.magic[cg] # "valid" => s.used \cap InodesOf[cg] = {}

\* Every group has its counts.
LEMMA Headers ==
  ASSUME NEW s \in AllocState
  PROVE  DOMAIN s.nbfree = CG /\ DOMAIN s.nifree = CG /\ DOMAIN s.ndir = CG
  BY DEF AllocState

\* GroupCountsExact of any allocation state s and any set D of directories.
CountsOK(s, D) ==
  /\ BitsOK(s, D)
  /\ \A cg \in CG : s.magic[cg] = "valid" =>
       /\ s.nbfree[cg] = Cardinality(FreeBlocks(s, cg))
       /\ s.nifree[cg] = Cardinality(FreeInodes(s, cg))
       /\ s.ndir[cg] = Cardinality(D \cap InodesOf[cg])

\* What is free once every pristine group is laid out.
SettledBlocks(s) == {b \in Block : BlockFree(read_allocatable_cgs(s, CG), b)}

SettledInodes(s) == Inode \ read_allocatable_cgs(s, CG).used

\* TotalsExact of any state.
TotalsOK(s, D) ==
  (\A cg \in CG : s.magic[cg] # "bad") =>
    /\ s.total.nbfree = Cardinality(SettledBlocks(s))
    /\ s.total.nifree = Cardinality(SettledInodes(s))
    /\ s.total.ndir = Cardinality(D)

\* The free blocks of a group depend on the bitmap of the group alone.
LEMMA FreeBlocksLocal ==
  ASSUME NEW s, NEW t, NEW cg \in CG,
         s.free \cap DataFrags[cg] = t.free \cap DataFrags[cg]
  PROVE  FreeBlocks(s, cg) = FreeBlocks(t, cg)
<1>1. \A b \in DataBlocks[cg] : Run(b, Frag) \subseteq DataFrags[cg]
  BY BlockInGroup
<1> QED  BY <1>1 DEF FreeBlocks, BlockFree

\* Block by block and inode by inode, what is free once all is laid out.
LEMMA SettledIs ==
  ASSUME NEW s \in AllocState
  PROVE  /\ \A b \in Block : b \in SettledBlocks(s) <=>
              s.magic[dtog(b)] = "pristine" \/ Run(b, Frag) \subseteq s.free
         /\ \A i \in Inode : i \in SettledInodes(s) <=>
              /\ i \notin s.used
              /\ ~(s.magic[itog(i)] = "pristine" /\ i \in Reserved(itog(i)))
<1> DEFINE u == read_allocatable_cgs(s, CG)
           P == {cg \in CG : s.magic[cg] = "pristine"}
<1>1. CG \in SUBSET CG  OBVIOUS
<1>2. /\ u.used = s.used \cup UNION {Reserved(cg) : cg \in P}
  BY <1>1, ReadAllocatable
<1>3. \A cg \in CG : u.free \cap DataFrags[cg] =
        IF s.magic[cg] = "pristine" THEN DataFrags[cg] ELSE s.free \cap DataFrags[cg]
  <2> SUFFICES ASSUME NEW cg \in CG
               PROVE  u.free \cap DataFrags[cg] =
                        IF s.magic[cg] = "pristine" THEN DataFrags[cg]
                        ELSE s.free \cap DataFrags[cg]
    OBVIOUS
  <2> QED  BY <1>1, GroupFree
<1> HIDE DEF u
<1>4. ASSUME NEW b \in Block
      PROVE  b \in SettledBlocks(s) <=>
               s.magic[dtog(b)] = "pristine" \/ Run(b, Frag) \subseteq s.free
  <2>1. dtog(b) \in CG /\ Run(b, Frag) \subseteq DataFrags[dtog(b)]  BY BlockGroup
  <2>2. b \in SettledBlocks(s) <=> Run(b, Frag) \subseteq u.free
    BY DEF SettledBlocks, BlockFree, u
  <2> QED  BY <1>3, <2>1, <2>2
<1>5. ASSUME NEW i \in Inode
      PROVE  i \in SettledInodes(s) <=>
               /\ i \notin s.used
               /\ ~(s.magic[itog(i)] = "pristine" /\ i \in Reserved(itog(i)))
  <2>1. itog(i) \in CG  BY ItogType
  <2>2. i \in SettledInodes(s) <=> i \notin u.used  BY DEF SettledInodes, u
  <2>3. \A cg \in CG : i \in Reserved(cg) => cg = itog(i)
    BY ReservedInGroup DEF InodesOf
  <2> QED  BY <1>2, <2>1, <2>2, <2>3
<1> QED  BY <1>4, <1>5

\* Inode 0 is reserved in every volume without a damaged group, so it is
\* never counted as free.
LEMMA ZeroNeverFree ==
  ASSUME NEW s \in AllocState, NEW D, CountsOK(s, D),
         \A cg \in CG : s.magic[cg] # "bad"
  PROVE  0 \notin SettledInodes(s)
<1>1. 0 \in CG /\ 0 \in ReservedInodes  BY FirstBlock DEF ReservedInodes
<1>2. 0 \in InodesOf[0] /\ 0 \in Reserved(0)
  BY <1>1, ReservedInGroup DEF Reserved
<1>3. 0 \in Inode /\ itog(0) = 0  BY <1>1, <1>2 DEF InodesOf
<1>4. s.magic[0] = "pristine" \/ s.magic[0] = "valid"
  BY <1>1 DEF AllocState, Magic
<1>5. s.magic[0] = "valid" => 0 \in s.used  BY <1>1, <1>2 DEF CountsOK, BitsOK
<1> QED  BY <1>2, <1>3, <1>4, <1>5, SettledIs

\* Laying groups out marks the reserved inodes and nothing else.
LEMMA LayoutKeepsBits ==
  ASSUME NEW s \in AllocState, NEW D, BitsOK(s, D), NEW V \in SUBSET CG
  PROVE  BitsOK(read_allocatable_cgs(s, V), D)
<1> DEFINE u == read_allocatable_cgs(s, V)
           P == {cg \in V : s.magic[cg] = "pristine"}
<1>1. /\ u.magic = [cg \in CG |-> IF cg \in P THEN "valid" ELSE s.magic[cg]]
      /\ u.used = s.used \cup UNION {Reserved(cg) : cg \in P}
  BY ReadAllocatable
<1>2. \A c, cg \in CG : c # cg => Reserved(c) \cap InodesOf[cg] = {}
  BY ReservedInGroup DEF InodesOf
<1> HIDE DEF u
<1>3. ASSUME NEW cg \in CG
      PROVE  /\ u.magic[cg] = "valid" => Reserved(cg) \subseteq u.used
             /\ u.magic[cg] # "valid" => u.used \cap InodesOf[cg] = {}
  BY <1>1, <1>2 DEF BitsOK
<1>4. D \subseteq u.used \ ReservedInodes  BY <1>1 DEF BitsOK
<1>5. BitsOK(u, D)  BY <1>3, <1>4 DEF BitsOK
<1> QED  BY <1>5 DEF u

\* Laying groups out keeps the counts exact: a group that is laid out is
\* counted with all it holds, the others are not touched.
LEMMA LayoutKeepsCounts ==
  ASSUME NEW s \in AllocState, NEW D, CountsOK(s, D), NEW V \in SUBSET CG
  PROVE  CountsOK(read_allocatable_cgs(s, V), D)
<1> DEFINE u == read_allocatable_cgs(s, V)
           P == {cg \in V : s.magic[cg] = "pristine"}
<1>1. /\ u.magic = [cg \in CG |-> IF cg \in P THEN "valid" ELSE s.magic[cg]]
      /\ u.used = s.used \cup UNION {Reserved(cg) : cg \in P}
  BY ReadAllocatable
<1>2. \A cg \in CG :
        IF cg \in P THEN /\ u.nbfree[cg] = Cardinality(DataBlocks[cg])
                         /\ u.nifree[cg] = IPG - Cardinality(Reserved(cg))
                         /\ u.ndir[cg] = 0
                    ELSE /\ u.nbfree[cg] = s.nbfree[cg]
                         /\ u.nifree[cg] = s.nifree[cg]
                         /\ u.ndir[cg] = s.ndir[cg]
  BY ReadCounts
<1>3. \A cg \in CG : u.free \cap DataFrags[cg] =
        IF cg \in P THEN DataFrags[cg] ELSE s.free \cap DataFrags[cg]
  <2> SUFFICES ASSUME NEW cg \in CG
               PROVE  u.free \cap DataFrags[cg] =
                        IF cg \in V /\ s.magic[cg] = "pristine" THEN DataFrags[cg]
                        ELSE s.free \cap DataFrags[cg]
    OBVIOUS
  <2> QED  BY GroupFree
<1>4. \A cg \in CG : u.used \cap InodesOf[cg] =
        (s.used \cap InodesOf[cg]) \cup (IF cg \in P THEN Reserved(cg) ELSE {})
  <2> HIDE DEF u
  <2>1. \A c, cg \in CG : c # cg => Reserved(c) \cap InodesOf[cg] = {}
    BY ReservedInGroup DEF InodesOf
  <2> QED  BY <1>1, <2>1, ReservedInGroup
<1> HIDE DEF u, P
<1>5. D \subseteq u.used \ ReservedInodes  BY <1>1 DEF CountsOK, BitsOK
<1>6. ASSUME NEW cg \in CG
      PROVE  /\ u.magic[cg] = "valid" =>
                  /\ Reserved(cg) \subseteq u.used
                  /\ u.nbfree[cg] = Cardinality(FreeBlocks(u, cg))
                  /\ u.nifree[cg] = Cardinality(FreeInodes(u, cg))
                  /\ u.ndir[cg] = Cardinality(D \cap InodesOf[cg])
             /\ u.magic[cg] # "valid" => u.used \cap InodesOf[cg] = {}
  <2>1. CASE cg \in P
    <3>1. s.used \cap InodesOf[cg] = {}  BY <2>1 DEF P, CountsOK, BitsOK
    <3>2. u.used \cap InodesOf[cg] = Reserved(cg)  BY <1>4, <2>1, <3>1
    <3>3. FreeInodes(u, cg) = InodesOf[cg] \ Reserved(cg)
      BY <3>2 DEF FreeInodes
    <3>4. Cardinality(FreeInodes(u, cg)) = IPG - Cardinality(Reserved(cg))
      <4>1. IsFiniteSet(InodesOf[cg]) /\ Cardinality(InodesOf[cg]) = IPG
        BY InodesOfGroup
      <4>2. Cardinality(InodesOf[cg] \ Reserved(cg)) =
              Cardinality(InodesOf[cg]) - Cardinality(InodesOf[cg] \cap Reserved(cg))
        BY <4>1, FS_Difference
      <4>3. InodesOf[cg] \cap Reserved(cg) = Reserved(cg)  BY ReservedInGroup
      <4> QED  BY <3>3, <4>1, <4>2, <4>3
    <3>5. FreeBlocks(u, cg) = DataBlocks[cg]
      <4>1. DataFrags[cg] \subseteq u.free  BY <1>3, <2>1
      <4> QED  BY <4>1, BlockInGroup DEF FreeBlocks, BlockFree
    <3>6. D \cap InodesOf[cg] = {}  BY <3>1 DEF CountsOK, BitsOK
    <3>7. Cardinality(D \cap InodesOf[cg]) = 0  BY <3>6, FS_EmptySet
    <3>8. u.magic[cg] = "valid"  BY <1>1, <2>1
    <3> QED  BY <1>2, <2>1, <3>2, <3>4, <3>5, <3>7, <3>8
  <2>2. CASE cg \notin P
    <3>1. u.magic[cg] = s.magic[cg]  BY <1>1, <2>2
    <3>2. FreeBlocks(u, cg) = FreeBlocks(s, cg)
      BY <1>3, <2>2, FreeBlocksLocal
    <3>3. u.used \cap InodesOf[cg] = s.used \cap InodesOf[cg]  BY <1>4, <2>2
    <3>4. FreeInodes(u, cg) = FreeInodes(s, cg)  BY <3>3 DEF FreeInodes
    <3>5. s.used \subseteq u.used  BY <1>1
    <3> QED  BY <1>2, <2>2, <3>1, <3>2, <3>3, <3>4, <3>5 DEF CountsOK, BitsOK
  <2> QED  BY <2>1, <2>2
<1>7. CountsOK(u, D)  BY <1>5, <1>6 DEF CountsOK, BitsOK
<1> QED  BY <1>7 DEF u

\* Laying groups out leaves the totals right: they counted those groups
\* already.
LEMMA LayoutKeepsTotals ==
  ASSUME NEW s \in AllocState, NEW D, TotalsOK(s, D), NEW V \in SUBSET CG
  PROVE  TotalsOK(read_allocatable_cgs(s, V), D)
<1> DEFINE u == read_allocatable_cgs(s, V)
           P == {cg \in V : s.magic[cg] = "pristine"}
<1>1. /\ u \in AllocState
      /\ u.magic = [cg \in CG |-> IF cg \in P THEN "valid" ELSE s.magic[cg]]
      /\ u.used = s.used \cup UNION {Reserved(cg) : cg \in P}
  BY ReadAllocatable
<1>2. u.total = s.total  BY ReadCounts
<1>3. \A cg \in CG : u.free \cap DataFrags[cg] =
        IF cg \in P THEN DataFrags[cg] ELSE s.free \cap DataFrags[cg]
  <2> SUFFICES ASSUME NEW cg \in CG
               PROVE  u.free \cap DataFrags[cg] =
                        IF cg \in V /\ s.magic[cg] = "pristine" THEN DataFrags[cg]
                        ELSE s.free \cap DataFrags[cg]
    OBVIOUS
  <2> QED  BY GroupFree
<1> HIDE DEF u
<1>4. ASSUME NEW b \in Block  PROVE b \in SettledBlocks(u) <=> b \in SettledBlocks(s)
  <2>1. dtog(b) \in CG /\ Run(b, Frag) \subseteq DataFrags[dtog(b)]  BY BlockGroup
  <2>2. b \in SettledBlocks(u) <=>
          u.magic[dtog(b)] = "pristine" \/ Run(b, Frag) \subseteq u.free
    BY <1>1, SettledIs
  <2>3. b \in SettledBlocks(s) <=>
          s.magic[dtog(b)] = "pristine" \/ Run(b, Frag) \subseteq s.free
    BY SettledIs
  <2>4. Run(b, Frag) \subseteq u.free <=> Run(b, Frag) \subseteq
          (u.free \cap DataFrags[dtog(b)])
    BY <2>1
  <2> QED  BY <1>1, <1>3, <2>1, <2>2, <2>3, <2>4
<1>5. ASSUME NEW i \in Inode  PROVE i \in SettledInodes(u) <=> i \in SettledInodes(s)
  <2>1. itog(i) \in CG  BY ItogType
  <2>2. i \in SettledInodes(u) <=>
          i \notin u.used /\ ~(u.magic[itog(i)] = "pristine" /\ i \in Reserved(itog(i)))
    BY <1>1, SettledIs
  <2>3. i \in SettledInodes(s) <=>
          i \notin s.used /\ ~(s.magic[itog(i)] = "pristine" /\ i \in Reserved(itog(i)))
    BY SettledIs
  <2>4. \A cg \in CG : i \in Reserved(cg) => cg = itog(i)
    BY ReservedInGroup DEF InodesOf
  <2> QED  BY <1>1, <2>1, <2>2, <2>3, <2>4
<1>6. SettledBlocks(u) = SettledBlocks(s)
  <2>1. SettledBlocks(u) \subseteq Block /\ SettledBlocks(s) \subseteq Block
    BY DEF SettledBlocks
  <2> QED  BY <1>4, <2>1
<1>7. SettledInodes(u) = SettledInodes(s)
  <2>1. SettledInodes(u) \subseteq Inode /\ SettledInodes(s) \subseteq Inode
    BY DEF SettledInodes
  <2> QED  BY <1>5, <2>1
<1>8. (\A cg \in CG : u.magic[cg] # "bad") => (\A cg \in CG : s.magic[cg] # "bad")
  BY <1>1
<1>9. TotalsOK(u, D)  BY <1>2, <1>6, <1>7, <1>8 DEF TotalsOK
<1> QED  BY <1>9 DEF u

----------------------------------------------------------------------------
(* One call at a time.                                                     *)

\* Taking a run of a free block costs its group, and the volume, one block.
LEMMA TakeKeepsCounts ==
  ASSUME NEW s \in AllocState, NEW D, CountsOK(s, D), TotalsOK(s, D),
         NEW c \in CG, s.magic[c] = "valid", NEW b \in FreeBlocks(s, c),
         NEW n \in 1 .. Frag, NEW t \in AllocState,
         t = [s EXCEPT !.free = @ \ Run(b, n),
                       !.nbfree[c] = Adjust(@, -1),
                       !.total.nbfree = Adjust(@, -1)]
  PROVE  CountsOK(t, D) /\ TotalsOK(t, D)
<1>1. /\ t.free = s.free \ Run(b, n) /\ t.used = s.used /\ t.magic = s.magic
      /\ t.nbfree = [s.nbfree EXCEPT ![c] = Adjust(@, -1)]
      /\ t.nifree = s.nifree /\ t.ndir = s.ndir
      /\ t.total.nbfree = Adjust(s.total.nbfree, -1)
      /\ t.total.nifree = s.total.nifree /\ t.total.ndir = s.total.ndir
  BY DEF AllocState
<1>2. /\ b \in DataBlocks[c] /\ Run(b, Frag) \subseteq s.free
      /\ b \in Block /\ b \in Nat /\ dtog(b) = c
  BY BlockInGroup DEF FreeBlocks, BlockFree
<1>3. b \in Run(b, n) /\ Run(b, n) \subseteq Run(b, Frag) /\ b \in Run(b, Frag)
  BY <1>2, GeometryAssumption DEF Run
<1>4. ASSUME NEW e \in Block
      PROVE  Run(e, Frag) \subseteq t.free <=> e # b /\ Run(e, Frag) \subseteq s.free
  <2>1. e # b => Run(e, Frag) \cap Run(b, Frag) = {}  BY <1>2, BlocksDisjoint
  <2> QED  BY <1>1, <1>3, <2>1
<1>5. \A cg \in CG : FreeBlocks(t, cg) = FreeBlocks(s, cg) \ {b}
  <2>1. \A cg \in CG : \A e \in DataBlocks[cg] : e \in Block  BY BlockInGroup
  <2> QED  BY <1>4, <2>1 DEF FreeBlocks, BlockFree
<1>6. \A cg \in CG : cg # c => b \notin FreeBlocks(s, cg)
  BY <1>2, BlockInGroup DEF FreeBlocks
<1>7. ASSUME NEW cg \in CG, s.magic[cg] = "valid"
      PROVE  t.nbfree[cg] = Cardinality(FreeBlocks(t, cg))
  <2>1. s.nbfree[cg] = Cardinality(FreeBlocks(s, cg))  BY <1>7 DEF CountsOK, BitsOK
  <2>2. CASE cg # c
    <3>1. FreeBlocks(t, cg) = FreeBlocks(s, cg)  BY <1>5, <1>6, <2>2
    <3>2. t.nbfree[cg] = s.nbfree[cg]  BY <1>1, <2>2, Headers
    <3> QED  BY <2>1, <3>1, <3>2
  <2>3. CASE cg = c
    <3> DEFINE S == FreeBlocks(s, c)
    <3>1. S \in SUBSET AllDataFrags  BY DEF FreeBlocks, DataBlocks, AllDataFrags
    <3>2. IsFiniteSet(S) /\ Cardinality(S) \in Count  BY <3>1, FragsFew
    <3> HIDE DEF S
    <3>3. b \in S  BY DEF S
    <3>4. Adjust(Cardinality(S), -1) = Cardinality(S \ {b})
      BY <3>2, <3>3, AdjustByOne
    <3>5. t.nbfree[c] = Adjust(s.nbfree[c], -1)  BY <1>1, Headers
    <3> QED  BY <1>5, <2>1, <2>3, <3>4, <3>5 DEF S
  <2> QED  BY <2>2, <2>3
<1>8. CountsOK(t, D)
  <2>1. \A cg \in CG : FreeInodes(t, cg) = FreeInodes(s, cg)
    BY <1>1 DEF FreeInodes
  <2> QED  BY <1>1, <1>7, <2>1 DEF CountsOK, BitsOK
<1>9. TotalsOK(t, D)
  <2> SUFFICES ASSUME \A cg \in CG : t.magic[cg] # "bad"
               PROVE  /\ t.total.nbfree = Cardinality(SettledBlocks(t))
                      /\ t.total.nifree = Cardinality(SettledInodes(t))
                      /\ t.total.ndir = Cardinality(D)
    BY DEF TotalsOK
  <2>1. /\ s.total.nbfree = Cardinality(SettledBlocks(s))
        /\ s.total.nifree = Cardinality(SettledInodes(s))
        /\ s.total.ndir = Cardinality(D)
    BY <1>1 DEF TotalsOK
  <2> DEFINE S == SettledBlocks(s)
  <2>2. S \subseteq Block /\ SettledBlocks(t) \subseteq Block
    BY DEF SettledBlocks
  <2>3. S \in SUBSET AllDataFrags
    BY <2>2 DEF Block, DataBlocks, AllDataFrags
  <2>4. IsFiniteSet(S) /\ Cardinality(S) \in Count  BY <2>3, FragsFew
  <2>5. b \in S  BY <1>2, SettledIs
  <2>6. ASSUME NEW e \in Block
        PROVE  e \in SettledBlocks(t) <=> e \in S /\ e # b
    <3>1. e \in SettledBlocks(t) <=>
            t.magic[dtog(e)] = "pristine" \/ Run(e, Frag) \subseteq t.free
      BY SettledIs
    <3>2. e \in S <=> s.magic[dtog(e)] = "pristine" \/ Run(e, Frag) \subseteq s.free
      BY SettledIs
    <3>3. s.magic[dtog(b)] = "valid"  BY <1>2
    <3> HIDE DEF S
    <3> QED  BY <1>1, <1>4, <3>1, <3>2, <3>3
  <2> HIDE DEF S
  <2>7. SettledBlocks(t) = S \ {b}  BY <2>2, <2>6
  <2>8. Adjust(Cardinality(S), -1) = Cardinality(S \ {b})
    BY <2>4, <2>5, AdjustByOne
  <2>9. SettledInodes(t) = SettledInodes(s)
    <3>1. SettledInodes(t) \subseteq Inode /\ SettledInodes(s) \subseteq Inode
      BY DEF SettledInodes
    <3>2. \A i \in Inode : i \in SettledInodes(t) <=> i \in SettledInodes(s)
      BY <1>1, SettledIs
    <3> QED  BY <3>1, <3>2
  <2> QED  BY <1>1, <2>1, <2>7, <2>8, <2>9 DEF S
<1> QED  BY <1>8, <1>9

\* Releasing what was held of a block makes it whole again: its group, and
\* the volume, count one block more.
LEMMA GiveKeepsCounts ==
  ASSUME NEW s \in AllocState, NEW D, CountsOK(s, D), TotalsOK(s, D),
         NEW b \in Block, s.magic[dtog(b)] = "valid", NEW n \in 1 .. Frag,
         Run(b, Frag) \ s.free = Run(b, n), NEW t \in AllocState,
         t = [s EXCEPT !.free = @ \cup Run(b, n),
                       !.nbfree[dtog(b)] = Adjust(@, 1),
                       !.total.nbfree = Adjust(@, 1)]
  PROVE  CountsOK(t, D) /\ TotalsOK(t, D)
<1> DEFINE c == dtog(b)
<1>1. /\ t.free = s.free \cup Run(b, n) /\ t.used = s.used /\ t.magic = s.magic
      /\ t.nbfree = [s.nbfree EXCEPT ![c] = Adjust(@, 1)]
      /\ t.nifree = s.nifree /\ t.ndir = s.ndir
      /\ t.total.nbfree = Adjust(s.total.nbfree, 1)
      /\ t.total.nifree = s.total.nifree /\ t.total.ndir = s.total.ndir
  BY DEF AllocState
<1>2. c \in CG /\ b \in DataBlocks[c] /\ b \in Nat  BY BlockGroup
<1>3. b \in Run(b, n) /\ Run(b, n) \subseteq Run(b, Frag)
  BY <1>2, GeometryAssumption DEF Run
<1>4. ~(Run(b, Frag) \subseteq s.free) /\ Run(b, Frag) \subseteq t.free
  BY <1>1, <1>3
<1> HIDE DEF c
<1>5. ASSUME NEW e \in Block
      PROVE  Run(e, Frag) \subseteq t.free <=> e = b \/ Run(e, Frag) \subseteq s.free
  <2>1. e # b => Run(e, Frag) \cap Run(b, Frag) = {}  BY BlocksDisjoint
  <2> QED  BY <1>1, <1>3, <1>4, <2>1
<1>6. ASSUME NEW cg \in CG
      PROVE  FreeBlocks(t, cg) = IF cg = c THEN FreeBlocks(s, cg) \cup {b}
                                 ELSE FreeBlocks(s, cg)
  <2>1. \A e \in DataBlocks[cg] : e \in Block /\ dtog(e) = cg  BY BlockInGroup
  <2>2. FreeBlocks(t, cg) = {e \in DataBlocks[cg] : e = b \/ Run(e, Frag) \subseteq s.free}
    BY <1>5, <2>1 DEF FreeBlocks, BlockFree
  <2>3. b \in DataBlocks[cg] <=> cg = c  BY <1>2, <2>1 DEF c
  <2> QED  BY <2>2, <2>3 DEF FreeBlocks, BlockFree
<1>7. ASSUME NEW cg \in CG, s.magic[cg] = "valid"
      PROVE  t.nbfree[cg] = Cardinality(FreeBlocks(t, cg))
  <2>1. s.nbfree[cg] = Cardinality(FreeBlocks(s, cg))  BY <1>7 DEF CountsOK, BitsOK
  <2>2. CASE cg # c
    <3>1. t.nbfree[cg] = s.nbfree[cg]  BY <1>1, <2>2, Headers
    <3> QED  BY <1>6, <2>1, <2>2, <3>1
  <2>3. CASE cg = c
    <3> DEFINE S == FreeBlocks(s, c)
    <3>1. S \in SUBSET AllDataFrags /\ S \cup {b} \in SUBSET AllDataFrags
      BY <1>2 DEF FreeBlocks, DataBlocks, AllDataFrags
    <3>2. IsFiniteSet(S) /\ Cardinality(S) \in Count
      BY <3>1, FragsFew
    <3>3. Cardinality(S \cup {b}) \in Count  BY <3>1, FragsFew
    <3>4. b \notin S  BY <1>4 DEF FreeBlocks, BlockFree
    <3> HIDE DEF S
    <3>5. Adjust(Cardinality(S), 1) = Cardinality(S \cup {b})
      BY <3>2, <3>3, <3>4, AdjustByOne
    <3>6. t.nbfree[c] = Adjust(s.nbfree[c], 1)  BY <1>1, <1>2, Headers
    <3> QED  BY <1>6, <2>1, <2>3, <3>5, <3>6 DEF S
  <2> QED  BY <2>2, <2>3
<1>8. CountsOK(t, D)
  <2>1. \A cg \in CG : FreeInodes(t, cg) = FreeInodes(s, cg)
    BY <1>1 DEF FreeInodes
  <2> QED  BY <1>1, <1>7, <2>1 DEF CountsOK, BitsOK
<1>9. TotalsOK(t, D)
  <2> SUFFICES ASSUME \A cg \in CG : t.magic[cg] # "bad"
               PROVE  /\ t.total.nbfree = Cardinality(SettledBlocks(t))
                      /\ t.total.nifree = Cardinality(SettledInodes(t))
                      /\ t.total.ndir = Cardinality(D)
    BY DEF TotalsOK
  <2>1. /\ s.total.nbfree = Cardinality(SettledBlocks(s))
        /\ s.total.nifree = Cardinality(SettledInodes(s))
        /\ s.total.ndir = Cardinality(D)
    BY <1>1 DEF TotalsOK
  <2> DEFINE S == SettledBlocks(s)
  <2>2. S \subseteq Block /\ SettledBlocks(t) \subseteq Block
    BY DEF SettledBlocks
  <2>3. S \in SUBSET AllDataFrags /\ S \cup {b} \in SUBSET AllDataFrags
    BY <2>2 DEF Block, DataBlocks, AllDataFrags
  <2>4. IsFiniteSet(S) /\ Cardinality(S) \in Count  BY <2>3, FragsFew
  <2>5. Cardinality(S \cup {b}) \in Count  BY <2>3, FragsFew
  <2>6. b \notin S
    <3>1. b \in S <=> s.magic[dtog(b)] = "pristine" \/ Run(b, Frag) \subseteq s.free
      BY SettledIs
    <3> QED  BY <1>4, <3>1
  <2>7. ASSUME NEW e \in Block
        PROVE  e \in SettledBlocks(t) <=> e \in S \/ e = b
    <3>1. e \in SettledBlocks(t) <=>
            t.magic[dtog(e)] = "pristine" \/ Run(e, Frag) \subseteq t.free
      BY SettledIs
    <3>2. e \in S <=> s.magic[dtog(e)] = "pristine" \/ Run(e, Frag) \subseteq s.free
      BY SettledIs
    <3> HIDE DEF S
    <3> QED  BY <1>1, <1>5, <3>1, <3>2
  <2> HIDE DEF S
  <2>8. SettledBlocks(t) = S \cup {b}  BY <2>2, <2>7
  <2>9. Adjust(Cardinality(S), 1) = Cardinality(S \cup {b})
    BY <2>4, <2>5, <2>6, AdjustByOne
  <2>10. SettledInodes(t) = SettledInodes(s)
    <3>1. SettledInodes(t) \subseteq Inode /\ SettledInodes(s) \subseteq Inode
      BY DEF SettledInodes
    <3>2. \A i \in Inode : i \in SettledInodes(t) <=> i \in SettledInodes(s)
      BY <1>1, SettledIs
    <3> QED  BY <3>1, <3>2
  <2> QED  BY <1>1, <2>1, <2>8, <2>9, <2>10 DEF S
<1> QED  BY <1>8, <1>9

\* Taking a free inode costs its group, and the volume, one inode; taking it
\* as a directory counts one directory more.
LEMMA TakeInodeKeepsCounts ==
  ASSUME NEW s \in AllocState, NEW D, CountsOK(s, D), TotalsOK(s, D),
         NEW c \in CG, s.magic[c] = "valid", NEW i \in FreeInodes(s, c),
         NEW directory \in BOOLEAN, NEW t \in AllocState,
         t = [s EXCEPT !.used = @ \cup {i},
                       !.irotor[c] = LocalInode(i),
                       !.nifree[c] = Adjust(@, -1),
                       !.ndir[c] = Adjust(@, IF directory THEN 1 ELSE 0),
                       !.total.nifree = Adjust(@, -1),
                       !.total.ndir = Adjust(@, IF directory THEN 1 ELSE 0)]
  PROVE  LET E == IF directory THEN D \cup {i} ELSE D
         IN  CountsOK(t, E) /\ TotalsOK(t, E)
<1> DEFINE E == IF directory THEN D \cup {i} ELSE D
           d == IF directory THEN 1 ELSE 0
<1>1. /\ t.free = s.free /\ t.used = s.used \cup {i} /\ t.magic = s.magic
      /\ t.nifree = [s.nifree EXCEPT ![c] = Adjust(@, -1)]
      /\ t.ndir = [s.ndir EXCEPT ![c] = Adjust(@, d)]
      /\ t.nbfree = s.nbfree
      /\ t.total.nifree = Adjust(s.total.nifree, -1)
      /\ t.total.ndir = Adjust(s.total.ndir, d)
      /\ t.total.nbfree = s.total.nbfree
  BY DEF AllocState
<1>2. /\ i \in Inode /\ itog(i) = c /\ i \in InodesOf[c] /\ i \notin s.used
      /\ \A cg \in CG : i \in InodesOf[cg] <=> cg = c
  BY DEF FreeInodes, InodesOf
<1>3. Reserved(c) \subseteq s.used /\ D \subseteq s.used \ ReservedInodes
      /\ s.used \subseteq Inode
  BY DEF CountsOK, BitsOK, AllocState
<1>4. i \notin ReservedInodes  BY <1>2, <1>3, ReservedInGroup
<1>5. i \notin D /\ 0 \notin D /\ i # 0  BY <1>2, <1>3, <1>4 DEF ReservedInodes
<1> HIDE DEF E, d
<1>6. E \subseteq t.used \ ReservedInodes  BY <1>1, <1>3, <1>4 DEF E
<1>7. ASSUME NEW cg \in CG
      PROVE  FreeInodes(t, cg) = FreeInodes(s, cg) \ {i}
  BY <1>1 DEF FreeInodes
<1>8. ASSUME NEW cg \in CG, s.magic[cg] = "valid"
      PROVE  t.nifree[cg] = Cardinality(FreeInodes(t, cg))
  <2>1. s.nifree[cg] = Cardinality(FreeInodes(s, cg))  BY <1>8 DEF CountsOK, BitsOK
  <2>2. CASE cg # c
    <3>1. FreeInodes(t, cg) = FreeInodes(s, cg)
      BY <1>2, <1>7, <2>2 DEF FreeInodes
    <3>2. t.nifree[cg] = s.nifree[cg]  BY <1>1, <2>2, Headers
    <3> QED  BY <2>1, <3>1, <3>2
  <2>3. CASE cg = c
    <3> DEFINE S == FreeInodes(s, c)
    <3>1. S \in SUBSET Inode /\ 0 \notin S
      <4>1. S \in SUBSET Inode  BY DEF FreeInodes, InodesOf
      <4>2. 0 \notin S  BY <1>3, ReservedInGroup DEF FreeInodes, ReservedInodes
      <4> QED  BY <4>1, <4>2
    <3>2. IsFiniteSet(S) /\ Cardinality(S) \in Count  BY <3>1, InodesFew
    <3> HIDE DEF S
    <3>3. i \in S  BY DEF S
    <3>4. Adjust(Cardinality(S), -1) = Cardinality(S \ {i})
      BY <3>2, <3>3, AdjustByOne
    <3>5. t.nifree[c] = Adjust(s.nifree[c], -1)  BY <1>1, Headers
    <3> QED  BY <1>7, <2>1, <2>3, <3>4, <3>5 DEF S
  <2> QED  BY <2>2, <2>3
<1>9. ASSUME NEW cg \in CG, s.magic[cg] = "valid"
      PROVE  t.ndir[cg] = Cardinality(E \cap InodesOf[cg])
  <2> DEFINE S == D \cap InodesOf[cg]
  <2>1. s.ndir[cg] = Cardinality(S)  BY <1>9 DEF CountsOK, BitsOK
  <2>2. S \in SUBSET Inode /\ 0 \notin S  BY <1>3, <1>5
  <2>3. IsFiniteSet(S) /\ Cardinality(S) \in Count  BY <2>2, InodesFew
  <2>4. CASE cg # c
    <3>1. E \cap InodesOf[cg] = S  BY <1>2, <2>4 DEF E
    <3>2. t.ndir[cg] = s.ndir[cg]  BY <1>1, <2>4, Headers
    <3> QED  BY <2>1, <3>1, <3>2
  <2>5. CASE cg = c
    <3>1. t.ndir[c] = Adjust(s.ndir[c], d)  BY <1>1, Headers
    <3>2. CASE directory
      <4>1. E \cap InodesOf[cg] = S \cup {i} /\ i \notin S
        BY <1>2, <1>5, <2>5, <3>2 DEF E
      <4>2. S \cup {i} \in SUBSET Inode /\ 0 \notin S \cup {i}
        BY <1>2, <1>5, <2>2
      <4> HIDE DEF S
      <4>3. Cardinality(S \cup {i}) \in Count  BY <4>2, InodesFew
      <4>4. Adjust(Cardinality(S), 1) = Cardinality(S \cup {i})
        BY <2>3, <4>1, <4>3, AdjustByOne
      <4> QED  BY <2>1, <2>5, <3>1, <3>2, <4>1, <4>4 DEF d
    <3>3. CASE ~directory
      <4>1. Adjust(Cardinality(S), 0) = Cardinality(S)  BY <2>3, CountKept
      <4> QED  BY <2>1, <2>5, <3>1, <3>3, <4>1 DEF d, E
    <3> QED  BY <3>2, <3>3
  <2> QED  BY <2>4, <2>5
<1>10. CountsOK(t, E)
  <2>1. \A cg \in CG : FreeBlocks(t, cg) = FreeBlocks(s, cg)
    BY <1>1 DEF FreeBlocks, BlockFree
  <2>2. \A cg \in CG : s.magic[cg] # "valid" => t.used \cap InodesOf[cg] = {}
    BY <1>1, <1>2 DEF CountsOK, BitsOK
  <2> QED  BY <1>1, <1>6, <1>8, <1>9, <2>1, <2>2 DEF CountsOK, BitsOK
<1>11. TotalsOK(t, E)
  <2> SUFFICES ASSUME \A cg \in CG : t.magic[cg] # "bad"
               PROVE  /\ t.total.nbfree = Cardinality(SettledBlocks(t))
                      /\ t.total.nifree = Cardinality(SettledInodes(t))
                      /\ t.total.ndir = Cardinality(E)
    BY DEF TotalsOK
  <2>1. /\ s.total.nbfree = Cardinality(SettledBlocks(s))
        /\ s.total.nifree = Cardinality(SettledInodes(s))
        /\ s.total.ndir = Cardinality(D)
    BY <1>1 DEF TotalsOK
  <2>2. SettledBlocks(t) = SettledBlocks(s)
    <3>1. SettledBlocks(t) \subseteq Block /\ SettledBlocks(s) \subseteq Block
      BY DEF SettledBlocks
    <3>2. \A b \in Block : b \in SettledBlocks(t) <=> b \in SettledBlocks(s)
      BY <1>1, SettledIs
    <3> QED  BY <3>1, <3>2
  <2> DEFINE S == SettledInodes(s)
  <2>3. S \subseteq Inode /\ SettledInodes(t) \subseteq Inode
    BY DEF SettledInodes
  <2>4. 0 \notin S /\ i \in S
    <3>1. 0 \notin S  BY <1>1, ZeroNeverFree
    <3>2. i \in S  BY <1>2, SettledIs
    <3> QED  BY <3>1, <3>2
  <2>5. IsFiniteSet(S) /\ Cardinality(S) \in Count  BY <2>3, <2>4, InodesFew
  <2>6. SettledInodes(t) = S \ {i}
    <3>1. \A j \in Inode : j \in SettledInodes(t) <=> j \in S /\ j # i
      BY <1>1, <1>2, SettledIs
    <3> HIDE DEF S
    <3> QED  BY <2>3, <3>1
  <2> HIDE DEF S
  <2>7. Adjust(Cardinality(S), -1) = Cardinality(S \ {i})
    BY <2>4, <2>5, AdjustByOne
  <2>8. Adjust(Cardinality(D), d) = Cardinality(E)
    <3>1. D \in SUBSET Inode /\ D \cup {i} \in SUBSET Inode /\ 0 \notin D \cup {i}
      BY <1>2, <1>3, <1>5
    <3>2. IsFiniteSet(D) /\ Cardinality(D) \in Count  BY <1>5, <3>1, InodesFew
    <3>3. Cardinality(D \cup {i}) \in Count  BY <3>1, InodesFew
    <3>4. Adjust(Cardinality(D), 1) = Cardinality(D \cup {i})
      BY <1>5, <3>2, <3>3, AdjustByOne
    <3>5. Adjust(Cardinality(D), 0) = Cardinality(D)  BY <3>2, CountKept
    <3> QED  BY <3>4, <3>5 DEF E, d
  <2> QED  BY <1>1, <2>1, <2>2, <2>6, <2>7, <2>8 DEF S
<1> QED  BY <1>10, <1>11 DEF E

\* Freeing a used inode gives its group, and the volume, one inode back; a
\* directory less if it was one.
LEMMA FreeInodeKeepsCounts ==
  ASSUME NEW s \in AllocState, NEW D, CountsOK(s, D), TotalsOK(s, D),
         NEW i \in Inode \ ReservedInodes, s.magic[itog(i)] = "valid",
         i \in s.used, NEW t \in AllocState,
         t = [s EXCEPT !.used = @ \ {i},
                       !.nifree[itog(i)] = Adjust(@, 1),
                       !.ndir[itog(i)] = Adjust(@, IF i \in D THEN -1 ELSE 0),
                       !.total.nifree = Adjust(@, 1),
                       !.total.ndir = Adjust(@, IF i \in D THEN -1 ELSE 0)]
  PROVE  CountsOK(t, D \ {i}) /\ TotalsOK(t, D \ {i})
<1> DEFINE c == itog(i)
           d == IF i \in D THEN -1 ELSE 0
<1>1. /\ t.free = s.free /\ t.used = s.used \ {i} /\ t.magic = s.magic
      /\ t.nifree = [s.nifree EXCEPT ![c] = Adjust(@, 1)]
      /\ t.ndir = [s.ndir EXCEPT ![c] = Adjust(@, d)]
      /\ t.nbfree = s.nbfree
      /\ t.total.nifree = Adjust(s.total.nifree, 1)
      /\ t.total.ndir = Adjust(s.total.ndir, d)
      /\ t.total.nbfree = s.total.nbfree
  BY DEF AllocState
<1>2. /\ c \in CG /\ i \in InodesOf[c]
      /\ \A cg \in CG : i \in InodesOf[cg] <=> cg = c
  BY ItogType DEF InodesOf
<1>3. Reserved(c) \subseteq s.used /\ D \subseteq s.used \ ReservedInodes
      /\ s.used \subseteq Inode
  BY <1>2 DEF CountsOK, BitsOK, AllocState
<1>4. 0 \notin D /\ i # 0  BY <1>3 DEF ReservedInodes
<1>5. \A cg \in CG : i \notin Reserved(cg)  BY DEF Reserved
<1> HIDE DEF c, d
<1>6. D \ {i} \subseteq t.used \ ReservedInodes  BY <1>1, <1>3
<1>7. ASSUME NEW cg \in CG
      PROVE  FreeInodes(t, cg) = IF cg = c THEN FreeInodes(s, cg) \cup {i}
                                 ELSE FreeInodes(s, cg)
  BY <1>1, <1>2 DEF FreeInodes
<1>8. ASSUME NEW cg \in CG, s.magic[cg] = "valid"
      PROVE  t.nifree[cg] = Cardinality(FreeInodes(t, cg))
  <2>1. s.nifree[cg] = Cardinality(FreeInodes(s, cg))  BY <1>8 DEF CountsOK, BitsOK
  <2>2. CASE cg # c
    <3>1. t.nifree[cg] = s.nifree[cg]  BY <1>1, <2>2, Headers
    <3> QED  BY <1>7, <2>1, <2>2, <3>1
  <2>3. CASE cg = c
    <3> DEFINE S == FreeInodes(s, c)
    <3>1. S \in SUBSET Inode /\ S \cup {i} \in SUBSET Inode
      BY <1>2 DEF FreeInodes, InodesOf
    <3>2. 0 \notin S /\ 0 \notin S \cup {i} /\ i \notin S
      BY <1>2, <1>3, <1>4, ReservedInGroup DEF FreeInodes, ReservedInodes
    <3> HIDE DEF S
    <3>3. IsFiniteSet(S) /\ Cardinality(S) \in Count  BY <3>1, <3>2, InodesFew
    <3>4. Cardinality(S \cup {i}) \in Count  BY <3>1, <3>2, InodesFew
    <3>5. Adjust(Cardinality(S), 1) = Cardinality(S \cup {i})
      BY <3>2, <3>3, <3>4, AdjustByOne
    <3>6. t.nifree[c] = Adjust(s.nifree[c], 1)  BY <1>1, <1>2, Headers
    <3> QED  BY <1>7, <2>1, <2>3, <3>5, <3>6 DEF S
  <2> QED  BY <2>2, <2>3
<1>9. ASSUME NEW cg \in CG, s.magic[cg] = "valid"
      PROVE  t.ndir[cg] = Cardinality((D \ {i}) \cap InodesOf[cg])
  <2> DEFINE S == D \cap InodesOf[cg]
  <2>1. s.ndir[cg] = Cardinality(S)  BY <1>9 DEF CountsOK, BitsOK
  <2>2. S \in SUBSET Inode /\ 0 \notin S  BY <1>3, <1>4
  <2>3. IsFiniteSet(S) /\ Cardinality(S) \in Count  BY <2>2, InodesFew
  <2>4. CASE cg # c
    <3>1. (D \ {i}) \cap InodesOf[cg] = S  BY <1>2, <2>4
    <3>2. t.ndir[cg] = s.ndir[cg]  BY <1>1, <2>4, Headers
    <3> QED  BY <2>1, <3>1, <3>2
  <2>5. CASE cg = c
    <3>1. t.ndir[c] = Adjust(s.ndir[c], d)  BY <1>1, <1>2, Headers
    <3>2. (D \ {i}) \cap InodesOf[cg] = S \ {i}  OBVIOUS
    <3>3. CASE i \in D
      <4>1. i \in S  BY <1>2, <2>5, <3>3
      <4> HIDE DEF S
      <4>2. Adjust(Cardinality(S), -1) = Cardinality(S \ {i})
        BY <2>3, <4>1, AdjustByOne
      <4> QED  BY <2>1, <2>5, <3>1, <3>2, <3>3, <4>2 DEF d
    <3>4. CASE i \notin D
      <4>1. S \ {i} = S  BY <3>4
      <4>2. Adjust(Cardinality(S), 0) = Cardinality(S)  BY <2>3, CountKept
      <4> QED  BY <2>1, <2>5, <3>1, <3>2, <3>4, <4>1, <4>2 DEF d
    <3> QED  BY <3>3, <3>4
  <2> QED  BY <2>4, <2>5
<1>10. CountsOK(t, D \ {i})
  <2>1. \A cg \in CG : FreeBlocks(t, cg) = FreeBlocks(s, cg)
    BY <1>1 DEF FreeBlocks, BlockFree
  <2>2. \A cg \in CG : s.magic[cg] = "valid" => Reserved(cg) \subseteq t.used
    BY <1>1, <1>5 DEF CountsOK, BitsOK
  <2>3. \A cg \in CG : s.magic[cg] # "valid" => t.used \cap InodesOf[cg] = {}
    BY <1>1 DEF CountsOK, BitsOK
  <2> QED  BY <1>1, <1>6, <1>8, <1>9, <2>1, <2>2, <2>3 DEF CountsOK, BitsOK
<1>11. TotalsOK(t, D \ {i})
  <2> SUFFICES ASSUME \A cg \in CG : t.magic[cg] # "bad"
               PROVE  /\ t.total.nbfree = Cardinality(SettledBlocks(t))
                      /\ t.total.nifree = Cardinality(SettledInodes(t))
                      /\ t.total.ndir = Cardinality(D \ {i})
    BY DEF TotalsOK
  <2>1. /\ s.total.nbfree = Cardinality(SettledBlocks(s))
        /\ s.total.nifree = Cardinality(SettledInodes(s))
        /\ s.total.ndir = Cardinality(D)
    BY <1>1 DEF TotalsOK
  <2>2. SettledBlocks(t) = SettledBlocks(s)
    <3>1. SettledBlocks(t) \subseteq Block /\ SettledBlocks(s) \subseteq Block
      BY DEF SettledBlocks
    <3>2. \A b \in Block : b \in SettledBlocks(t) <=> b \in SettledBlocks(s)
      BY <1>1, SettledIs
    <3> QED  BY <3>1, <3>2
  <2> DEFINE S == SettledInodes(s)
  <2>3. S \subseteq Inode /\ SettledInodes(t) \subseteq Inode
    BY DEF SettledInodes
  <2>4. 0 \notin S /\ i \notin S
    <3>1. 0 \notin S  BY <1>1, ZeroNeverFree
    <3>2. i \notin S  BY SettledIs
    <3> QED  BY <3>1, <3>2
  <2>5. IsFiniteSet(S) /\ Cardinality(S) \in Count  BY <2>3, <2>4, InodesFew
  <2>6. SettledInodes(t) = S \cup {i}
    <3>1. \A j \in Inode : j \in SettledInodes(t) <=> j \in S \/ j = i
      BY <1>1, <1>2, <1>5, SettledIs
    <3> HIDE DEF S
    <3> QED  BY <2>3, <3>1
  <2> HIDE DEF S
  <2>7. Adjust(Cardinality(S), 1) = Cardinality(S \cup {i})
    <3>1. S \cup {i} \in SUBSET Inode /\ 0 \notin S \cup {i}
      BY <1>4, <2>3, <2>4
    <3>2. Cardinality(S \cup {i}) \in Count  BY <3>1, InodesFew
    <3> QED  BY <2>4, <2>5, <3>2, AdjustByOne
  <2>8. Adjust(Cardinality(D), d) = Cardinality(D \ {i})
    <3>1. D \in SUBSET Inode  BY <1>3
    <3>2. IsFiniteSet(D) /\ Cardinality(D) \in Count  BY <1>4, <3>1, InodesFew
    <3>3. i \in D => Adjust(Cardinality(D), -1) = Cardinality(D \ {i})
      BY <3>2, AdjustByOne
    <3>4. i \notin D => D \ {i} = D  OBVIOUS
    <3>5. Adjust(Cardinality(D), 0) = Cardinality(D)  BY <3>2, CountKept
    <3> QED  BY <3>3, <3>4, <3>5 DEF d
  <2> QED  BY <1>1, <2>1, <2>2, <2>6, <2>7, <2>8 DEF S
<1> QED  BY <1>10, <1>11

----------------------------------------------------------------------------
(* The primitives, with every field they change.                           *)

\* A state with the first n fragments of block b of group c marked.
RunTaken(s, c, b, n) ==
  [s EXCEPT !.free = @ \ Run(b, n),
            !.nbfree[c] = Adjust(@, -1),
            !.total.nbfree = Adjust(@, -1)]

\* A state with inode i of group c marked.
InodeTaken(s, c, i, directory) ==
  [s EXCEPT !.used = @ \cup {i},
            !.irotor[c] = LocalInode(i),
            !.nifree[c] = Adjust(@, -1),
            !.ndir[c] = Adjust(@, IF directory THEN 1 ELSE 0),
            !.total.nifree = Adjust(@, -1),
            !.total.ndir = Adjust(@, IF directory THEN 1 ELSE 0)]

\* allocate_block and allocate_fragments.
LEMMA TakeRunRecord ==
  ASSUME NEW s \in AllocState, NEW ino \in Inode, NEW n \in 1 .. Frag
  PROVE  LET r == TakeRun(s, ino, n)
         IN  /\ \E V \in SUBSET CG :
                  LET u == read_allocatable_cgs(s, V)
                  IN  /\ ~r.ok => r.a = u
                      /\ r.ok => \E c \in CG :
                           /\ u.magic[c] = "valid" /\ r.blk \in FreeBlocks(u, c)
                           /\ r.a = RunTaken(u, c, r.blk, n)
             /\ r.ok <=> \E cg \in CG : BlockRoom(read_allocatable_cgs(s, CG), cg)
<1> DEFINE r == TakeRun(s, ino, n)
           f == Search(s, itog(ino), BlockRoom)
           u == f.a
           c == f.cg
           b == Min(FreeBlocks(u, c))
           t == [u EXCEPT !.free = @ \ Run(b, n),
                          !.nbfree[c] = Adjust(@, -1),
                          !.total.nbfree = Adjust(@, -1)]
<1>1. /\ c \in CG
      /\ f.found => u.magic[c] = "valid" /\ FreeBlocks(u, c) # {}
      /\ \E V \in SUBSET CG : u = read_allocatable_cgs(s, V)
      /\ f.found <=> \E cg \in CG : BlockRoom(read_allocatable_cgs(s, CG), cg)
  BY ItogType, SearchBlocks
<1>2. PICK V \in SUBSET CG : u = read_allocatable_cgs(s, V)  BY <1>1
<1>3. r = IF ~f.found THEN [ok |-> FALSE, blk |-> NoBlock, a |-> u]
          ELSE [ok |-> TRUE, blk |-> b, a |-> t]
  BY DEF TakeRun
<1> HIDE DEF r, f, u, c
<1>4. CASE ~f.found
  <2>1. r.a = u /\ r.ok = FALSE  BY <1>3, <1>4
  <2> QED  BY <1>1, <1>2, <1>4, <2>1, Zenon DEF r
<1>5. CASE f.found
  <2>1. FreeBlocks(u, c) \subseteq Nat
    BY <1>1, BlockInGroup DEF FreeBlocks
  <2>2. b \in FreeBlocks(u, c)  BY <1>1, <1>5, <2>1, MinInSet
  <2> HIDE DEF b, t
  <2>3. r.a = t /\ r.blk = b /\ r.ok = TRUE  BY <1>3, <1>5
  <2>4. r.a = RunTaken(u, c, r.blk, n)  BY <2>3 DEF t, RunTaken
  <2> QED  BY <1>1, <1>2, <1>5, <2>2, <2>3, <2>4, Zenon DEF r
<1> QED  BY <1>4, <1>5

\* allocate_inode.
LEMMA AllocateInodeRecord ==
  ASSUME NEW s \in AllocState, NEW pref \in Inode \cup {NoInode},
         NEW directory \in BOOLEAN
  PROVE  LET r == allocate_inode(s, pref, directory)
         IN  /\ \E V \in SUBSET CG :
                  LET u == read_allocatable_cgs(s, V)
                  IN  /\ ~r.ok => r.a = u
                      /\ r.ok => \E c \in CG :
                           /\ u.magic[c] = "valid" /\ r.ino \in FreeInodes(u, c)
                           /\ r.a = InodeTaken(u, c, r.ino, directory)
             /\ r.ok <=> \E cg \in CG : InodeRoom(read_allocatable_cgs(s, CG), cg)
<1> DEFINE r == allocate_inode(s, pref, directory)
           start == IF pref = NoInode THEN 0 ELSE itog(pref)
           f == Search(s, start, InodeRoom)
           u == f.a
           c == f.cg
           i == ChooseInode(f.a, f.cg, start, pref)
           d == IF directory THEN 1 ELSE 0
           t == [u EXCEPT !.used = @ \cup {i},
                          !.irotor[c] = LocalInode(i),
                          !.nifree[c] = Adjust(@, -1),
                          !.ndir[c] = Adjust(@, d),
                          !.total.nifree = Adjust(@, -1),
                          !.total.ndir = Adjust(@, d)]
<1>1. start \in CG
  BY ItogType, FirstBlock DEF NoInode, Inode
<1> HIDE DEF start
<1>2. /\ c \in CG
      /\ f.found => u.magic[c] = "valid" /\ FreeInodes(u, c) # {}
      /\ \E V \in SUBSET CG : u = read_allocatable_cgs(s, V)
      /\ f.found <=> \E cg \in CG : InodeRoom(read_allocatable_cgs(s, CG), cg)
  BY <1>1, SearchInodes
<1>3. PICK V \in SUBSET CG : u = read_allocatable_cgs(s, V)  BY <1>2
<1>4. u \in AllocState
  <2>1. read_allocatable_cgs(s, V) \in AllocState  BY ReadAllocatable
  <2> QED  BY <1>3, <2>1
<1>5. r = IF ~f.found THEN [ok |-> FALSE, ino |-> NoInode, a |-> u]
          ELSE [ok |-> TRUE, ino |-> i, a |-> t]
  BY DEF allocate_inode, start
<1> HIDE DEF r, f
<1>6. CASE ~f.found
  <2>1. r.a = u /\ r.ok = FALSE  BY <1>5, <1>6
  <2> QED  BY <1>2, <1>3, <1>6, <2>1, Zenon DEF r
<1>7. CASE f.found
  <2>1. i \in FreeInodes(u, c)  BY <1>2, <1>4, <1>7, ChooseInodeFree
  <2>2. r.a = t /\ r.ino = i /\ r.ok = TRUE
    <3> HIDE DEF u, i, t
    <3> QED  BY <1>5, <1>7
  <2> HIDE DEF u, c, i
  <2>3. r.a = InodeTaken(u, c, r.ino, directory)
    BY <2>2 DEF InodeTaken
  <2> HIDE DEF t
  <2> QED  BY <1>2, <1>3, <1>7, <2>1, <2>2, <2>3, Zenon DEF r
<1> QED  BY <1>6, <1>7

\* free_block and the fragment branch of free_allocation, when everything
\* that is in use of the block is released: the block is whole again.
LEMMA FreeAllocationRecord ==
  ASSUME NEW s \in AllocState, NEW b \in Block, NEW n \in 1 .. Frag,
         s.magic[dtog(b)] = "valid", Run(b, Frag) \ s.free = Run(b, n)
  PROVE  free_allocation(s, b, n) =
           [ok |-> TRUE, a |-> [s EXCEPT !.free = @ \cup Run(b, n),
                                         !.nbfree[dtog(b)] = Adjust(@, 1),
                                         !.total.nbfree = Adjust(@, 1)]]
<1> DEFINE c == dtog(b)
           t == [s EXCEPT !.free = @ \cup Run(b, n)]
<1>1. ~(n <= 0)  BY GeometryAssumption
<1>2. CASE n = Frag  BY <1>1, <1>2 DEF free_allocation, free_block
<1>3. CASE n # Frag
  <2>1. free_allocation(s, b, n) = free_fragments(s, b, n)
    BY <1>1, <1>3 DEF free_allocation
  <2>2. BlockBase(b) = b
    <3>1. c \in CG /\ b \in DataBlocks[c] /\ b \in Nat  BY BlockGroup
    <3>2. (b - cgbase(c)) % Frag = 0  BY <3>1 DEF DataBlocks
    <3>3. b - 0 = b  BY <3>1
    <3> QED  BY <3>2, <3>3 DEF BlockBase
  <2>3. BlockFree(t, b)
    <3>1. t.free = s.free \cup Run(b, n)  BY DEF AllocState
    <3> HIDE DEF t
    <3> QED  BY <3>1 DEF BlockFree
  <2>4. free_fragments(s, b, n) =
          IF s.magic[c] # "valid" THEN [ok |-> FALSE, a |-> s]
          ELSE [ok |-> TRUE,
                a  |-> IF BlockFree(t, BlockBase(b))
                         THEN [t EXCEPT !.nbfree[c] = Adjust(@, 1),
                                        !.total.nbfree = Adjust(@, 1)]
                         ELSE t]
    BY Zenon DEF free_fragments
  <2>5. free_fragments(s, b, n) =
          [ok |-> TRUE, a |-> [t EXCEPT !.nbfree[c] = Adjust(@, 1),
                                        !.total.nbfree = Adjust(@, 1)]]
    BY <2>2, <2>3, <2>4, Zenon
  <2>6. [t EXCEPT !.nbfree[c] = Adjust(@, 1), !.total.nbfree = Adjust(@, 1)] =
        [s EXCEPT !.free = @ \cup Run(b, n),
                  !.nbfree[c] = Adjust(@, 1), !.total.nbfree = Adjust(@, 1)]
    BY DEF AllocState
  <2> QED  BY <2>1, <2>5, <2>6
<1> QED  BY <1>2, <1>3

\* recompute_summary_counts, with every count it writes.
LEMMA RecomputeRecord ==
  ASSUME NEW s \in AllocState, NEW D \in SUBSET Inode
  PROVE  LET r == recompute_summary_counts(s, D)
         IN  \E done \in SUBSET CG :
               LET u == read_allocatable_cgs(s, done)
               IN  /\ r.a.free = u.free /\ r.a.used = u.used /\ r.a.magic = u.magic
                   /\ \A cg \in CG :
                        IF cg \in done
                          THEN /\ r.a.nbfree[cg] = Cardinality(FreeBlocks(u, cg)) % CountMod
                               /\ r.a.nifree[cg] = CountInodes(u, cg) % CountMod
                               /\ r.a.ndir[cg] = CountDirs(u, cg, D) % CountMod
                          ELSE /\ r.a.nbfree[cg] = u.nbfree[cg]
                               /\ r.a.nifree[cg] = u.nifree[cg]
                               /\ r.a.ndir[cg] = u.ndir[cg]
                   /\ (\A cg \in CG : s.magic[cg] # "bad") =>
                        done = CG /\ r.a.total = SumOfCounts(u, D)
<1> DEFINE bad  == {cg \in CG : s.magic[cg] = "bad"}
           done == IF bad = {} THEN CG ELSE 0 .. Min(bad) - 1
           u    == read_allocatable_cgs(s, done)
           nb   == [cg \in CG |-> IF cg \in done
                      THEN Cardinality(FreeBlocks(u, cg)) % CountMod ELSE u.nbfree[cg]]
           ni   == [cg \in CG |-> IF cg \in done
                      THEN CountInodes(u, cg) % CountMod ELSE u.nifree[cg]]
           nf   == [cg \in CG |-> IF cg \in done
                      THEN Cardinality(LooseFrags(u, cg)) % CountMod ELSE u.nffree[cg]]
           nd   == [cg \in CG |-> IF cg \in done
                      THEN CountDirs(u, cg, D) % CountMod ELSE u.ndir[cg]]
           t    == [u EXCEPT !.nbfree = nb, !.nifree = ni,
                             !.nffree = nf, !.ndir = nd]
           w    == [t EXCEPT !.total = SumOfCounts(u, D)]
           r    == recompute_summary_counts(s, D)
<1>1. done \in SUBSET CG
  <2>1. CASE bad = {}  BY <2>1
  <2>2. CASE bad # {}
    <3>1. bad \subseteq Nat  BY DEF CG
    <3> HIDE DEF bad
    <3>2. Min(bad) \in bad  BY <2>2, <3>1, MinInSet
    <3>3. Min(bad) \in CG  BY <3>2 DEF bad
    <3> HIDE DEF CG
    <3>4. 0 .. Min(bad) - 1 \subseteq CG  BY <3>3, GeometryAssumption DEF CG
    <3> QED  BY <2>2, <3>4
  <2> QED  BY <2>1, <2>2
<1>2. u \in AllocState  BY <1>1, ReadAllocatable
<1>3. (\A cg \in CG : s.magic[cg] # "bad") => done = CG  OBVIOUS
<1>4. r = IF done # CG THEN [ok |-> FALSE, a |-> t] ELSE [ok |-> TRUE, a |-> w]
  BY Zenon DEF recompute_summary_counts, Recount
<1> HIDE DEF done, u, r, nb, ni, nf, nd
<1>5. /\ t.free = u.free /\ t.used = u.used /\ t.magic = u.magic
      /\ t.nbfree = nb /\ t.nifree = ni /\ t.ndir = nd
      /\ w.free = u.free /\ w.used = u.used /\ w.magic = u.magic
      /\ w.nbfree = nb /\ w.nifree = ni /\ w.ndir = nd
      /\ w.total = SumOfCounts(u, D)
  BY <1>2 DEF AllocState
<1> HIDE DEF t, w
<1>6. r.a = t \/ r.a = w  BY <1>4
<1>7. done = CG => r.a = w  BY <1>4
<1>8. /\ r.a.free = u.free /\ r.a.used = u.used /\ r.a.magic = u.magic
      /\ r.a.nbfree = nb /\ r.a.nifree = ni /\ r.a.ndir = nd
      /\ done = CG => r.a.total = SumOfCounts(u, D)
  BY <1>5, <1>6, <1>7
<1>9. \A cg \in CG :
        IF cg \in done
          THEN /\ r.a.nbfree[cg] = Cardinality(FreeBlocks(u, cg)) % CountMod
               /\ r.a.nifree[cg] = CountInodes(u, cg) % CountMod
               /\ r.a.ndir[cg] = CountDirs(u, cg, D) % CountMod
          ELSE /\ r.a.nbfree[cg] = u.nbfree[cg]
               /\ r.a.nifree[cg] = u.nifree[cg]
               /\ r.a.ndir[cg] = u.ndir[cg]
  BY <1>8 DEF nb, ni, nd
<1> QED  BY <1>1, <1>3, <1>8, <1>9, Zenon DEF u, r

\* expected_cg_header counts what the incremental counters hold.
LEMMA RecountIsExact ==
  ASSUME NEW s \in AllocState, NEW D, BitsOK(s, D), NEW cg \in CG,
         s.magic[cg] = "valid"
  PROVE  /\ Cardinality(FreeBlocks(s, cg)) \in Count
         /\ CountInodes(s, cg) = Cardinality(FreeInodes(s, cg))
         /\ Cardinality(FreeInodes(s, cg)) \in Count
         /\ CountDirs(s, cg, D) = Cardinality(D \cap InodesOf[cg])
         /\ Cardinality(D \cap InodesOf[cg]) \in Count
<1>1. /\ D \subseteq s.used \ ReservedInodes /\ Reserved(cg) \subseteq s.used
      /\ s.used \subseteq Inode
  BY DEF BitsOK, AllocState
<1>2. /\ Cardinality(FreeBlocks(s, cg)) \in Count
      /\ Cardinality(FreeInodes(s, cg)) \in Count
      /\ Cardinality(D \cap InodesOf[cg]) \in Count
  <2>1. FreeBlocks(s, cg) \in SUBSET AllDataFrags
    BY DEF FreeBlocks, DataBlocks, AllDataFrags
  <2>2. FreeInodes(s, cg) \in SUBSET Inode  BY DEF FreeInodes, InodesOf
  <2>3. 0 \notin FreeInodes(s, cg)
    BY <1>1, ReservedInGroup DEF FreeInodes, ReservedInodes
  <2>4. D \cap InodesOf[cg] \in SUBSET Inode /\ 0 \notin D \cap InodesOf[cg]
    BY <1>1 DEF ReservedInodes
  <2> QED  BY <2>1, <2>2, <2>3, <2>4, FragsFew, InodesFew
<1>3. CountDirs(s, cg, D) = Cardinality(D \cap InodesOf[cg])
  <2>1. (s.used \cap InodesOf[cg] \cap D) \ Reserved(cg) = D \cap InodesOf[cg]
    BY <1>1 DEF Reserved
  <2> QED  BY <2>1 DEF CountDirs
<1>4. CountInodes(s, cg) = Cardinality(FreeInodes(s, cg))
  <2> DEFINE A == InodesOf[cg]
             U == s.used \cap InodesOf[cg]
             R == Reserved(cg)
  <2>1. IsFiniteSet(A) /\ Cardinality(A) = IPG  BY InodesOfGroup
  <2>2. U \in SUBSET A /\ A \cap U = U /\ U \cap R = R
    BY <1>1, ReservedInGroup
  <2>3. FreeInodes(s, cg) = A \ U  BY DEF FreeInodes
  <2>4. CountInodes(s, cg) = IPG - Cardinality(R) - Cardinality(U \ R)
    BY DEF CountInodes
  <2> HIDE DEF A, U, R
  <2>5. IsFiniteSet(U)  BY <2>1, <2>2, FS_Subset
  <2>6. IsFiniteSet(R)
    <3>1. R \in SUBSET A  BY ReservedInGroup DEF A, R
    <3> QED  BY <2>1, <3>1, FS_Subset
  <2>7. Cardinality(A \ U) = Cardinality(A) - Cardinality(U)
    BY <2>1, <2>2, FS_Difference
  <2>8. Cardinality(U \ R) = Cardinality(U) - Cardinality(R)
    BY <2>2, <2>5, FS_Difference
  <2>9. Cardinality(U) \in Nat /\ Cardinality(R) \in Nat
    BY <2>5, <2>6, FS_CardinalityType
  <2> QED  BY <2>1, <2>3, <2>4, <2>7, <2>8, <2>9, GeometryAssumption
<1> QED  BY <1>1, <1>2, <1>3, <1>4

\* A recount leaves every count of a laid-out group, and the totals, exact.
\* Without a damaged group it recounts them all, whatever they were.
LEMMA RecomputeKeepsCounts ==
  ASSUME NEW s \in AllocState, NEW D, BitsOK(s, D),
         CountsOK(s, D) \/ \A cg \in CG : s.magic[cg] # "bad"
  PROVE  LET r == recompute_summary_counts(s, D)
         IN  CountsOK(r.a, D) /\ TotalsOK(r.a, D)
<1> DEFINE t == recompute_summary_counts(s, D).a
<1>1. D \in SUBSET Inode  BY DEF BitsOK, AllocState
<1>2. t \in AllocState  BY <1>1, RecomputeFacts
<1>3. PICK done \in SUBSET CG :
        LET u == read_allocatable_cgs(s, done)
        IN  /\ t.free = u.free /\ t.used = u.used /\ t.magic = u.magic
            /\ \A cg \in CG :
                 IF cg \in done
                   THEN /\ t.nbfree[cg] = Cardinality(FreeBlocks(u, cg)) % CountMod
                        /\ t.nifree[cg] = CountInodes(u, cg) % CountMod
                        /\ t.ndir[cg] = CountDirs(u, cg, D) % CountMod
                   ELSE /\ t.nbfree[cg] = u.nbfree[cg]
                        /\ t.nifree[cg] = u.nifree[cg]
                        /\ t.ndir[cg] = u.ndir[cg]
            /\ (\A cg \in CG : s.magic[cg] # "bad") =>
                 done = CG /\ t.total = SumOfCounts(u, D)
  BY <1>1, RecomputeRecord
<1> DEFINE u == read_allocatable_cgs(s, done)
<1>4. /\ u \in AllocState
      /\ u.magic = [cg \in CG |-> IF cg \in {c \in done : s.magic[c] = "pristine"}
                                 THEN "valid" ELSE s.magic[cg]]
  BY ReadAllocatable
<1>5. BitsOK(u, D) /\ (CountsOK(s, D) => CountsOK(u, D))
  BY LayoutKeepsBits, LayoutKeepsCounts
<1> HIDE DEF t, u
<1>6. \A cg \in CG : FreeBlocks(t, cg) = FreeBlocks(u, cg)
  BY <1>3 DEF FreeBlocks, BlockFree, u
<1>7. \A cg \in CG : FreeInodes(t, cg) = FreeInodes(u, cg)
  BY <1>3 DEF FreeInodes, u
<1>8. ASSUME NEW cg \in CG, u.magic[cg] = "valid"
      PROVE  /\ t.nbfree[cg] = Cardinality(FreeBlocks(u, cg))
             /\ t.nifree[cg] = Cardinality(FreeInodes(u, cg))
             /\ t.ndir[cg] = Cardinality(D \cap InodesOf[cg])
  <2>1. /\ Cardinality(FreeBlocks(u, cg)) \in Count
        /\ CountInodes(u, cg) = Cardinality(FreeInodes(u, cg))
        /\ Cardinality(FreeInodes(u, cg)) \in Count
        /\ CountDirs(u, cg, D) = Cardinality(D \cap InodesOf[cg])
        /\ Cardinality(D \cap InodesOf[cg]) \in Count
    BY <1>4, <1>5, <1>8, RecountIsExact
  <2>2. CASE cg \in done
    <3>1. /\ t.nbfree[cg] = Cardinality(FreeBlocks(u, cg)) % CountMod
          /\ t.nifree[cg] = CountInodes(u, cg) % CountMod
          /\ t.ndir[cg] = CountDirs(u, cg, D) % CountMod
      BY <1>3, <2>2, Zenon DEF u
    <3> QED  BY <2>1, <3>1, CountKept
  <2>3. CASE cg \notin done
    <3>1. /\ t.nbfree[cg] = u.nbfree[cg] /\ t.nifree[cg] = u.nifree[cg]
          /\ t.ndir[cg] = u.ndir[cg]
      BY <1>3, <2>3, Zenon DEF u
    <3>2. CountsOK(u, D)  BY <1>3, <1>5, <2>3 DEF u
    <3> QED  BY <1>8, <3>1, <3>2 DEF CountsOK
  <2> QED  BY <2>2, <2>3
<1>9. t.used = u.used /\ t.magic = u.magic /\ t.free = u.free  BY <1>3 DEF u
<1>10. CountsOK(t, D)  BY <1>5, <1>6, <1>7, <1>8, <1>9 DEF CountsOK, BitsOK
<1>11. TotalsOK(t, D)
  <2> SUFFICES ASSUME \A cg \in CG : t.magic[cg] # "bad"
               PROVE  /\ t.total.nbfree = Cardinality(SettledBlocks(t))
                      /\ t.total.nifree = Cardinality(SettledInodes(t))
                      /\ t.total.ndir = Cardinality(D)
    BY DEF TotalsOK
  <2>1. \A cg \in CG : s.magic[cg] # "bad"  BY <1>4, <1>9
  <2>2. done = CG /\ t.total = SumOfCounts(u, D)  BY <1>3, <2>1 DEF u
  <2>3. \A cg \in CG : t.magic[cg] = "valid"
    <3>1. \A cg \in CG : s.magic[cg] \in {"valid", "pristine", "bad"}
      BY DEF AllocState, Magic
    <3> QED  BY <1>4, <1>9, <2>1, <2>2, <3>1
  <2>4. UNION {FreeBlocks(u, cg) : cg \in CG} = SettledBlocks(t)
    <3>1. \A b \in Block : b \in SettledBlocks(t) <=> Run(b, Frag) \subseteq u.free
      <4> SUFFICES ASSUME NEW b \in Block
                   PROVE  b \in SettledBlocks(t) <=> Run(b, Frag) \subseteq u.free
        OBVIOUS
      <4>1. dtog(b) \in CG  BY BlockGroup
      <4> QED  BY <1>2, <1>9, <2>3, <4>1, SettledIs
    <3>2. SettledBlocks(t) \subseteq Block  BY DEF SettledBlocks
    <3> QED  BY <3>1, <3>2 DEF FreeBlocks, BlockFree, Block
  <2>5. ReservedInodes \subseteq u.used
    <3>1. 0 \in CG  BY FirstBlock
    <3>2. Reserved(0) \subseteq u.used  BY <1>5, <1>9, <2>3, <3>1 DEF CountsOK, BitsOK
    <3> QED  BY <3>2 DEF Reserved
  <2>6. Inode \ (u.used \cup ReservedInodes) = SettledInodes(t)
    <3>1. \A i \in Inode : i \in SettledInodes(t) <=> i \notin u.used
      <4> SUFFICES ASSUME NEW i \in Inode
                   PROVE  i \in SettledInodes(t) <=> i \notin u.used
        OBVIOUS
      <4>1. itog(i) \in CG  BY ItogType
      <4> QED  BY <1>2, <1>9, <2>3, <4>1, SettledIs
    <3>2. SettledInodes(t) \subseteq Inode  BY DEF SettledInodes
    <3> QED  BY <2>5, <3>1, <3>2
  <2>7. (u.used \cap D) \ ReservedInodes = D  BY <1>5 DEF CountsOK, BitsOK
  <2>8. /\ Cardinality(SettledBlocks(t)) \in Count
        /\ Cardinality(SettledInodes(t)) \in Count
        /\ Cardinality(D) \in Count
    <3>1. SettledBlocks(t) \in SUBSET AllDataFrags
      BY DEF SettledBlocks, Block, DataBlocks, AllDataFrags
    <3>2. SettledInodes(t) \in SUBSET Inode  BY DEF SettledInodes
    <3>3. 0 \notin SettledInodes(t)  BY <1>2, <1>10, <2>3, ZeroNeverFree
    <3>4. 0 \notin D  BY <2>7 DEF ReservedInodes
    <3> QED  BY <1>1, <3>1, <3>2, <3>3, <3>4, FragsFew, InodesFew
  <2>9. /\ t.total.nbfree = Cardinality(SettledBlocks(t)) % CountMod
        /\ t.total.nifree = Cardinality(SettledInodes(t)) % CountMod
        /\ t.total.ndir = Cardinality(D) % CountMod
    <3>1. /\ t.total.nbfree =
               Cardinality(UNION {FreeBlocks(u, cg) : cg \in CG}) % CountMod
          /\ t.total.nifree =
               Cardinality(Inode \ (u.used \cup ReservedInodes)) % CountMod
          /\ t.total.ndir = Cardinality((u.used \cap D) \ ReservedInodes) % CountMod
      <4> DEFINE x1 == Cardinality(UNION {FreeBlocks(u, cg) : cg \in CG}) % CountMod
                 x2 == Cardinality(Inode \ (u.used \cup ReservedInodes)) % CountMod
                 x3 == Cardinality(UNION {LooseFrags(u, cg) : cg \in CG}) % CountMod
                 x4 == Cardinality((u.used \cap D) \ ReservedInodes) % CountMod
      <4>1. t.total = SumOfCounts(u, D)  BY <2>2
      <4>2. t.total = [nbfree |-> x1, nifree |-> x2, nffree |-> x3, ndir |-> x4]
        BY <4>1, Zenon DEF SumOfCounts
      <4> HIDE DEF x1, x2, x3, x4
      <4>3. t.total.nbfree = x1 /\ t.total.nifree = x2 /\ t.total.ndir = x4
        BY <4>2
      <4> QED  BY <4>3 DEF x1, x2, x4
    <3> QED  BY <2>4, <2>6, <2>7, <3>1, Zenon
  <2> QED  BY <2>8, <2>9, CountKept
<1> QED  BY <1>10, <1>11 DEF t

----------------------------------------------------------------------------
(* A formatted volume.                                                     *)

\* Where every group is laid out, taking a run marks no inode.
LEMMA TakeRunKeepsInodes ==
  ASSUME NEW s \in AllocState, NEW ino \in Inode, NEW n \in 1 .. Frag,
         \A cg \in CG : s.magic[cg] = "valid"
  PROVE  TakeRun(s, ino, n).a.used = s.used
<1> DEFINE r == TakeRun(s, ino, n)
<1>1. PICK V \in SUBSET CG :
        LET u == read_allocatable_cgs(s, V)
        IN  /\ ~r.ok => r.a = u
            /\ r.ok => \E c \in CG :
                 /\ u.magic[c] = "valid" /\ r.blk \in FreeBlocks(u, c)
                 /\ r.a = RunTaken(u, c, r.blk, n)
  BY TakeRunRecord
<1>2. read_allocatable_cgs(s, V) = s  BY DEF read_allocatable_cgs
<1> HIDE DEF r
<1>3. r.a = s \/ \E c \in CG : r.a = RunTaken(s, c, r.blk, n)  BY <1>1, <1>2
<1>4. r.a.used = s.used  BY <1>3 DEF AllocState, RunTaken
<1> QED  BY <1>4 DEF r

\* The recount that ends format leaves every count exact.
LEMMA FormattedCounts ==
  /\ CountsOK(FormattedAlloc, {RootInode}) /\ TotalsOK(FormattedAlloc, {RootInode})
  /\ FormattedAlloc.used = ReservedInodes \cup {RootInode}
  /\ FormattedAlloc.magic = [cg \in CG |-> "valid"]
<1> DEFINE laid   == initialize_pristine_cgs(BlankAlloc, CG)
           marked == [laid EXCEPT !.used = @ \cup {RootInode}]
           taken  == allocate_allocation(marked, RootInode, 1)
           rooted == taken.a
           r      == recompute_summary_counts(rooted, {RootInode})
           U      == ReservedInodes \cup {RootInode}
<1>1. BlankAlloc \in AllocState
  <2>1. 0 \in Count /\ 0 \in 0 .. IPG - 1
    BY CountModAssumption, GeometryAssumption DEF Count
  <2> QED  BY <2>1 DEF BlankAlloc, AllocState, Magic
<1>2. /\ laid \in AllocState /\ laid.free = AllDataFrags
      /\ laid.magic = [cg \in CG |-> "valid"] /\ laid.used = ReservedInodes
  <2>1. CG \in SUBSET CG  OBVIOUS
  <2>2. BlankAlloc.free = {} /\ BlankAlloc.used = {}  BY DEF BlankAlloc
  <2>3. /\ laid \in AllocState
        /\ laid.free = BlankAlloc.free \cup UNION {DataFrags[cg] : cg \in CG}
        /\ laid.magic = [cg \in CG |-> IF cg \in CG THEN "valid"
                                       ELSE BlankAlloc.magic[cg]]
        /\ laid.used = BlankAlloc.used \cup UNION {Reserved(cg) : cg \in CG}
    BY <1>1, <2>1, InitializePristine
  <2> HIDE DEF laid
  <2>4. UNION {Reserved(cg) : cg \in CG} = ReservedInodes
    BY FirstBlock DEF Reserved
  <2> QED  BY <2>2, <2>3, <2>4 DEF AllDataFrags
<1>3. RootInode \in Inode /\ RootInode \notin ReservedInodes
  <2>1. NCG * IPG >= IPG /\ NCG * IPG \in Nat  BY GeometryAssumption
  <2> QED  BY <2>1, GeometryAssumption DEF Inode, RootInode, ReservedInodes
<1> HIDE DEF laid
<1>4. /\ marked \in AllocState /\ marked.free = AllDataFrags
      /\ marked.magic = [cg \in CG |-> "valid"] /\ marked.used = U
  BY <1>2, <1>3 DEF AllocState
<1> HIDE DEF marked
<1>5. rooted \in AllocState /\ rooted.magic = [cg \in CG |-> "valid"]
  BY <1>4, RootFragment
<1>6. rooted.used = U
  <2>1. 1 \in 1 .. Frag  BY GeometryAssumption
  <2>2. taken = TakeRun(marked, RootInode, 1)
    BY GeometryAssumption DEF allocate_allocation
  <2>3. \A cg \in CG : marked.magic[cg] = "valid"  BY <1>4
  <2>4. TakeRun(marked, RootInode, 1).a.used = marked.used
    BY <1>3, <1>4, <2>1, <2>3, TakeRunKeepsInodes
  <2> QED  BY <1>4, <2>2, <2>4
<1> HIDE DEF taken
<1>7. BitsOK(rooted, {RootInode})
  <2>1. \A cg \in CG : Reserved(cg) \subseteq ReservedInodes  BY DEF Reserved
  <2>2. \A cg \in CG : rooted.magic[cg] = "valid"  BY <1>5
  <2> QED  BY <1>3, <1>6, <2>1, <2>2 DEF BitsOK
<1>8. \A cg \in CG : rooted.magic[cg] # "bad"  BY <1>5
<1>9. {RootInode} \in SUBSET Inode  BY <1>3
<1> HIDE DEF rooted
<1>10. CountsOK(r.a, {RootInode}) /\ TotalsOK(r.a, {RootInode})
  BY <1>5, <1>7, <1>8, RecomputeKeepsCounts
<1>11. \A C \in SUBSET CG : read_allocatable_cgs(rooted, C) = rooted
  BY <1>5 DEF read_allocatable_cgs
<1>12. r.a.used = rooted.used /\ r.a.magic = rooted.magic
  <2>1. \E V \in SUBSET CG : /\ r.a.used = read_allocatable_cgs(rooted, V).used
                             /\ r.a.magic = read_allocatable_cgs(rooted, V).magic
    BY <1>5, <1>9, RecomputeRecord
  <2> QED  BY <1>11, <2>1
<1> HIDE DEF r
<1>13. FormattedAlloc = r.a
  BY Zenon DEF FormattedAlloc, r, rooted, taken, marked, laid
<1> QED  BY <1>5, <1>6, <1>10, <1>12, <1>13

\* Blanking later groups of a formatted volume loses nothing that is in use,
\* and the totals count a blank group with all its space.
LEMMA InitCounts == Init => CountsOK(a, dirs) /\ TotalsOK(a, dirs)
<1> SUFFICES ASSUME Init  PROVE CountsOK(a, dirs) /\ TotalsOK(a, dirs)
  OBVIOUS
<1>1. PICK magic \in [CG -> InitMagic \cup {"valid"}] :
        magic[0] = "valid" /\ a = Unwritten(FormattedAlloc, magic)
  BY DEF Init
<1> DEFINE F == FormattedAlloc
           C == {cg \in CG : magic[cg] # "valid"}
           lost == UNION {DataFrags[cg] : cg \in C}
           keep(f) == [cg \in CG |-> IF cg \in C THEN 0 ELSE f[cg]]
<1>2. F \in AllocState /\ F.free = AllDataFrags \ Run(DBlkNo, 1)  BY FormattedFacts
<1>3. /\ CountsOK(F, {RootInode}) /\ TotalsOK(F, {RootInode})
      /\ F.used = ReservedInodes \cup {RootInode}
      /\ F.magic = [cg \in CG |-> "valid"]
  BY FormattedCounts
<1>4. a = [F EXCEPT !.free = F.free \ lost, !.magic = magic,
                    !.nbfree = keep(F.nbfree), !.nifree = keep(F.nifree),
                    !.nffree = keep(F.nffree), !.ndir = keep(F.ndir)]
  BY <1>1, Zenon DEF Unwritten
<1>5. dirs = {RootInode}  BY DEF Init
<1>6. a \in AllocState  BY InitInv DEF Inv, TypeOK
<1> HIDE DEF F, keep, lost
<1>7. /\ a.free = F.free \ lost /\ a.used = F.used /\ a.magic = magic
      /\ a.nbfree = keep(F.nbfree) /\ a.nifree = keep(F.nifree)
      /\ a.ndir = keep(F.ndir) /\ a.total = F.total
  BY <1>2, <1>4 DEF AllocState
<1>8. 0 \in CG /\ DBlkNo \in Block /\ dtog(DBlkNo) = 0
  BY FirstBlock, BlockInGroup
<1>9. F.used \subseteq InodesOf[0]
  <2>1. ReservedInodes \subseteq InodesOf[0]  BY <1>8, ReservedInGroup
  <2>2. InodesOf[0] = IPG * 0 .. IPG * 0 + IPG - 1  BY <1>8, InodesOfGroup
  <2>3. RootInode \in InodesOf[0]  BY <2>2, GeometryAssumption DEF RootInode
  <2> QED  BY <1>3, <2>1, <2>3
<1>10. \A cg \in CG : cg # 0 => F.used \cap InodesOf[cg] = {}
  BY <1>8, <1>9 DEF InodesOf
<1>11. \A cg \in CG : magic[cg] = "valid" => DataFrags[cg] \cap lost = {}
  <2> SUFFICES ASSUME NEW cg \in CG, magic[cg] = "valid", NEW c \in C,
                      NEW f \in DataFrags[cg], f \in DataFrags[c]
               PROVE  FALSE
    BY DEF lost
  <2>1. dtog(f) = cg /\ dtog(f) = c  BY FragGroup
  <2> QED  BY <2>1
<1>12. BitsOK(a, dirs)
  <2>1. dirs \subseteq a.used \ ReservedInodes
    BY <1>3, <1>5, <1>7 DEF RootInode, ReservedInodes
  <2>2. \A cg \in CG : Reserved(cg) \subseteq a.used  BY <1>3, <1>7 DEF Reserved
  <2>3. \A cg \in CG : a.magic[cg] # "valid" => a.used \cap InodesOf[cg] = {}
    BY <1>1, <1>7, <1>10
  <2> QED  BY <2>1, <2>2, <2>3 DEF BitsOK
<1>13. ASSUME NEW cg \in CG, a.magic[cg] = "valid"
       PROVE  /\ a.nbfree[cg] = Cardinality(FreeBlocks(a, cg))
              /\ a.nifree[cg] = Cardinality(FreeInodes(a, cg))
              /\ a.ndir[cg] = Cardinality(dirs \cap InodesOf[cg])
  <2>1. /\ F.nbfree[cg] = Cardinality(FreeBlocks(F, cg))
        /\ F.nifree[cg] = Cardinality(FreeInodes(F, cg))
        /\ F.ndir[cg] = Cardinality({RootInode} \cap InodesOf[cg])
    BY <1>3 DEF CountsOK
  <2>2. /\ a.nbfree[cg] = F.nbfree[cg] /\ a.nifree[cg] = F.nifree[cg]
        /\ a.ndir[cg] = F.ndir[cg]
    BY <1>7, <1>13 DEF keep
  <2>3. FreeInodes(a, cg) = FreeInodes(F, cg)  BY <1>7 DEF FreeInodes
  <2>4. a.free \cap DataFrags[cg] = F.free \cap DataFrags[cg]
    BY <1>7, <1>11, <1>13
  <2>5. FreeBlocks(a, cg) = FreeBlocks(F, cg)  BY <2>4, FreeBlocksLocal
  <2> QED  BY <1>5, <2>1, <2>2, <2>3, <2>5
<1>14. TotalsOK(a, dirs)
  <2> SUFFICES ASSUME \A cg \in CG : a.magic[cg] # "bad"
               PROVE  /\ a.total.nbfree = Cardinality(SettledBlocks(a))
                      /\ a.total.nifree = Cardinality(SettledInodes(a))
                      /\ a.total.ndir = Cardinality(dirs)
    BY DEF TotalsOK
  <2>1. \A cg \in CG : magic[cg] \in {"valid", "pristine"}
    BY <1>6, <1>7 DEF AllocState, Magic
  <2>2. SettledBlocks(a) = SettledBlocks(F)
    <3>1. ASSUME NEW b \in Block
          PROVE  b \in SettledBlocks(a) <=> b \in SettledBlocks(F)
      <4>1. /\ dtog(b) \in CG /\ Run(b, Frag) \subseteq AllDataFrags
            /\ Run(b, Frag) \subseteq DataFrags[dtog(b)]
        BY BlockGroup
      <4>2. /\ b \in SettledBlocks(a) <=>
                 magic[dtog(b)] = "pristine" \/ Run(b, Frag) \subseteq a.free
            /\ b \in SettledBlocks(F) <=> Run(b, Frag) \subseteq F.free
        BY <1>2, <1>3, <1>6, <1>7, <4>1, SettledIs
      <4>3. CASE magic[dtog(b)] = "valid"
        BY <1>7, <1>11, <4>1, <4>2, <4>3
      <4>4. CASE magic[dtog(b)] # "valid"
        <5>1. b # DBlkNo  BY <1>1, <1>8, <4>4
        <5>2. Run(b, Frag) \cap Run(DBlkNo, Frag) = {}
          BY <1>8, <5>1, BlocksDisjoint
        <5>3. Run(DBlkNo, 1) \subseteq Run(DBlkNo, Frag)
          BY GeometryAssumption DEF Run
        <5>4. Run(b, Frag) \subseteq F.free  BY <1>2, <4>1, <5>2, <5>3
        <5> QED  BY <2>1, <4>1, <4>2, <4>4, <5>4
      <4> QED  BY <4>3, <4>4
    <3>2. SettledBlocks(a) \subseteq Block /\ SettledBlocks(F) \subseteq Block
      BY DEF SettledBlocks
    <3> QED  BY <3>1, <3>2
  <2>3. SettledInodes(a) = SettledInodes(F)
    <3>1. ASSUME NEW i \in Inode
          PROVE  i \in SettledInodes(a) <=> i \in SettledInodes(F)
      <4>1. itog(i) \in CG  BY ItogType
      <4>2. /\ i \in SettledInodes(a) <=>
                 /\ i \notin a.used
                 /\ ~(magic[itog(i)] = "pristine" /\ i \in Reserved(itog(i)))
            /\ i \in SettledInodes(F) <=> i \notin F.used
        BY <1>2, <1>3, <1>6, <1>7, <4>1, SettledIs
      <4>3. magic[itog(i)] = "pristine" => Reserved(itog(i)) = {}
        BY <1>1 DEF Reserved
      <4> QED  BY <1>7, <4>2, <4>3
    <3>2. SettledInodes(a) \subseteq Inode /\ SettledInodes(F) \subseteq Inode
      BY DEF SettledInodes
    <3> QED  BY <3>1, <3>2
  <2>4. \A cg \in CG : F.magic[cg] # "bad"  BY <1>3
  <2> QED  BY <1>3, <1>5, <1>7, <2>2, <2>3, <2>4 DEF TotalsOK
<1> QED  BY <1>12, <1>13, <1>14 DEF CountsOK

----------------------------------------------------------------------------
(* The specification.                                                      *)

\* With Inv, the exactness of the bitmaps' bookkeeping, of the group counts
\* and of the totals is inductive.
CountInv == Inv /\ CountsOK(a, dirs) /\ TotalsOK(a, dirs)

\* Every call of the allocator, and stuttering, keeps the counts exact.
LEMMA NextCounts == CountInv /\ [Next]_vars => CountInv'
<1> SUFFICES ASSUME CountInv, [Next]_vars  PROVE CountInv'  OBVIOUS
<1>1. /\ a \in AllocState /\ held \in [Block -> 0 .. Frag] /\ dirs \in SUBSET Inode
      /\ HeldOK(a, held) /\ CountsOK(a, dirs) /\ TotalsOK(a, dirs)
  BY DEF CountInv, Inv, TypeOK
<1>2. Inv'  BY NextInv DEF CountInv
<1>3. a' \in AllocState  BY <1>2 DEF Inv, TypeOK
<1>4. \A V \in SUBSET CG :
        LET u == read_allocatable_cgs(a, V)
        IN  u \in AllocState /\ CountsOK(u, dirs) /\ TotalsOK(u, dirs)
  BY <1>1, ReadAllocatable, LayoutKeepsCounts, LayoutKeepsTotals
<1>5. ASSUME NEW pref \in Callers \cup {NoInode}, NEW d \in BOOLEAN,
             AllocateInode(pref, d)
      PROVE  CountsOK(a', dirs') /\ TotalsOK(a', dirs')
  <2> DEFINE r == allocate_inode(a, pref, d)
  <2>1. pref \in Inode \cup {NoInode}  BY DEF Callers
  <2>2. PICK V \in SUBSET CG :
          LET u == read_allocatable_cgs(a, V)
          IN  /\ ~r.ok => r.a = u
              /\ r.ok => \E c \in CG :
                   /\ u.magic[c] = "valid" /\ r.ino \in FreeInodes(u, c)
                   /\ r.a = InodeTaken(u, c, r.ino, d)
    BY <1>1, <2>1, AllocateInodeRecord
  <2> DEFINE u == read_allocatable_cgs(a, V)
  <2>3. u \in AllocState /\ CountsOK(u, dirs) /\ TotalsOK(u, dirs)  BY <1>4
  <2>4. a' = r.a /\ dirs' = IF r.ok /\ d THEN dirs \cup {r.ino} ELSE dirs
    BY <1>5, Zenon DEF AllocateInode
  <2> HIDE DEF r
  <2>5. CASE ~r.ok
    <3>1. a' = u /\ dirs' = dirs  BY <2>2, <2>4, <2>5
    <3> HIDE DEF u
    <3> QED  BY <2>3, <3>1
  <2>6. CASE r.ok
    <3>1. PICK c \in CG : /\ u.magic[c] = "valid" /\ r.ino \in FreeInodes(u, c)
                          /\ r.a = InodeTaken(u, c, r.ino, d)
      BY <2>2, <2>6
    <3> HIDE DEF u
    <3> DEFINE E == IF d THEN dirs \cup {r.ino} ELSE dirs
    <3>2. a' = InodeTaken(u, c, r.ino, d) /\ dirs' = E  BY <2>4, <2>6, <3>1
    <3>3. CountsOK(a', E) /\ TotalsOK(a', E)
      <4>1. a' = [u EXCEPT !.used = @ \cup {r.ino},
                           !.irotor[c] = LocalInode(r.ino),
                           !.nifree[c] = Adjust(@, -1),
                           !.ndir[c] = Adjust(@, IF d THEN 1 ELSE 0),
                           !.total.nifree = Adjust(@, -1),
                           !.total.ndir = Adjust(@, IF d THEN 1 ELSE 0)]
        BY <3>2, Zenon DEF InodeTaken
      <4> QED  BY <1>3, <2>3, <3>1, <4>1, TakeInodeKeepsCounts
    <3> HIDE DEF E
    <3> QED  BY <3>2, <3>3
  <2> QED  BY <2>5, <2>6
<1>6. ASSUME NEW ino \in Callers \ {RootInode}, FreeInode(ino)
      PROVE  CountsOK(a', dirs') /\ TotalsOK(a', dirs')
  <2> DEFINE r == free_inode(a, ino, ino \in dirs)
             cg == itog(ino)
             d  == IF ino \in dirs THEN -1 ELSE 0
  <2>1. ino \in Inode \ ReservedInodes  BY DEF Callers
  <2>2. a' = r.a /\ dirs' = IF r.ok THEN dirs \ {ino} ELSE dirs
    BY <1>6, Zenon DEF FreeInode
  <2>3. r = IF a.magic[cg] # "valid" \/ ino \notin a.used
              THEN [ok |-> FALSE, a |-> a]
              ELSE [ok |-> TRUE,
                    a  |-> [a EXCEPT !.used = @ \ {ino},
                                     !.nifree[cg] = Adjust(@, 1),
                                     !.ndir[cg] = Adjust(@, d),
                                     !.total.nifree = Adjust(@, 1),
                                     !.total.ndir = Adjust(@, d)]]
    BY Zenon DEF free_inode
  <2>4. CASE a.magic[cg] # "valid" \/ ino \notin a.used
    <3>1. a' = a /\ dirs' = dirs
      <4> HIDE DEF r, cg, d
      <4> QED  BY <2>2, <2>3, <2>4
    <3> QED  BY <1>1, <3>1
  <2>5. CASE a.magic[cg] = "valid" /\ ino \in a.used
    <3> DEFINE t == [a EXCEPT !.used = @ \ {ino},
                              !.nifree[cg] = Adjust(@, 1),
                              !.ndir[cg] = Adjust(@, d),
                              !.total.nifree = Adjust(@, 1),
                              !.total.ndir = Adjust(@, d)]
    <3>1. a' = t /\ dirs' = dirs \ {ino}
      <4>1. r = [ok |-> TRUE, a |-> t]  BY <2>3, <2>5, Zenon
      <4> HIDE DEF r, t
      <4> QED  BY <2>2, <4>1
    <3>2. t \in AllocState  BY <1>3, <3>1, Zenon
    <3>3. CountsOK(t, dirs \ {ino}) /\ TotalsOK(t, dirs \ {ino})
      BY <1>1, <2>1, <2>5, <3>2, FreeInodeKeepsCounts
    <3> HIDE DEF t
    <3> QED  BY <3>1, <3>3
  <2> QED  BY <2>4, <2>5
<1>7. ASSUME NEW ino \in Callers, NEW n \in 1 .. Frag, Allocate(ino, n)
      PROVE  CountsOK(a', dirs') /\ TotalsOK(a', dirs')
  <2> DEFINE r == TakeRun(a, ino, n)
  <2>1. allocate_allocation(a, ino, n) = r
    BY GeometryAssumption DEF allocate_allocation
  <2>2. ino \in Inode  BY DEF Callers
  <2>3. PICK V \in SUBSET CG :
          LET u == read_allocatable_cgs(a, V)
          IN  /\ ~r.ok => r.a = u
              /\ r.ok => \E c \in CG :
                   /\ u.magic[c] = "valid" /\ r.blk \in FreeBlocks(u, c)
                   /\ r.a = RunTaken(u, c, r.blk, n)
    BY <1>1, <2>2, TakeRunRecord
  <2> DEFINE u == read_allocatable_cgs(a, V)
  <2>4. u \in AllocState /\ CountsOK(u, dirs) /\ TotalsOK(u, dirs)  BY <1>4
  <2>5. a' = r.a /\ dirs' = dirs  BY <1>7, <2>1 DEF Allocate
  <2> HIDE DEF r
  <2>6. CASE ~r.ok
    <3>1. a' = u  BY <2>3, <2>5, <2>6
    <3> HIDE DEF u
    <3> QED  BY <2>4, <2>5, <3>1
  <2>7. CASE r.ok
    <3>1. PICK c \in CG : /\ u.magic[c] = "valid" /\ r.blk \in FreeBlocks(u, c)
                          /\ r.a = RunTaken(u, c, r.blk, n)
      BY <2>3, <2>7
    <3> HIDE DEF u
    <3>2. a' = [u EXCEPT !.free = @ \ Run(r.blk, n),
                         !.nbfree[c] = Adjust(@, -1),
                         !.total.nbfree = Adjust(@, -1)]
      BY <2>5, <3>1 DEF RunTaken
    <3>3. CountsOK(a', dirs) /\ TotalsOK(a', dirs)
      BY <1>3, <2>4, <3>1, <3>2, TakeKeepsCounts
    <3> QED  BY <2>5, <3>3
  <2> QED  BY <2>6, <2>7
<1>8. ASSUME NEW b \in Block, Free(b)
      PROVE  CountsOK(a', dirs') /\ TotalsOK(a', dirs')
  <2> DEFINE n == held[b]
             t == [a EXCEPT !.free = @ \cup Run(b, n),
                            !.nbfree[dtog(b)] = Adjust(@, 1),
                            !.total.nbfree = Adjust(@, 1)]
  <2>1. n \in 1 .. Frag  BY <1>1, <1>8, GeometryAssumption DEF Free
  <2>2. a.magic[dtog(b)] = "valid"  BY <1>1, <2>1, GeometryAssumption DEF HeldOK
  <2>3. Run(b, Frag) \ a.free = Run(b, n)  BY <1>1, <2>2 DEF HeldOK
  <2>4. free_allocation(a, b, n) = [ok |-> TRUE, a |-> t]
    BY <1>1, <2>1, <2>2, <2>3, FreeAllocationRecord
  <2>5. a' = free_allocation(a, b, n).a /\ dirs' = dirs  BY <1>8 DEF Free
  <2>6. a' = t
    <3> HIDE DEF t, n
    <3> QED  BY <2>4, <2>5
  <2>7. t \in AllocState  BY <1>3, <2>6, Zenon
  <2> HIDE DEF n
  <2>8. CountsOK(t, dirs) /\ TotalsOK(t, dirs)
    BY <1>1, <2>1, <2>2, <2>3, <2>7, GiveKeepsCounts
  <2> HIDE DEF t
  <2> QED  BY <2>5, <2>6, <2>8
<1>9. ASSUME Recompute  PROVE CountsOK(a', dirs') /\ TotalsOK(a', dirs')
  <2> DEFINE t == recompute_summary_counts(a, dirs).a
  <2>1. a' = t /\ dirs' = dirs  BY <1>9, Zenon DEF Recompute
  <2>2. BitsOK(a, dirs)  BY <1>1 DEF CountsOK
  <2>3. CountsOK(t, dirs) /\ TotalsOK(t, dirs)
    BY <1>1, <2>2, RecomputeKeepsCounts
  <2> HIDE DEF t
  <2> QED  BY <2>1, <2>3
<1>10. CASE UNCHANGED vars
  <2>1. a' = a /\ dirs' = dirs  BY <1>10 DEF vars
  <2> QED  BY <1>1, <1>2, <2>1 DEF CountInv, CountsOK, TotalsOK, BitsOK,
           FreeBlocks, BlockFree, FreeInodes, SettledBlocks, SettledInodes
<1>11. ASSUME CountsOK(a', dirs') /\ TotalsOK(a', dirs')  PROVE CountInv'
  BY <1>2, <1>11 DEF CountInv, CountsOK, TotalsOK, BitsOK,
     FreeBlocks, BlockFree, FreeInodes, SettledBlocks, SettledInodes
<1> QED
  BY <1>5, <1>6, <1>7, <1>8, <1>9, <1>10, <1>11 DEF Next

\* The inductive invariant holds throughout.
LEMMA CountInvAlways == Spec => []CountInv
<1>1. Init => CountInv  BY InitInv, InitCounts DEF CountInv
<1> QED  BY <1>1, NextCounts, PTL DEF Spec

\* The group headers, which allocate_inode, free_inode, allocate_block and
\* free_block adjust by one, always agree with the bitmaps beside them, on
\* every volume: an adjustment is never lost, doubled or wrapped.
THEOREM GroupCountsAreExact == Spec => []GroupCountsExact
<1>1. CountInv => GroupCountsExact
  BY DEF CountInv, CountsOK, GroupCountsExact
<1> QED  BY <1>1, CountInvAlways, PTL

\* The totals of the superblock, which are written by every call and read by
\* none, stay equal to what the volume holds, groups that were never written
\* counted with all their space (adjust_u32_at on cstotal).
THEOREM TotalsAreExact == Spec => []TotalsExact
<1>1. CountInv => TotalsExact
  <2> SUFFICES ASSUME CountInv, GoodGroups = CG
               PROVE  /\ a.total.nbfree = Cardinality({b \in Block : BlockFree(Settled, b)})
                      /\ a.total.nifree = Cardinality(Inode \ Settled.used)
                      /\ a.total.ndir = Cardinality(dirs)
    BY DEF TotalsExact
  <2>1. \A cg \in CG : a.magic[cg] # "bad"  BY DEF GoodGroups
  <2>2. TotalsOK(a, dirs)  BY DEF CountInv
  <2> QED  BY <2>1, <2>2, Zenon DEF TotalsOK, SettledBlocks, SettledInodes, Settled
<1> QED  BY <1>1, CountInvAlways, PTL

\* An allocation is refused only on a volume with nothing left in any usable
\* group: the cyclic search passes none over, and the nifree by which
\* allocate_inode skips a group is zero only when its bitmap is full.
THEOREM RefusalsAreExact == Spec => []RefusalExact
<1>1. CountInv => RefusalExact
  <2> SUFFICES ASSUME CountInv  PROVE RefusalExact  OBVIOUS
  <2>1. a \in AllocState /\ CountsOK(a, dirs)  BY DEF CountInv, Inv, TypeOK
  <2> DEFINE s == read_allocatable_cgs(a, CG)
  <2>2. CG \in SUBSET CG  OBVIOUS
  <2>3. /\ s \in AllocState /\ CountsOK(s, dirs)
        /\ s.magic = [cg \in CG |-> IF cg \in {c \in CG : a.magic[c] = "pristine"}
                                    THEN "valid" ELSE a.magic[cg]]
    BY <2>1, <2>2, ReadAllocatable, LayoutKeepsCounts
  <2>4. Settled = s  BY DEF Settled
  <2> HIDE DEF s
  <2>5. \A cg \in CG : s.magic[cg] = "valid" <=> a.magic[cg] # "bad"
    <3>1. \A cg \in CG : a.magic[cg] \in {"valid", "pristine", "bad"}
      BY <2>1 DEF AllocState, Magic
    <3> QED  BY <2>3, <3>1
  <2>6. \A cg \in CG : BlockRoom(s, cg) <=> cg \in GoodGroups /\ FreeBlocks(s, cg) # {}
    BY <2>5 DEF BlockRoom, GoodGroups
  <2>7. \A cg \in CG : InodeRoom(s, cg) <=> cg \in GoodGroups /\ FreeInodes(s, cg) # {}
    <3> SUFFICES ASSUME NEW cg \in CG, s.magic[cg] = "valid", FreeInodes(s, cg) # {}
                 PROVE  s.nifree[cg] # 0
      BY <2>5 DEF InodeRoom, GoodGroups
    <3>1. s.nifree[cg] = Cardinality(FreeInodes(s, cg))  BY <2>3 DEF CountsOK
    <3>2. IsFiniteSet(FreeInodes(s, cg))
      <4>1. FreeInodes(s, cg) \in SUBSET InodesOf[cg]  BY DEF FreeInodes
      <4> QED  BY <4>1, InodesOfGroup, FS_Subset
    <3> QED  BY <3>1, <3>2, FS_EmptySet
  <2>8. ASSUME NEW ino \in Callers
        PROVE  allocate_allocation(a, ino, 1).ok <=>
                 \E cg \in GoodGroups : FreeBlocks(Settled, cg) # {}
    <3> DEFINE r == TakeRun(a, ino, 1)
    <3>1. allocate_allocation(a, ino, 1) = r
      BY GeometryAssumption DEF allocate_allocation
    <3>2. ino \in Inode /\ 1 \in 1 .. Frag  BY GeometryAssumption DEF Callers
    <3>3. r.ok <=> \E cg \in CG : BlockRoom(s, cg)
      BY <2>1, <3>2, TakeRunRecord DEF s
    <3> HIDE DEF r
    <3> QED  BY <2>4, <2>6, <3>1, <3>3 DEF GoodGroups
  <2>9. ASSUME NEW ino \in Callers \cup {NoInode}
        PROVE  allocate_inode(a, ino, FALSE).ok <=>
                 \E cg \in GoodGroups : FreeInodes(Settled, cg) # {}
    <3> DEFINE r == allocate_inode(a, ino, FALSE)
    <3>1. ino \in Inode \cup {NoInode} /\ FALSE \in BOOLEAN  BY DEF Callers
    <3>2. r.ok <=> \E cg \in CG : InodeRoom(s, cg)
      BY <2>1, <3>1, AllocateInodeRecord DEF s
    <3> HIDE DEF r
    <3>3. r.ok <=> \E cg \in GoodGroups : FreeInodes(Settled, cg) # {}
      BY <2>4, <2>7, <3>2 DEF GoodGroups
    <3> QED  BY <3>3 DEF r
  <2> QED  BY <2>8, <2>9 DEF RefusalExact
<1> QED  BY <1>1, CountInvAlways, PTL

\* A damaged group ends the recount before the totals are written.
LEMMA RecomputeStops ==
  ASSUME NEW s \in AllocState, NEW D, \E cg \in CG : s.magic[cg] = "bad"
  PROVE  recompute_summary_counts(s, D).a.total = s.total
<1> DEFINE bad  == {cg \in CG : s.magic[cg] = "bad"}
           done == 0 .. Min(bad) - 1
           u    == read_allocatable_cgs(s, done)
<1>1. bad \subseteq Nat /\ bad \subseteq CG /\ bad # {}  BY DEF CG
<1>2. Min(bad) \in bad
  <2> HIDE DEF bad
  <2> QED  BY <1>1, MinInSet
<1> DEFINE m == Min(bad)
<1>3. m \in CG /\ m \in Nat  BY <1>1, <1>2
<1> HIDE DEF m
<1>4. m \notin 0 .. m - 1 /\ 0 .. m - 1 \subseteq CG
  BY <1>3, GeometryAssumption DEF CG
<1>5. done # CG /\ done \in SUBSET CG  BY <1>3, <1>4 DEF m
<1>6. recompute_summary_counts(s, D) = Recount(u, done, D)
  BY <1>1 DEF recompute_summary_counts
<1> HIDE DEF done
<1>7. u \in AllocState /\ u.total = s.total
  BY <1>5, ReadCounts, ReadAllocatable
<1> HIDE DEF u
<1>8. Recount(u, done, D).a.total = u.total  BY <1>5, <1>7 DEF Recount, AllocState
<1> QED  BY <1>6, <1>7, <1>8

\* recompute_summary_counts, the recount an unmount runs, has nothing to
\* correct in the counts the calls before it kept: what it writes is what is
\* there, in every laid-out group and in the totals; and a pass that a damaged
\* group ends leaves the totals alone.
THEOREM RecomputeChangesNothing == Spec => RecomputeConfirms
<1> DEFINE Confirmed ==
             /\ \A cg \in CG : a.magic[cg] = "valid" =>
                  /\ a'.nbfree[cg] = a.nbfree[cg]
                  /\ a'.nifree[cg] = a.nifree[cg]
                  /\ a'.ndir[cg] = a.ndir[cg]
             /\ a'.total.nbfree = a.total.nbfree
             /\ a'.total.nifree = a.total.nifree
             /\ a'.total.ndir = a.total.ndir
             /\ GoodGroups # CG => a'.total = a.total
<1>1. CountInv /\ CountInv' /\ Recompute => Confirmed
  <2> SUFFICES ASSUME CountInv, CountInv', Recompute  PROVE Confirmed
    OBVIOUS
  <2>1. /\ a \in AllocState /\ dirs \in SUBSET Inode
        /\ CountsOK(a, dirs) /\ TotalsOK(a, dirs)
    BY DEF CountInv, Inv, TypeOK
  <2> DEFINE r == recompute_summary_counts(a, dirs)
             t == r.a
  <2>2. a' = t /\ dirs' = dirs  BY Zenon DEF Recompute
  <2>3. BitsOK(a, dirs)  BY <2>1 DEF CountsOK
  <2>4. CountsOK(t, dirs) /\ TotalsOK(t, dirs)
    BY <2>1, <2>3, RecomputeKeepsCounts
  <2>5. t \in AllocState  BY <2>1, RecomputeFacts
  <2>6. PICK V \in SUBSET CG :
          /\ t.free = read_allocatable_cgs(a, V).free
          /\ t.used = read_allocatable_cgs(a, V).used
          /\ t.magic = read_allocatable_cgs(a, V).magic
    BY <2>1, RecomputeRecord
  <2> DEFINE u == read_allocatable_cgs(a, V)
             P == {cg \in V : a.magic[cg] = "pristine"}
  <2>7. /\ u \in AllocState
        /\ u.magic = [cg \in CG |-> IF cg \in P THEN "valid" ELSE a.magic[cg]]
        /\ u.used = a.used \cup UNION {Reserved(cg) : cg \in P}
    BY <2>1, ReadAllocatable
  <2>8. \A cg \in CG : a.magic[cg] = "valid" =>
          u.free \cap DataFrags[cg] = a.free \cap DataFrags[cg]
    <3> SUFFICES ASSUME NEW cg \in CG, a.magic[cg] = "valid"
                 PROVE  u.free \cap DataFrags[cg] = a.free \cap DataFrags[cg]
      OBVIOUS
    <3> QED  BY <2>1, GroupFree
  <2> HIDE DEF t, u, r
  <2>9. ASSUME NEW cg \in CG, a.magic[cg] = "valid"
        PROVE  /\ t.nbfree[cg] = a.nbfree[cg] /\ t.nifree[cg] = a.nifree[cg]
               /\ t.ndir[cg] = a.ndir[cg]
    <3>1. t.magic[cg] = "valid"  BY <2>6, <2>7, <2>9 DEF u
    <3>2. FreeBlocks(t, cg) = FreeBlocks(a, cg)
      <4>1. t.free \cap DataFrags[cg] = a.free \cap DataFrags[cg]
        BY <2>6, <2>8, <2>9 DEF u
      <4> QED  BY <4>1, FreeBlocksLocal
    <3>3. FreeInodes(t, cg) = FreeInodes(a, cg)
      <4>1. \A c \in P : Reserved(c) \cap InodesOf[cg] = {}
        <5> SUFFICES ASSUME NEW c \in P  PROVE Reserved(c) \cap InodesOf[cg] = {}
          OBVIOUS
        <5>1. c \in CG /\ c # cg  BY <2>9
        <5>2. Reserved(c) \subseteq InodesOf[c]  BY <5>1, ReservedInGroup
        <5> QED  BY <5>1, <5>2 DEF InodesOf
      <4> QED  BY <2>6, <2>7, <4>1 DEF FreeInodes, u
    <3> QED  BY <2>1, <2>4, <2>9, <3>1, <3>2, <3>3 DEF CountsOK
  <2>10. ASSUME GoodGroups = CG
         PROVE  /\ t.total.nbfree = a.total.nbfree
                /\ t.total.nifree = a.total.nifree
                /\ t.total.ndir = a.total.ndir
    <3>1. \A cg \in CG : a.magic[cg] # "bad"  BY <2>10 DEF GoodGroups
    <3>2. \A cg \in CG : t.magic[cg] # "bad"  BY <2>6, <2>7, <3>1 DEF u
    <3>3. TotalsOK(u, dirs)  BY <2>1, LayoutKeepsTotals DEF u
    <3>4. u.total = a.total  BY <2>1, ReadCounts DEF u
    <3>5. SettledBlocks(t) = SettledBlocks(u)
      <4>1. SettledBlocks(t) \subseteq Block /\ SettledBlocks(u) \subseteq Block
        BY DEF SettledBlocks
      <4>2. \A b \in Block : b \in SettledBlocks(t) <=> b \in SettledBlocks(u)
        <5> SUFFICES ASSUME NEW b \in Block
                     PROVE  b \in SettledBlocks(t) <=> b \in SettledBlocks(u)
          OBVIOUS
        <5> QED  BY <2>5, <2>6, <2>7, SettledIs DEF u
      <4> QED  BY <4>1, <4>2
    <3>6. SettledInodes(t) = SettledInodes(u)
      <4>1. SettledInodes(t) \subseteq Inode /\ SettledInodes(u) \subseteq Inode
        BY DEF SettledInodes
      <4>2. \A i \in Inode : i \in SettledInodes(t) <=> i \in SettledInodes(u)
        <5> SUFFICES ASSUME NEW i \in Inode
                     PROVE  i \in SettledInodes(t) <=> i \in SettledInodes(u)
          OBVIOUS
        <5> QED  BY <2>5, <2>6, <2>7, SettledIs DEF u
      <4> QED  BY <4>1, <4>2
    <3>7. \A cg \in CG : u.magic[cg] # "bad"  BY <2>7, <3>1
    <3> QED  BY <2>4, <3>2, <3>3, <3>4, <3>5, <3>6, <3>7 DEF TotalsOK
  <2>11. ASSUME GoodGroups # CG  PROVE t.total = a.total
    <3>1. \E cg \in CG : a.magic[cg] = "bad"  BY <2>11 DEF GoodGroups
    <3> QED  BY <2>1, <3>1, RecomputeStops DEF t, r
  <2> QED  BY <2>2, <2>9, <2>10, <2>11
<1>2. CountInv /\ CountInv' /\ [Next]_vars => [Recompute => Confirmed]_vars
  BY <1>1
<1> QED  BY <1>2, CountInvAlways, PTL DEF Spec, RecomputeConfirms

============================================================================
