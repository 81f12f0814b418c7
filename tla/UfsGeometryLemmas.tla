------------------------- MODULE UfsGeometryLemmas -------------------------
(***************************************************************************)
(* Facts about the layout of UfsGeometry that hold for every geometry: the *)
(* groups share no fragment, the blocks of the volume share no fragment,   *)
(* and what is counted is finite.                                          *)
(***************************************************************************)
EXTENDS UfsGeometry, ArithmeticLemmas, FiniteSetTheorems

----------------------------------------------------------------------------
(* Groups.                                                                 *)

\* cg_data_frag_count never exceeds a group.
LEMMA NdblkBound ==
  ASSUME NEW cg \in CG
  PROVE  cg_ndblk(cg) \in 0 .. FPG /\ cgbase(cg) \in Nat
  BY GeometryAssumption DEF cg_ndblk, cgbase, CG

\* A fragment belongs to the group that dtog computes, so groups are disjoint.
LEMMA FragGroup ==
  ASSUME NEW cg \in CG, NEW f \in DataFrags[cg]
  PROVE  f \in Nat /\ dtog(f) = cg /\ f < FPG * cg + FPG
<1>1. cg_ndblk(cg) \in 0 .. FPG  BY NdblkBound
<1>2. FPG * cg \in Nat  BY GeometryAssumption DEF CG
<1>3. f \in Int /\ FPG * cg + DBlkNo <= f /\ f <= FPG * cg + cg_ndblk(cg) - 1
  BY <1>1, <1>2, GeometryAssumption DEF DataFrags, cgbase
<1>4. FPG * cg <= f /\ f < FPG * cg + FPG
  BY <1>1, <1>2, <1>3, GeometryAssumption
<1> QED  BY <1>2, <1>3, <1>4, GeometryAssumption, DivUnique DEF dtog, CG

\* itog maps an inode of the volume to a group of it.
LEMMA ItogType ==
  ASSUME NEW i \in Inode  PROVE itog(i) \in CG
  BY GeometryAssumption DEF Inode, itog, CG

\* The cyclic search stays inside the volume.
LEMMA VisitType ==
  ASSUME NEW start \in CG, NEW k \in Nat  PROVE Visit(start, k) \in CG
  BY GeometryAssumption, DivMod DEF Visit, CG

----------------------------------------------------------------------------
(* Blocks.                                                                 *)

\* A whole block lies inside its group.
LEMMA BlockInGroup ==
  ASSUME NEW cg \in CG, NEW b \in DataBlocks[cg]
  PROVE  /\ b \in Block /\ b \in Nat /\ b # 0 /\ dtog(b) = cg
         /\ Run(b, Frag) \subseteq DataFrags[cg]
<1>1. b \in DataFrags[cg] /\ b + Frag <= cgbase(cg) + cg_ndblk(cg)
  BY DEF DataBlocks
<1>2. b \in Nat /\ dtog(b) = cg  BY <1>1, FragGroup
<1>3. cgbase(cg) \in Nat /\ cg_ndblk(cg) \in Nat /\ cgbase(cg) + DBlkNo <= b
  BY <1>1, NdblkBound, GeometryAssumption DEF DataFrags
<1>4. Run(b, Frag) \subseteq DataFrags[cg]
  BY <1>1, <1>2, <1>3, GeometryAssumption DEF Run, DataFrags
<1>5. b \in Block  BY DEF Block
<1> QED  BY <1>2, <1>3, <1>4, <1>5, GeometryAssumption

\* The same, from the block alone: dtog finds its group.
LEMMA BlockGroup ==
  ASSUME NEW b \in Block
  PROVE  /\ dtog(b) \in CG /\ b \in DataBlocks[dtog(b)] /\ b \in Nat /\ b # 0
         /\ Run(b, Frag) \subseteq DataFrags[dtog(b)]
         /\ Run(b, Frag) \subseteq AllDataFrags
<1>1. PICK cg \in CG : b \in DataBlocks[cg]  BY DEF Block
<1>2. /\ dtog(b) = cg /\ b \in Nat /\ b # 0
      /\ Run(b, Frag) \subseteq DataFrags[cg]  BY <1>1, BlockInGroup
<1> QED  BY <1>1, <1>2 DEF AllDataFrags

\* No two blocks share a fragment.
LEMMA BlocksDisjoint ==
  ASSUME NEW b \in Block, NEW c \in Block, b # c
  PROVE  Run(b, Frag) \cap Run(c, Frag) = {}
<1> SUFFICES ASSUME NEW f \in Run(b, Frag), f \in Run(c, Frag)  PROVE FALSE
  OBVIOUS
<1>1. /\ dtog(b) \in CG /\ f \in DataFrags[dtog(b)] /\ b \in DataBlocks[dtog(b)]
      /\ dtog(c) \in CG /\ f \in DataFrags[dtog(c)] /\ c \in DataBlocks[dtog(c)]
      /\ b \in Nat /\ c \in Nat
  BY BlockGroup
<1>2. dtog(b) = dtog(c)  BY <1>1, FragGroup
<1>3. PICK base \in Nat : (b - base) % Frag = 0 /\ (c - base) % Frag = 0
  BY <1>1, <1>2, NdblkBound DEF DataBlocks
<1>4. /\ b - base < c - base => b - base + Frag <= c - base
      /\ c - base < b - base => c - base + Frag <= b - base
  <2> DEFINE x == b - base
             y == c - base
  <2>1. x \in Int /\ y \in Int /\ x % Frag = 0 /\ y % Frag = 0  BY <1>1, <1>3
  <2>2. Frag \in Nat \ {0}  BY GeometryAssumption
  <2> HIDE DEF x, y
  <2>3. (x < y => x + Frag <= y) /\ (y < x => y + Frag <= x)
    BY <2>1, <2>2, MultiplesApart
  <2> QED  BY <2>3 DEF x, y
<1> QED  BY <1>1, <1>3, <1>4, GeometryAssumption DEF Run

\* The root directory's block is the first of the first group.
LEMMA FirstBlock ==
  /\ 0 \in CG /\ DBlkNo \in DataBlocks[0]
  /\ \A b \in DataBlocks[0] : DBlkNo <= b
<1>1. 0 \in CG /\ cgbase(0) = 0  BY GeometryAssumption DEF CG, cgbase
<1>2. cg_ndblk(0) \in Nat /\ DBlkNo + Frag <= cg_ndblk(0)
  BY <1>1, GeometryAssumption DEF cg_ndblk
<1>3. DataFrags[0] = DBlkNo .. cg_ndblk(0) - 1
  BY <1>1, <1>2, GeometryAssumption DEF DataFrags
<1>4. DBlkNo \in DataFrags[0]  BY <1>2, <1>3, GeometryAssumption
<1> QED  BY <1>1, <1>2, <1>3, <1>4, GeometryAssumption DEF DataBlocks

----------------------------------------------------------------------------
(* What a group holds, counted.                                            *)

\* The inodes of a group are an interval of IPG numbers.
LEMMA InodesOfGroup ==
  ASSUME NEW cg \in CG
  PROVE  /\ InodesOf[cg] = IPG * cg .. IPG * cg + IPG - 1
         /\ IsFiniteSet(InodesOf[cg]) /\ Cardinality(InodesOf[cg]) = IPG
<1>1. cg \in Nat /\ cg < NCG /\ IPG * cg \in Nat /\ NCG * IPG \in Nat
  BY GeometryAssumption DEF CG
<1>2. IPG * cg + IPG <= NCG * IPG  BY <1>1, MulMono, GeometryAssumption
<1>3. ASSUME NEW i \in Inode  PROVE i \div IPG = cg <=> i \in IPG * cg .. IPG * cg + IPG - 1
  <2>1. i \in Nat  BY <1>1 DEF Inode
  <2>2. i % IPG \in 0 .. IPG - 1 /\ i = IPG * (i \div IPG) + (i % IPG)
    BY <2>1, DivMod, GeometryAssumption
  <2>3. i \div IPG = cg => i \in IPG * cg .. IPG * cg + IPG - 1
    BY <1>1, <2>1, <2>2, GeometryAssumption
  <2>4. i \in IPG * cg .. IPG * cg + IPG - 1 => i \div IPG = cg
    BY <1>1, <2>1, DivUnique, GeometryAssumption
  <2> QED  BY <2>3, <2>4
<1>4. IPG * cg .. IPG * cg + IPG - 1 \subseteq Inode
  BY <1>1, <1>2, GeometryAssumption DEF Inode
<1>5. InodesOf[cg] = IPG * cg .. IPG * cg + IPG - 1
  BY <1>3, <1>4 DEF InodesOf, itog
<1>6. IPG * cg + IPG - 1 \in Int  BY <1>1, GeometryAssumption
<1> DEFINE lo == IPG * cg
           hi == IPG * cg + IPG - 1
<1>7. lo \in Int /\ hi \in Int /\ ~(lo > hi) /\ hi - lo + 1 = IPG
  BY <1>1, GeometryAssumption
<1> HIDE DEF lo, hi
<1>8. IsFiniteSet(lo .. hi) /\ Cardinality(lo .. hi) = IPG
  BY <1>7, FS_Interval
<1> QED  BY <1>5, <1>8 DEF lo, hi

\* initialize_pristine_cg's nbfree, the data span divided by the block size,
\* is the number of whole blocks the allocator can find in the group.
LEMMA DataBlockCount ==
  ASSUME NEW cg \in CG
  PROVE  LET span == IF cg_ndblk(cg) > DBlkNo THEN cg_ndblk(cg) - DBlkNo ELSE 0
         IN  /\ IsFiniteSet(DataBlocks[cg])
             /\ Cardinality(DataBlocks[cg]) = span \div Frag
<1> DEFINE span == IF cg_ndblk(cg) > DBlkNo THEN cg_ndblk(cg) - DBlkNo ELSE 0
           n == span \div Frag
           base == cgbase(cg)
           q == DBlkNo \div Frag
           f == [k \in 0 .. n - 1 |-> base + DBlkNo + Frag * k]
<1>1. cg_ndblk(cg) \in Nat /\ base \in Nat  BY NdblkBound
<1>2. span \in Nat  BY <1>1, GeometryAssumption
<1>3. q \in Int /\ DBlkNo = Frag * q  BY DivMod, GeometryAssumption
<1>4. n \in Int
  <2> HIDE DEF span
  <2> QED  BY <1>2, DivMod, GeometryAssumption
<1>5. \A b : b \in DataBlocks[cg] <=>
        /\ b \in Int /\ base + DBlkNo <= b /\ (b - base) % Frag = 0
        /\ b + Frag <= base + cg_ndblk(cg)
  BY <1>1, GeometryAssumption DEF DataBlocks, DataFrags
<1>6. \A k \in Int : Frag * k + Frag <= span <=> k < n
  BY <1>2, DivLess, GeometryAssumption
<1>7. n \in Nat
  <2>1. -1 \in Int /\ Frag * (-1) + Frag = 0  BY GeometryAssumption
  <2>2. -1 < n  BY <1>2, <1>6, <2>1
  <2> QED  BY <1>4, <2>2
<1> HIDE DEF base, q, n, span
<1>8. ASSUME NEW k \in 0 .. n - 1  PROVE base + DBlkNo + Frag * k \in DataBlocks[cg]
  <2>1. k \in Int /\ k >= 0 /\ k < n  BY <1>7
  <2>2. Frag * k \in Int /\ Frag * k >= 0  BY <2>1, GeometryAssumption
  <2>3. Frag * k + Frag <= span  BY <1>6, <2>1
  <2>4. span > 0 /\ span = cg_ndblk(cg) - DBlkNo
    <3>1. span > 0  BY <1>2, <2>2, <2>3, GeometryAssumption
    <3> QED  BY <3>1 DEF span
  <2> DEFINE b == base + DBlkNo + Frag * k
  <2>5. b \in Int /\ base + DBlkNo <= b /\ b + Frag <= base + cg_ndblk(cg)
    BY <1>1, <1>2, <2>2, <2>3, <2>4, GeometryAssumption
  <2>6. b - base = Frag * (q + k)
    BY <1>1, <1>3, <2>1, <2>2, GeometryAssumption
  <2>7. (Frag * (q + k)) % Frag = 0  BY <1>3, <2>1, GeometryAssumption
  <2> QED  BY <1>5, <2>5, <2>6, <2>7
<1>9. ASSUME NEW b \in DataBlocks[cg]
      PROVE  \E k \in 0 .. n - 1 : base + DBlkNo + Frag * k = b
  <2>1. /\ b \in Int /\ base + DBlkNo <= b /\ (b - base) % Frag = 0
        /\ b + Frag <= base + cg_ndblk(cg)
    BY <1>5
  <2> DEFINE p == (b - base) \div Frag
             k == p - q
  <2>2. p \in Int /\ b - base = Frag * p
    <3> DEFINE x == b - base
    <3>1. x \in Int /\ x % Frag = 0  BY <1>1, <2>1
    <3> HIDE DEF x
    <3>2. x \div Frag \in Int /\ x = Frag * (x \div Frag)
      BY <3>1, DivMod, GeometryAssumption
    <3> QED  BY <3>2 DEF x
  <2> HIDE DEF p
  <2>3. k \in Int /\ Frag * k = b - base - DBlkNo
    BY <1>3, <2>2, GeometryAssumption
  <2> HIDE DEF k
  <2>4. k >= 0
    <3>1. Frag * 0 <= Frag * k  BY <1>1, <2>1, <2>3, GeometryAssumption
    <3>2. k < 0 => Frag * k + Frag <= Frag * 0  BY <2>3, MulMono, GeometryAssumption
    <3>3. Frag * k \in Int  BY <2>3, GeometryAssumption
    <3> QED  BY <2>3, <3>1, <3>2, <3>3, GeometryAssumption
  <2>5. Frag * k + Frag <= span
    BY <1>1, <2>1, <2>3, GeometryAssumption DEF span
  <2>6. k < n  BY <1>6, <2>3, <2>5
  <2>7. base + DBlkNo + Frag * k = b  BY <1>1, <2>1, <2>3, GeometryAssumption
  <2> QED  BY <1>7, <2>3, <2>4, <2>6, <2>7
<1>10. \A j, k \in 0 .. n - 1 :
         base + DBlkNo + Frag * j = base + DBlkNo + Frag * k => j = k
  <2> SUFFICES ASSUME NEW j \in 0 .. n - 1, NEW k \in 0 .. n - 1,
                      base + DBlkNo + Frag * j = base + DBlkNo + Frag * k
               PROVE  j = k
    OBVIOUS
  <2>1. j \in Int /\ k \in Int  BY <1>7
  <2>2. Frag * j \in Int /\ Frag * k \in Int  BY <2>1, GeometryAssumption
  <2>3. Frag * j = Frag * k  BY <1>1, <2>2, GeometryAssumption
  <2>4. j < k => Frag * j + Frag <= Frag * k  BY <2>1, MulMono, GeometryAssumption
  <2>5. k < j => Frag * k + Frag <= Frag * j  BY <2>1, MulMono, GeometryAssumption
  <2> QED  BY <2>1, <2>2, <2>3, <2>4, <2>5, GeometryAssumption
<1>11. f \in Bijection(0 .. n - 1, DataBlocks[cg])
  BY <1>8, <1>9, <1>10 DEF Bijection, Injection, Surjection, IsInjective
<1>12. 0 \in Int /\ n - 1 \in Int /\ (IF 0 > n - 1 THEN 0 ELSE n - 1 - 0 + 1) = n
  BY <1>7
<1>13. IsFiniteSet(0 .. n - 1) /\ Cardinality(0 .. n - 1) = n
  BY <1>12, FS_Interval
<1>14. IsFiniteSet(DataBlocks[cg]) /\ Cardinality(DataBlocks[cg]) = n
  <2>1. ExistsBijection(0 .. n - 1, DataBlocks[cg])  BY <1>11 DEF ExistsBijection
  <2> QED  BY <1>13, <2>1, FS_Bijection
<1> QED  BY <1>14 DEF n, span

\* A cyclic search of NCG attempts visits every group.
LEMMA VisitOnto ==
  ASSUME NEW start \in CG, NEW cg \in CG
  PROVE  \E k \in 0 .. NCG - 1 : Visit(start, k) = cg
<1> DEFINE k == IF start <= cg THEN cg - start ELSE cg - start + NCG
<1>1. start \in 0 .. NCG - 1 /\ cg \in 0 .. NCG - 1  BY DEF CG
<1>2. k \in 0 .. NCG - 1  BY <1>1, GeometryAssumption
<1>3. start + k = cg \/ start + k = cg + NCG  BY <1>1, GeometryAssumption
<1>4. cg % NCG = cg /\ (cg + NCG) % NCG = cg
  BY <1>1, GeometryAssumption
<1> HIDE DEF k
<1> QED  BY <1>2, <1>3, <1>4 DEF Visit

============================================================================
