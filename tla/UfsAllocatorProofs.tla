------------------------- MODULE UfsAllocatorProofs -------------------------
(***************************************************************************)
(* Proofs about the allocator of UfsAllocator, for every geometry and any  *)
(* number of groups: its state stays of its type, the bitmap marks exactly *)
(* what the callers hold, and it implements the pool of BlockPool.         *)
(***************************************************************************)
EXTENDS UfsAllocator, UfsGeometryLemmas

----------------------------------------------------------------------------
(* Types of the pieces.                                                    *)

\* A counter reduced to its width fits it.
LEMMA CountType ==
  ASSUME NEW x \in Int  PROVE x % CountMod \in Count
  BY CountModAssumption, DivMod DEF Count

\* adjust_u32_at stores a value that fits.
LEMMA AdjustType ==
  ASSUME NEW x \in Count, NEW d \in Int  PROVE Adjust(x, d) \in Count
<1>1. x + d \in Int  BY CountModAssumption DEF Count
<1> QED  BY <1>1, CountType DEF Adjust

\* The reserved inodes of a group are inodes, finitely many.
LEMMA ReservedType ==
  ASSUME NEW cg \in CG
  PROVE  Reserved(cg) \subseteq Inode /\ Cardinality(Reserved(cg)) \in Nat
<1>1. NCG * IPG \in Nat /\ NCG * IPG >= 3  BY GeometryAssumption
<1>2. Reserved(cg) \subseteq 0 .. 1  BY DEF Reserved, ReservedInodes
<1>3. IsFiniteSet(0 .. 1)
  <2>1. 0 \in Int /\ 1 \in Int  OBVIOUS
  <2> QED  BY <2>1, FS_Interval
<1>4. IsFiniteSet(Reserved(cg))  BY <1>2, <1>3, FS_Subset
<1>5. Cardinality(Reserved(cg)) \in Nat  BY <1>4, FS_CardinalityType
<1> QED  BY <1>1, <1>2, <1>5 DEF Inode

\* Every set the recount counts is finite.
LEMMA FiniteCounts ==
  /\ IsFiniteSet(Inode) /\ \A S \in SUBSET Inode : Cardinality(S) \in Nat
  /\ IsFiniteSet(AllDataFrags)
  /\ \A S \in SUBSET AllDataFrags : Cardinality(S) \in Nat
<1>1. IsFiniteSet(Inode)
  <2>1. NCG * IPG - 1 \in Int  BY GeometryAssumption
  <2> QED  BY <2>1, FS_Interval DEF Inode
<1>2. IsFiniteSet(AllDataFrags)
  <2>1. FPG * NCG \in Nat  BY GeometryAssumption
  <2>2. AllDataFrags \subseteq Nat /\ \A f \in AllDataFrags : f <= FPG * NCG
    <3> SUFFICES ASSUME NEW cg \in CG, NEW f \in DataFrags[cg]
                 PROVE  f \in Nat /\ f <= FPG * NCG
      BY DEF AllDataFrags
    <3>1. f \in Nat /\ f < FPG * cg + FPG  BY FragGroup
    <3>2. FPG * cg + FPG <= FPG * NCG
      BY MulMono, GeometryAssumption DEF CG
    <3>3. FPG * cg \in Int  BY GeometryAssumption DEF CG
    <3> QED  BY <2>1, <3>1, <3>2, <3>3, GeometryAssumption
  <2> QED  BY <2>1, <2>2, FS_BoundedSetOfNaturals
<1> QED  BY <1>1, <1>2, FS_Subset, FS_CardinalityType

\* Laying out groups, field by field.
LEMMA InitializePristine ==
  ASSUME NEW s \in AllocState, NEW C \in SUBSET CG
  PROVE  LET r == initialize_pristine_cgs(s, C)
         IN  /\ r \in AllocState
             /\ r.free = s.free \cup UNION {DataFrags[cg] : cg \in C}
             /\ r.magic = [cg \in CG |-> IF cg \in C THEN "valid" ELSE s.magic[cg]]
             /\ r.used = s.used \cup UNION {Reserved(cg) : cg \in C}
<1> DEFINE r == initialize_pristine_cgs(s, C)
           span(cg) == IF cg_ndblk(cg) > DBlkNo THEN cg_ndblk(cg) - DBlkNo ELSE 0
           set(f, new(_)) == [cg \in CG |-> IF cg \in C THEN new(cg) ELSE f[cg]]
           blocks(cg) == (span(cg) \div Frag) % CountMod
           frags(cg)  == (span(cg) % Frag) % CountMod
           inodes(cg) == (IPG - Cardinality(Reserved(cg))) % CountMod
<1>1. \A cg \in CG : blocks(cg) \in Count /\ frags(cg) \in Count /\ inodes(cg) \in Count
  <2> SUFFICES ASSUME NEW cg \in CG
               PROVE  blocks(cg) \in Count /\ frags(cg) \in Count /\ inodes(cg) \in Count
    OBVIOUS
  <2>1. span(cg) \in Int  BY NdblkBound, GeometryAssumption
  <2>2. span(cg) \div Frag \in Int /\ span(cg) % Frag \in Int
    BY <2>1, DivMod, GeometryAssumption
  <2>3. IPG - Cardinality(Reserved(cg)) \in Int
    BY ReservedType, GeometryAssumption
  <2> QED  BY <2>2, <2>3, CountType
<1>2. s.free \cup UNION {DataFrags[cg] : cg \in C} \in SUBSET AllDataFrags
  BY DEF AllocState, AllDataFrags
<1>3. s.used \cup UNION {Reserved(cg) : cg \in C} \in SUBSET Inode
  BY ReservedType DEF AllocState
<1>4. 0 \in Count /\ 0 \in 0 .. IPG - 1
  BY CountModAssumption, GeometryAssumption DEF Count
<1> HIDE DEF blocks, frags, inodes
<1>5. /\ [cg \in CG |-> IF cg \in C THEN "valid" ELSE s.magic[cg]] \in [CG -> Magic]
      /\ [cg \in CG |-> IF cg \in C THEN 0 ELSE s.irotor[cg]] \in [CG -> 0 .. IPG - 1]
      /\ [cg \in CG |-> IF cg \in C THEN blocks(cg) ELSE s.nbfree[cg]] \in [CG -> Count]
      /\ [cg \in CG |-> IF cg \in C THEN inodes(cg) ELSE s.nifree[cg]] \in [CG -> Count]
      /\ [cg \in CG |-> IF cg \in C THEN frags(cg) ELSE s.nffree[cg]] \in [CG -> Count]
      /\ [cg \in CG |-> IF cg \in C THEN 0 ELSE s.ndir[cg]] \in [CG -> Count]
  BY <1>1, <1>4 DEF AllocState, Magic
<1>6. r = [s EXCEPT
      !.free   = s.free \cup UNION {DataFrags[cg] : cg \in C},
      !.used   = s.used \cup UNION {Reserved(cg) : cg \in C},
      !.magic  = [cg \in CG |-> IF cg \in C THEN "valid" ELSE s.magic[cg]],
      !.irotor = [cg \in CG |-> IF cg \in C THEN 0 ELSE s.irotor[cg]],
      !.nbfree = [cg \in CG |-> IF cg \in C THEN blocks(cg) ELSE s.nbfree[cg]],
      !.nifree = [cg \in CG |-> IF cg \in C THEN inodes(cg) ELSE s.nifree[cg]],
      !.nffree = [cg \in CG |-> IF cg \in C THEN frags(cg) ELSE s.nffree[cg]],
      !.ndir   = [cg \in CG |-> IF cg \in C THEN 0 ELSE s.ndir[cg]]]
  BY DEF initialize_pristine_cgs, blocks, frags, inodes
<1> HIDE DEF r
<1>7. r \in AllocState  BY <1>2, <1>3, <1>5, <1>6 DEF AllocState
<1>8. /\ r.free = s.free \cup UNION {DataFrags[cg] : cg \in C}
      /\ r.magic = [cg \in CG |-> IF cg \in C THEN "valid" ELSE s.magic[cg]]
      /\ r.used = s.used \cup UNION {Reserved(cg) : cg \in C}
  BY <1>6 DEF AllocState
<1> QED  BY <1>7, <1>8 DEF r

\* read_allocatable_cg_block over a set of groups, field by field.
LEMMA ReadAllocatable ==
  ASSUME NEW s \in AllocState, NEW C \in SUBSET CG
  PROVE  LET r == read_allocatable_cgs(s, C)
             P == {cg \in C : s.magic[cg] = "pristine"}
         IN  /\ r \in AllocState
             /\ r.free = s.free \cup UNION {DataFrags[cg] : cg \in P}
             /\ r.magic = [cg \in CG |-> IF cg \in P THEN "valid" ELSE s.magic[cg]]
             /\ r.used = s.used \cup UNION {Reserved(cg) : cg \in P}
<1> DEFINE P == {cg \in C : s.magic[cg] = "pristine"}
<1>1. CASE P = {}
  <2>1. read_allocatable_cgs(s, C) = s  BY <1>1 DEF read_allocatable_cgs
  <2>2. s.magic = [cg \in CG |-> s.magic[cg]]  BY DEF AllocState
  <2> QED  BY <1>1, <2>1, <2>2
<1>2. CASE P # {}
  <2>1. read_allocatable_cgs(s, C) = initialize_pristine_cgs(s, P)
    BY <1>2 DEF read_allocatable_cgs
  <2>2. P \in SUBSET CG  OBVIOUS
  <2> HIDE DEF P
  <2>3. QED  BY <2>1, <2>2, InitializePristine DEF P
<1> QED  BY <1>1, <1>2

----------------------------------------------------------------------------
(* Searching for room.                                                     *)

\* The free fragments of a group depend on no other group.
LEMMA GroupFree ==
  ASSUME NEW s \in AllocState, NEW C \in SUBSET CG, NEW cg \in CG
  PROVE  LET r == read_allocatable_cgs(s, C)
         IN  r.free \cap DataFrags[cg] =
               IF cg \in C /\ s.magic[cg] = "pristine" THEN DataFrags[cg]
               ELSE s.free \cap DataFrags[cg]
<1> DEFINE r == read_allocatable_cgs(s, C)
           P == {c \in C : s.magic[c] = "pristine"}
<1>1. r.free = s.free \cup UNION {DataFrags[c] : c \in P}  BY ReadAllocatable
<1>2. \A c \in CG : \A f \in DataFrags[c] \cap DataFrags[cg] : c = cg
  <2> SUFFICES ASSUME NEW c \in CG, NEW f \in DataFrags[c], f \in DataFrags[cg]
               PROVE  c = cg
    OBVIOUS
  <2> QED  BY FragGroup
<1> HIDE DEF r
<1> QED  BY <1>1, <1>2 DEF r

\* A search finds room exactly when some group has it once laid out; what it
\* finds it has made allocatable, and a group it makes allocatable on the way
\* has the room it will have.
LEMMA SearchBlocks ==
  ASSUME NEW st \in AllocState, NEW start \in CG
  PROVE  LET s == Search(st, start, BlockRoom)
         IN  /\ s.cg \in CG
             /\ \E V \in SUBSET CG : s.a = read_allocatable_cgs(st, V)
             /\ s.found => s.a.magic[s.cg] = "valid" /\ FreeBlocks(s.a, s.cg) # {}
             /\ s.found <=> \E cg \in CG : BlockRoom(read_allocatable_cgs(st, CG), cg)
<1> DEFINE ready == read_allocatable_cgs(st, CG)
           hits  == {k \in 0 .. NCG - 1 : BlockRoom(ready, Visit(start, k))}
           stop  == IF hits = {} THEN NCG - 1 ELSE Min(hits)
           V     == {Visit(start, k) : k \in 0 .. stop}
           s     == Search(st, start, BlockRoom)
           cg    == Visit(start, stop)
<1>1. hits \subseteq Nat /\ NCG - 1 \in Nat  BY GeometryAssumption
<1>2. stop \in Nat /\ stop <= NCG - 1 /\ (hits # {} => stop \in hits)
  <2> HIDE DEF hits
  <2>1. CASE hits = {}  BY <1>1, <2>1
  <2>2. CASE hits # {}
    <3>1. Min(hits) \in hits  BY <1>1, <2>2, MinInSet
    <3> QED  BY <1>1, <2>2, <3>1 DEF hits
  <2> QED  BY <2>1, <2>2
<1>3. s = [found |-> hits # {}, cg |-> cg, a |-> read_allocatable_cgs(st, V)]
  BY DEF Search
<1>4. hits # {} => BlockRoom(ready, cg)  BY <1>2
<1>4a. hits # {} <=> \E c \in CG : BlockRoom(ready, c)
  <2>1. ASSUME NEW c \in CG, BlockRoom(ready, c)  PROVE hits # {}
    <3>1. PICK k \in 0 .. NCG - 1 : Visit(start, k) = c  BY VisitOnto
    <3>2. k \in hits  BY <2>1, <3>1
    <3> QED  BY <3>2
  <2>2. hits # {} => \E c \in CG : BlockRoom(ready, c)
    <3>1. \A k \in 0 .. NCG - 1 : Visit(start, k) \in CG  BY VisitType
    <3> QED  BY <3>1
  <2> QED  BY <2>1, <2>2
<1> HIDE DEF stop, hits, s
<1>5. V \in SUBSET CG /\ cg \in V /\ cg \in CG  BY <1>2, VisitType
<1> HIDE DEF V, cg
<1>6. ASSUME BlockRoom(ready, cg)
      PROVE  /\ read_allocatable_cgs(st, V).magic[cg] = "valid"
             /\ FreeBlocks(read_allocatable_cgs(st, V), cg) # {}
  <2> DEFINE u == read_allocatable_cgs(st, V)
  <2>1. ready.magic[cg] = "valid" /\ FreeBlocks(ready, cg) # {}
    BY <1>6 DEF BlockRoom
  <2>2. u.magic[cg] = ready.magic[cg]
    <3>1. u.magic = [c \in CG |-> IF c \in {d \in V : st.magic[d] = "pristine"}
                                 THEN "valid" ELSE st.magic[c]]
      BY <1>5, ReadAllocatable
    <3>2. ready.magic = [c \in CG |-> IF c \in {d \in CG : st.magic[d] = "pristine"}
                                     THEN "valid" ELSE st.magic[c]]
      BY ReadAllocatable
    <3> HIDE DEF u, ready
    <3> QED  BY <1>5, <3>1, <3>2
  <2>3. u.free \cap DataFrags[cg] = ready.free \cap DataFrags[cg]
    BY <1>5, GroupFree
  <2>4. PICK b \in DataBlocks[cg] : Run(b, Frag) \subseteq ready.free
    BY <2>1 DEF FreeBlocks, BlockFree
  <2>5. Run(b, Frag) \subseteq DataFrags[cg]  BY <1>5, <2>4, BlockInGroup
  <2>6. Run(b, Frag) \subseteq u.free  BY <2>3, <2>4, <2>5
  <2> QED  BY <2>1, <2>2, <2>4, <2>6 DEF FreeBlocks, BlockFree
<1>7. s.cg = cg /\ s.a = read_allocatable_cgs(st, V)  BY <1>3
<1>8. s.found <=> hits # {}  BY <1>3
<1> QED  BY <1>4, <1>4a, <1>5, <1>6, <1>7, <1>8, Zenon DEF s

\* The same for the search of allocate_inode.
LEMMA SearchInodes ==
  ASSUME NEW st \in AllocState, NEW start \in CG
  PROVE  LET s == Search(st, start, InodeRoom)
         IN  /\ s.cg \in CG
             /\ \E V \in SUBSET CG : s.a = read_allocatable_cgs(st, V)
             /\ s.found => s.a.magic[s.cg] = "valid" /\ FreeInodes(s.a, s.cg) # {}
             /\ s.found <=> \E cg \in CG : InodeRoom(read_allocatable_cgs(st, CG), cg)
<1> DEFINE ready == read_allocatable_cgs(st, CG)
           hits  == {k \in 0 .. NCG - 1 : InodeRoom(ready, Visit(start, k))}
           stop  == IF hits = {} THEN NCG - 1 ELSE Min(hits)
           V     == {Visit(start, k) : k \in 0 .. stop}
           s     == Search(st, start, InodeRoom)
           cg    == Visit(start, stop)
<1>1. hits \subseteq Nat /\ NCG - 1 \in Nat  BY GeometryAssumption
<1>2. stop \in Nat /\ stop <= NCG - 1 /\ (hits # {} => stop \in hits)
  <2> HIDE DEF hits
  <2>1. CASE hits = {}  BY <1>1, <2>1
  <2>2. CASE hits # {}
    <3>1. Min(hits) \in hits  BY <1>1, <2>2, MinInSet
    <3> QED  BY <1>1, <2>2, <3>1 DEF hits
  <2> QED  BY <2>1, <2>2
<1>3. s = [found |-> hits # {}, cg |-> cg, a |-> read_allocatable_cgs(st, V)]
  BY DEF Search
<1>4. hits # {} => InodeRoom(ready, cg)  BY <1>2
<1>4a. hits # {} <=> \E c \in CG : InodeRoom(ready, c)
  <2>1. ASSUME NEW c \in CG, InodeRoom(ready, c)  PROVE hits # {}
    <3>1. PICK k \in 0 .. NCG - 1 : Visit(start, k) = c  BY VisitOnto
    <3>2. k \in hits  BY <2>1, <3>1
    <3> QED  BY <3>2
  <2>2. hits # {} => \E c \in CG : InodeRoom(ready, c)
    <3>1. \A k \in 0 .. NCG - 1 : Visit(start, k) \in CG  BY VisitType
    <3> QED  BY <3>1
  <2> QED  BY <2>1, <2>2
<1> HIDE DEF stop, hits, s
<1>5. V \in SUBSET CG /\ cg \in V /\ cg \in CG  BY <1>2, VisitType
<1> HIDE DEF V, cg
<1>6. read_allocatable_cgs(st, V).used \subseteq ready.used
  <2>1. read_allocatable_cgs(st, V).used =
          st.used \cup UNION {Reserved(c) : c \in {d \in V : st.magic[d] = "pristine"}}
    BY <1>5, ReadAllocatable
  <2>2. ready.used =
          st.used \cup UNION {Reserved(c) : c \in {d \in CG : st.magic[d] = "pristine"}}
    BY ReadAllocatable
  <2> QED  BY <1>5, <2>1, <2>2
<1>6a. read_allocatable_cgs(st, V).magic[cg] = ready.magic[cg]
  <2> DEFINE u == read_allocatable_cgs(st, V)
  <2>1. u.magic = [c \in CG |-> IF c \in {d \in V : st.magic[d] = "pristine"}
                               THEN "valid" ELSE st.magic[c]]
    BY <1>5, ReadAllocatable
  <2>2. ready.magic = [c \in CG |-> IF c \in {d \in CG : st.magic[d] = "pristine"}
                                   THEN "valid" ELSE st.magic[c]]
    BY ReadAllocatable
  <2> HIDE DEF u, ready
  <2>3. u.magic[cg] = ready.magic[cg]  BY <1>5, <2>1, <2>2
  <2> QED  BY <2>3 DEF u
<1>7. InodeRoom(ready, cg) => /\ read_allocatable_cgs(st, V).magic[cg] = "valid"
                              /\ FreeInodes(read_allocatable_cgs(st, V), cg) # {}
  BY <1>6, <1>6a DEF InodeRoom, FreeInodes
<1>8. s.cg = cg /\ s.a = read_allocatable_cgs(st, V)  BY <1>3
<1>9. s.found <=> hits # {}  BY <1>3
<1> QED  BY <1>4, <1>4a, <1>5, <1>7, <1>8, <1>9, Zenon DEF s

----------------------------------------------------------------------------
(* The primitives: the type of what they return, and what they do to the   *)
(* bitmap and the headers.                                                 *)

\* The rotor finds an inode when the group has one.
LEMMA ChooseInodeFree ==
  ASSUME NEW s \in AllocState, NEW cg \in CG, NEW start, NEW pref,
         FreeInodes(s, cg) # {}
  PROVE  ChooseInode(s, cg, start, pref) \in FreeInodes(s, cg)
<1> DEFINE F == FreeInodes(s, cg)
           dist(i) == (LocalInode(i) - s.irotor[cg]) % IPG
           D == {dist(i) : i \in F}
<1>1. \A i \in F : dist(i) \in Nat
  <2> SUFFICES ASSUME NEW i \in F  PROVE dist(i) \in Nat  OBVIOUS
  <2>1. i \in Int
    BY GeometryAssumption DEF FreeInodes, InodesOf, Inode
  <2>2. LocalInode(i) \in Int  BY <2>1, ModType, GeometryAssumption DEF LocalInode
  <2>3. s.irotor[cg] \in Int  BY GeometryAssumption DEF AllocState
  <2> DEFINE x == LocalInode(i) - s.irotor[cg]
  <2>4. x \in Int  BY <2>2, <2>3
  <2> HIDE DEF x
  <2>5. x % IPG \in 0 .. IPG - 1  BY <2>4, ModType, GeometryAssumption
  <2>6. x % IPG \in Nat  BY <2>5, GeometryAssumption
  <2> QED  BY <2>6 DEF x
<1> HIDE DEF dist, F
<1>2. D \subseteq Nat /\ D # {}  BY <1>1 DEF F
<1>3. Min(D) \in D /\ \A y \in D : Min(D) <= y  BY <1>2, MinInSet
<1>4. PICK i \in F : dist(i) = Min(D)  BY <1>3
<1>5. \A j \in F : dist(i) <= dist(j)  BY <1>3, <1>4
<1>6. (CHOOSE k \in F : \A j \in F : dist(k) <= dist(j)) \in F  BY <1>5
<1> QED  BY <1>6 DEF ChooseInode, dist, F

\* allocate_inode returns a well-formed state and an inode, and touches the
\* fragment bitmap only by laying groups out.
LEMMA AllocateInodeFacts ==
  ASSUME NEW s \in AllocState, NEW pref \in Inode \cup {NoInode},
         NEW directory \in BOOLEAN
  PROVE  LET r == allocate_inode(s, pref, directory)
         IN  /\ r.a \in AllocState /\ (r.ok => r.ino \in Inode)
             /\ \E V \in SUBSET CG : /\ r.a.free = read_allocatable_cgs(s, V).free
                                     /\ r.a.magic = read_allocatable_cgs(s, V).magic
<1> DEFINE r == allocate_inode(s, pref, directory)
           start == IF pref = NoInode THEN 0 ELSE itog(pref)
           f == Search(s, start, InodeRoom)
           u == f.a
           c == f.cg
           i == ChooseInode(f.a, f.cg, start, pref)
           d == IF directory THEN 1 ELSE 0
           t == [u EXCEPT !.used = @ \cup {i},
                          !.irotor[c] = LocalInode(i),
                          !.nifree[c] = Adjust(@, -1),
                          !.ndir[c] = Adjust(@, d),
                          !.total.nifree = Adjust(@, -1),
                          !.total.ndir = Adjust(@, d)]
<1>1. start \in CG
  BY ItogType, FirstBlock DEF NoInode, Inode
<1> HIDE DEF start
<1>2. /\ c \in CG /\ (f.found => FreeInodes(u, c) # {})
      /\ \E V \in SUBSET CG : u = read_allocatable_cgs(s, V)
  BY <1>1, SearchInodes
<1>3. PICK V \in SUBSET CG : u = read_allocatable_cgs(s, V)  BY <1>2
<1>4. u \in AllocState
  <2>1. read_allocatable_cgs(s, V) \in AllocState  BY ReadAllocatable
  <2> QED  BY <1>3, <2>1
<1>5. r = IF ~f.found THEN [ok |-> FALSE, ino |-> NoInode, a |-> u]
          ELSE [ok |-> TRUE, ino |-> i, a |-> t]
  BY DEF allocate_inode, start
<1> HIDE DEF r, f
<1>6. CASE ~f.found
  <2>1. r.a = u /\ r.ok = FALSE  BY <1>5, <1>6
  <2> QED  BY <1>3, <1>4, <2>1 DEF r
<1>7. CASE f.found
  <2>1. i \in FreeInodes(u, c)  BY <1>2, <1>4, <1>7, ChooseInodeFree
  <2>2. i \in Inode  BY <1>2, <2>1 DEF FreeInodes, InodesOf
  <2>3. i \in Int  BY <2>2, GeometryAssumption DEF Inode
  <2> HIDE DEF u, c, i, d
  <2>3a. LocalInode(i) \in 0 .. IPG - 1
    BY <2>3, ModType, GeometryAssumption DEF LocalInode
  <2>4. d \in Int /\ -1 \in Int  BY DEF d
  <2>5. /\ Adjust(u.nifree[c], -1) \in Count /\ Adjust(u.ndir[c], d) \in Count
        /\ Adjust(u.total.nifree, -1) \in Count /\ Adjust(u.total.ndir, d) \in Count
    BY <1>2, <1>4, <2>4, AdjustType DEF AllocState
  <2>6. t \in AllocState /\ t.free = u.free /\ t.magic = u.magic
    BY <1>2, <1>4, <2>2, <2>3a, <2>5 DEF AllocState
  <2> HIDE DEF t
  <2>7. r.a = t /\ r.ino = i  BY <1>5, <1>7
  <2> QED  BY <1>3, <2>2, <2>6, <2>7 DEF r
<1> QED  BY <1>6, <1>7

\* free_inode leaves the fragment bitmap and the headers alone.
LEMMA FreeInodeFacts ==
  ASSUME NEW s \in AllocState, NEW ino \in Inode, NEW directory \in BOOLEAN
  PROVE  LET r == free_inode(s, ino, directory)
         IN  /\ r.a \in AllocState
             /\ r.a.free = s.free /\ r.a.magic = s.magic
<1> DEFINE r == free_inode(s, ino, directory)
           c == itog(ino)
           d == IF directory THEN -1 ELSE 0
           t == [s EXCEPT !.used = @ \ {ino},
                          !.nifree[c] = Adjust(@, 1),
                          !.ndir[c] = Adjust(@, d),
                          !.total.nifree = Adjust(@, 1),
                          !.total.ndir = Adjust(@, d)]
<1>1. c \in CG  BY ItogType
<1>2. r.a = s \/ r.a = t  BY DEF free_inode
<1> HIDE DEF r, c, d
<1>3. d \in Int  BY DEF d
<1>4. /\ Adjust(s.nifree[c], 1) \in Count /\ Adjust(s.ndir[c], d) \in Count
      /\ Adjust(s.total.nifree, 1) \in Count /\ Adjust(s.total.ndir, d) \in Count
  BY <1>1, <1>3, AdjustType DEF AllocState
<1>5. t \in AllocState /\ t.free = s.free /\ t.magic = s.magic
  BY <1>1, <1>4 DEF AllocState
<1> QED  BY <1>2, <1>5 DEF r

\* What an allocation takes: the first n fragments of a block that was free
\* once the visited groups were laid out.
LEMMA TakeRunFacts ==
  ASSUME NEW s \in AllocState, NEW ino \in Inode, NEW n \in 1 .. Frag
  PROVE  LET r == TakeRun(s, ino, n)
         IN  /\ r.a \in AllocState /\ r.ok \in BOOLEAN
             /\ \E V \in SUBSET CG :
                  LET u == read_allocatable_cgs(s, V)
                  IN  /\ ~r.ok => r.a = u
                      /\ r.ok => /\ r.blk \in Block
                                 /\ u.magic[dtog(r.blk)] = "valid"
                                 /\ Run(r.blk, Frag) \subseteq u.free
                                 /\ r.a.free = u.free \ Run(r.blk, n)
                                 /\ r.a.magic = u.magic
<1> DEFINE r == TakeRun(s, ino, n)
           f == Search(s, itog(ino), BlockRoom)
           u == f.a
           c == f.cg
           b == Min(FreeBlocks(u, c))
           t == [u EXCEPT !.free = @ \ Run(b, n),
                          !.nbfree[c] = Adjust(@, -1),
                          !.total.nbfree = Adjust(@, -1)]
<1>1. /\ c \in CG
      /\ f.found => u.magic[c] = "valid" /\ FreeBlocks(u, c) # {}
      /\ \E V \in SUBSET CG : u = read_allocatable_cgs(s, V)
  BY ItogType, SearchBlocks
<1>2. PICK V \in SUBSET CG : u = read_allocatable_cgs(s, V)  BY <1>1
<1>3. u \in AllocState
  <2>1. read_allocatable_cgs(s, V) \in AllocState  BY ReadAllocatable
  <2> QED  BY <1>2, <2>1
<1>4. r = IF ~f.found THEN [ok |-> FALSE, blk |-> NoBlock, a |-> u]
          ELSE [ok |-> TRUE, blk |-> b, a |-> t]
  BY DEF TakeRun
<1> HIDE DEF r, f, u, c
<1>5. CASE ~f.found
  <2>1. r.a = u /\ r.ok = FALSE  BY <1>4, <1>5
  <2> QED  BY <1>2, <1>3, <2>1, Zenon DEF r
<1>6. CASE f.found
  <2>1. FreeBlocks(u, c) \subseteq Nat
    BY <1>1, BlockInGroup DEF FreeBlocks
  <2>2. b \in FreeBlocks(u, c)  BY <1>1, <1>6, <2>1, MinInSet
  <2> HIDE DEF b
  <2>3. b \in DataBlocks[c] /\ Run(b, Frag) \subseteq u.free
    BY <2>2 DEF FreeBlocks, BlockFree
  <2>4. b \in Block /\ dtog(b) = c  BY <1>1, <2>3, BlockInGroup
  <2>5. Adjust(u.nbfree[c], -1) \in Count /\ Adjust(u.total.nbfree, -1) \in Count
    <3>1. -1 \in Int  OBVIOUS
    <3> QED  BY <1>1, <1>3, <3>1, AdjustType DEF AllocState
  <2>6. t \in AllocState /\ t.free = u.free \ Run(b, n) /\ t.magic = u.magic
    BY <1>1, <1>3, <2>5 DEF AllocState
  <2> HIDE DEF t
  <2>7. r.a = t /\ r.blk = b /\ r.ok = TRUE  BY <1>4, <1>6
  <2>8. u.magic[dtog(b)] = "valid"  BY <1>1, <1>6, <2>4
  <2> QED  BY <1>2, <2>3, <2>4, <2>6, <2>7, <2>8, Zenon DEF r
<1> QED  BY <1>5, <1>6

\* Freeing releases exactly the run, in a group that is laid out.
LEMMA FreeAllocationFacts ==
  ASSUME NEW s \in AllocState, NEW b \in Block, NEW n \in 1 .. Frag
  PROVE  LET r == free_allocation(s, b, n)
         IN  /\ r.a \in AllocState /\ r.a.magic = s.magic
             /\ ~r.ok => r.a = s
             /\ r.ok => r.a.free = s.free \cup Run(b, n)
             /\ r.ok <=> s.magic[dtog(b)] = "valid"
<1> DEFINE r == free_allocation(s, b, n)
           c == dtog(b)
           t == [s EXCEPT !.free = s.free \cup Run(b, n)]
           w == [t EXCEPT !.nbfree[c] = Adjust(@, 1),
                          !.total.nbfree = Adjust(@, 1)]
<1>1. c \in CG /\ b \in Nat /\ Run(b, Frag) \subseteq AllDataFrags
  BY BlockGroup
<1>2. Run(b, n) \subseteq AllDataFrags
  BY <1>1, GeometryAssumption DEF Run
<1>3. t \in AllocState /\ t.free = s.free \cup Run(b, n) /\ t.magic = s.magic
  BY <1>2 DEF AllocState
<1> HIDE DEF c
<1>4. w \in AllocState /\ w.free = t.free /\ w.magic = t.magic
  <2> HIDE DEF t
  <2>1. Adjust(t.nbfree[c], 1) \in Count /\ Adjust(t.total.nbfree, 1) \in Count
    BY <1>1, <1>3, AdjustType DEF AllocState
  <2> QED  BY <1>1, <1>3, <2>1 DEF AllocState
<1>5. /\ s.magic[c] # "valid" => r = [ok |-> FALSE, a |-> s]
      /\ s.magic[c] = "valid" => \/ r = [ok |-> TRUE, a |-> t]
                                 \/ r = [ok |-> TRUE, a |-> w]
  <2>1. n > 0  BY GeometryAssumption
  <2>2. CASE n = Frag
    BY <2>1, <2>2 DEF free_allocation, free_block, c
  <2>3. CASE n # Frag
    <3>1. r = free_fragments(s, b, n)  BY <2>1, <2>3 DEF free_allocation
    <3>2. r = IF s.magic[c] # "valid" THEN [ok |-> FALSE, a |-> s]
              ELSE [ok |-> TRUE,
                    a |-> IF BlockFree(t, BlockBase(b)) THEN w ELSE t]
      BY <3>1, Zenon DEF free_fragments, c
    <3> HIDE DEF r, t, w
    <3>3. CASE BlockFree(t, BlockBase(b))  BY <3>2, <3>3
    <3>4. CASE ~BlockFree(t, BlockBase(b))  BY <3>2, <3>4
    <3> QED  BY <3>3, <3>4
  <2> QED  BY <2>2, <2>3
<1> HIDE DEF r, t, w
<1>6. CASE s.magic[c] # "valid"
  <2>1. r.a = s /\ r.ok = FALSE  BY <1>5, <1>6
  <2> QED  BY <1>6, <2>1, Zenon DEF r, c
<1>7. CASE s.magic[c] = "valid"
  <2>1. r.ok = TRUE /\ (r.a = t \/ r.a = w)  BY <1>5, <1>7
  <2> QED  BY <1>3, <1>4, <1>7, <2>1, Zenon DEF r, c
<1> QED  BY <1>6, <1>7

\* Every count of a recount is an integer, for a group and for the volume.
LEMMA RecountTypes ==
  ASSUME NEW s \in AllocState, NEW D \in SUBSET Inode
  PROVE  /\ \A cg \in CG : /\ Cardinality(FreeBlocks(s, cg)) \in Int
                           /\ Cardinality(LooseFrags(s, cg)) \in Int
                           /\ CountInodes(s, cg) \in Int
                           /\ CountDirs(s, cg, D) \in Int
         /\ SumOfCounts(s, D) \in
              [nbfree : Count, nifree : Count, nffree : Count, ndir : Count]
<1>1. \A cg \in CG : /\ FreeBlocks(s, cg) \in SUBSET AllDataFrags
                     /\ LooseFrags(s, cg) \in SUBSET AllDataFrags
  BY DEF FreeBlocks, LooseFrags, DataBlocks, AllDataFrags
<1>2. s.used \in SUBSET Inode  BY DEF AllocState
<1>3. \A cg \in CG : /\ Cardinality(FreeBlocks(s, cg)) \in Int
                     /\ Cardinality(LooseFrags(s, cg)) \in Int
  BY <1>1, FiniteCounts
<1>4. ASSUME NEW cg \in CG
      PROVE  CountInodes(s, cg) \in Int /\ CountDirs(s, cg, D) \in Int
  <2>1. /\ (s.used \cap InodesOf[cg]) \ Reserved(cg) \in SUBSET Inode
        /\ (s.used \cap InodesOf[cg] \cap D) \ Reserved(cg) \in SUBSET Inode
    BY <1>2
  <2>2. /\ Cardinality((s.used \cap InodesOf[cg]) \ Reserved(cg)) \in Nat
        /\ Cardinality((s.used \cap InodesOf[cg] \cap D) \ Reserved(cg)) \in Nat
    BY <2>1, FiniteCounts
  <2> QED  BY <2>2, ReservedType, GeometryAssumption DEF CountInodes, CountDirs
<1>5. /\ UNION {FreeBlocks(s, cg) : cg \in CG} \in SUBSET AllDataFrags
      /\ UNION {LooseFrags(s, cg) : cg \in CG} \in SUBSET AllDataFrags
      /\ Inode \ (s.used \cup ReservedInodes) \in SUBSET Inode
      /\ (s.used \cap D) \ ReservedInodes \in SUBSET Inode
  BY <1>1, <1>2
<1>6. /\ Cardinality(UNION {FreeBlocks(s, cg) : cg \in CG}) \in Int
      /\ Cardinality(UNION {LooseFrags(s, cg) : cg \in CG}) \in Int
      /\ Cardinality(Inode \ (s.used \cup ReservedInodes)) \in Int
      /\ Cardinality((s.used \cap D) \ ReservedInodes) \in Int
  BY <1>5, FiniteCounts
<1>7. /\ Cardinality(UNION {FreeBlocks(s, cg) : cg \in CG}) % CountMod \in Count
      /\ Cardinality(UNION {LooseFrags(s, cg) : cg \in CG}) % CountMod \in Count
      /\ Cardinality(Inode \ (s.used \cup ReservedInodes)) % CountMod \in Count
      /\ Cardinality((s.used \cap D) \ ReservedInodes) % CountMod \in Count
  BY <1>6, CountType
<1> QED  BY <1>3, <1>4, <1>7 DEF SumOfCounts

\* A recount lays groups out and rewrites counts; it moves no bit.
LEMMA RecomputeFacts ==
  ASSUME NEW s \in AllocState, NEW D \in SUBSET Inode
  PROVE  LET r == recompute_summary_counts(s, D)
         IN  /\ r.a \in AllocState
             /\ \E V \in SUBSET CG :
                  /\ r.a.free = read_allocatable_cgs(s, V).free
                  /\ r.a.magic = read_allocatable_cgs(s, V).magic
<1> DEFINE bad  == {cg \in CG : s.magic[cg] = "bad"}
           done == IF bad = {} THEN CG ELSE 0 .. Min(bad) - 1
           u    == read_allocatable_cgs(s, done)
           nb   == [cg \in CG |-> IF cg \in done
                      THEN Cardinality(FreeBlocks(u, cg)) % CountMod ELSE u.nbfree[cg]]
           ni   == [cg \in CG |-> IF cg \in done
                      THEN CountInodes(u, cg) % CountMod ELSE u.nifree[cg]]
           nf   == [cg \in CG |-> IF cg \in done
                      THEN Cardinality(LooseFrags(u, cg)) % CountMod ELSE u.nffree[cg]]
           nd   == [cg \in CG |-> IF cg \in done
                      THEN CountDirs(u, cg, D) % CountMod ELSE u.ndir[cg]]
           t    == [u EXCEPT !.nbfree = nb, !.nifree = ni,
                             !.nffree = nf, !.ndir = nd]
           w    == [t EXCEPT !.total = SumOfCounts(u, D)]
           r    == recompute_summary_counts(s, D)
<1>1. done \in SUBSET CG
  <2>1. CASE bad = {}  BY <2>1
  <2>2. CASE bad # {}
    <3>1. bad \subseteq Nat  BY DEF CG
    <3> HIDE DEF bad
    <3>2. Min(bad) \in bad  BY <2>2, <3>1, MinInSet
    <3>3. Min(bad) \in CG  BY <3>2 DEF bad
    <3> HIDE DEF CG
    <3>4. 0 .. Min(bad) - 1 \subseteq CG  BY <3>3, GeometryAssumption DEF CG
    <3> QED  BY <2>2, <3>4
  <2> QED  BY <2>1, <2>2
<1>2. u \in AllocState  BY <1>1, ReadAllocatable
<1>3. r.a = t \/ r.a = w
  BY Zenon DEF recompute_summary_counts, Recount
<1> HIDE DEF done, u, r
<1>4. /\ nb \in [CG -> Count] /\ ni \in [CG -> Count]
      /\ nf \in [CG -> Count] /\ nd \in [CG -> Count]
  BY <1>2, RecountTypes, CountType DEF AllocState
<1>5. SumOfCounts(u, D) \in
        [nbfree : Count, nifree : Count, nffree : Count, ndir : Count]
  BY <1>2, RecountTypes
<1> HIDE DEF nb, ni, nf, nd
<1>6. t \in AllocState /\ t.free = u.free /\ t.magic = u.magic
  BY <1>2, <1>4 DEF AllocState
<1> HIDE DEF t
<1>7. w \in AllocState /\ w.free = u.free /\ w.magic = u.magic
  BY <1>5, <1>6 DEF AllocState
<1> HIDE DEF w
<1>8. r.a \in AllocState /\ r.a.free = u.free /\ r.a.magic = u.magic
  BY <1>3, <1>6, <1>7
<1> QED  BY <1>1, <1>8 DEF u, r

----------------------------------------------------------------------------
(* The bitmap and what is held of it.                                      *)

\* HeldExact, of any allocation state and any record of what is held.
HeldOK(s, h) ==
  \A b \in Block :
    /\ s.magic[dtog(b)] = "valid" => Run(b, Frag) \ s.free = Run(b, h[b])
    /\ h[b] > 0 => s.magic[dtog(b)] = "valid"

\* Laying out a group frees nothing that is held: nothing is held of a group
\* that was never written.
LEMMA LayoutKeepsHeld ==
  ASSUME NEW s \in AllocState, NEW h \in [Block -> 0 .. Frag], HeldOK(s, h),
         NEW V \in SUBSET CG, NEW u \in AllocState,
         u.free = read_allocatable_cgs(s, V).free,
         u.magic = read_allocatable_cgs(s, V).magic
  PROVE  HeldOK(u, h)
<1> SUFFICES ASSUME NEW b \in Block
             PROVE  /\ u.magic[dtog(b)] = "valid" =>
                         Run(b, Frag) \ u.free = Run(b, h[b])
                    /\ h[b] > 0 => u.magic[dtog(b)] = "valid"
  BY DEF HeldOK
<1> DEFINE cg == dtog(b)
<1>1. cg \in CG /\ b \in Nat /\ Run(b, Frag) \subseteq DataFrags[cg]  BY BlockGroup
<1>2. /\ s.magic[cg] = "valid" => Run(b, Frag) \ s.free = Run(b, h[b])
      /\ h[b] > 0 => s.magic[cg] = "valid"
  BY DEF HeldOK
<1>3. u.magic = [c \in CG |-> IF c \in {d \in V : s.magic[d] = "pristine"}
                             THEN "valid" ELSE s.magic[c]]
  BY ReadAllocatable
<1> HIDE DEF cg
<1>4. u.free \cap DataFrags[cg] =
        IF cg \in V /\ s.magic[cg] = "pristine" THEN DataFrags[cg]
        ELSE s.free \cap DataFrags[cg]
  BY <1>1, GroupFree
<1>5. h[b] \in 0 .. Frag  OBVIOUS
<1>6. CASE cg \in V /\ s.magic[cg] = "pristine"
  <2>1. h[b] = 0  BY <1>2, <1>5, <1>6, GeometryAssumption
  <2>2. Run(b, h[b]) = {}  BY <1>1, <2>1 DEF Run
  <2>3. Run(b, Frag) \ u.free = {}  BY <1>1, <1>4, <1>6
  <2> QED  BY <2>1, <2>2, <2>3 DEF cg
<1>7. CASE ~ (cg \in V /\ s.magic[cg] = "pristine")
  <2>1. u.magic[cg] = s.magic[cg]  BY <1>1, <1>3, <1>7
  <2>2. Run(b, Frag) \ u.free = Run(b, Frag) \ s.free  BY <1>1, <1>4, <1>7
  <2> QED  BY <1>2, <2>1, <2>2 DEF cg
<1> QED  BY <1>6, <1>7

\* Taking the first n fragments of a free block keeps the record exact: no
\* other block shares a fragment with it.
LEMMA TakeKeepsHeld ==
  ASSUME NEW s \in AllocState, NEW h \in [Block -> 0 .. Frag], HeldOK(s, h),
         NEW b \in Block, NEW n \in 1 .. Frag, s.magic[dtog(b)] = "valid",
         Run(b, Frag) \subseteq s.free,
         NEW t, t.free = s.free \ Run(b, n), t.magic = s.magic
  PROVE  HeldOK(t, [h EXCEPT ![b] = n])
<1> SUFFICES ASSUME NEW c \in Block
             PROVE  /\ t.magic[dtog(c)] = "valid" =>
                         Run(c, Frag) \ t.free = Run(c, [h EXCEPT ![b] = n][c])
                    /\ [h EXCEPT ![b] = n][c] > 0 => t.magic[dtog(c)] = "valid"
  BY DEF HeldOK
<1>1. b \in Nat  BY BlockGroup
<1>2. Run(b, n) \subseteq Run(b, Frag)  BY <1>1, GeometryAssumption DEF Run
<1>3. CASE c = b  BY <1>2, <1>3
<1>4. CASE c # b
  <2>1. Run(c, Frag) \cap Run(b, Frag) = {}  BY <1>4, BlocksDisjoint
  <2>2. Run(c, Frag) \ t.free = Run(c, Frag) \ s.free  BY <1>2, <2>1
  <2>3. [h EXCEPT ![b] = n][c] = h[c]  BY <1>4
  <2> QED  BY <2>2, <2>3 DEF HeldOK
<1> QED  BY <1>3, <1>4

\* Freeing what is held of a block keeps the record exact.
LEMMA FreeKeepsHeld ==
  ASSUME NEW s \in AllocState, NEW h \in [Block -> 0 .. Frag], HeldOK(s, h),
         NEW b \in Block, s.magic[dtog(b)] = "valid",
         NEW t, t.free = s.free \cup Run(b, h[b]), t.magic = s.magic
  PROVE  HeldOK(t, [h EXCEPT ![b] = 0])
<1> SUFFICES ASSUME NEW c \in Block
             PROVE  /\ t.magic[dtog(c)] = "valid" =>
                         Run(c, Frag) \ t.free = Run(c, [h EXCEPT ![b] = 0][c])
                    /\ [h EXCEPT ![b] = 0][c] > 0 => t.magic[dtog(c)] = "valid"
  BY DEF HeldOK
<1>1. b \in Nat /\ h[b] \in 0 .. Frag  BY BlockGroup
<1>2. Run(b, h[b]) \subseteq Run(b, Frag)  BY <1>1, GeometryAssumption DEF Run
<1>3. CASE c = b
  <2>1. Run(b, Frag) \ s.free = Run(b, h[b])  BY DEF HeldOK
  <2>2. Run(b, Frag) \ t.free = {}  BY <2>1
  <2>3. Run(b, 0) = {}  BY <1>1 DEF Run
  <2> QED  BY <1>3, <2>2, <2>3
<1>4. CASE c # b
  <2>1. Run(c, Frag) \cap Run(b, Frag) = {}  BY <1>4, BlocksDisjoint
  <2>2. Run(c, Frag) \ t.free = Run(c, Frag) \ s.free  BY <1>2, <2>1
  <2>3. [h EXCEPT ![b] = 0][c] = h[c]  BY <1>4
  <2> QED  BY <2>2, <2>3 DEF HeldOK
<1> QED  BY <1>3, <1>4

----------------------------------------------------------------------------
(* A formatted volume.                                                     *)

\* The root directory's fragment is the first of the first group.
LEMMA RootFragment ==
  ASSUME NEW s \in AllocState, s.free = AllDataFrags,
         s.magic = [cg \in CG |-> "valid"]
  PROVE  LET r == allocate_allocation(s, RootInode, 1)
         IN  /\ r.a \in AllocState
             /\ r.a.free = AllDataFrags \ Run(DBlkNo, 1)
             /\ r.a.magic = s.magic
<1> DEFINE f == Search(s, 0, BlockRoom)
           r == TakeRun(s, RootInode, 1)
           t == [f.a EXCEPT !.free = @ \ Run(DBlkNo, 1),
                            !.nbfree[0] = Adjust(@, -1),
                            !.total.nbfree = Adjust(@, -1)]
<1>1. allocate_allocation(s, RootInode, 1) = r
  BY GeometryAssumption DEF allocate_allocation
<1>2. RootInode \in Inode /\ itog(RootInode) = 0
  <2>1. NCG * IPG >= IPG /\ NCG * IPG \in Nat  BY GeometryAssumption
  <2>2. 2 \in Inode  BY <2>1, GeometryAssumption DEF Inode
  <2>3. IPG * 0 <= 2 /\ 2 < IPG * 0 + IPG  BY GeometryAssumption
  <2>4. 2 \div IPG = 0  BY <2>3, DivUnique, GeometryAssumption
  <2> QED  BY <2>2, <2>4 DEF RootInode, itog
<1>3. \A C \in SUBSET CG : read_allocatable_cgs(s, C) = s
  BY DEF read_allocatable_cgs
<1>4. FreeBlocks(s, 0) = DataBlocks[0]
  <2> SUFFICES ASSUME NEW b \in DataBlocks[0]  PROVE Run(b, Frag) \subseteq s.free
    BY DEF FreeBlocks, BlockFree
  <2> QED  BY BlockInGroup, FirstBlock DEF AllDataFrags
<1>5. BlockRoom(s, 0)  BY <1>4, FirstBlock DEF BlockRoom
<1>6. Visit(0, 0) = 0  BY GeometryAssumption DEF Visit
<1>7. f.found = TRUE /\ f.cg = 0 /\ f.a = s
  <2> DEFINE hits == {k \in 0 .. NCG - 1 : BlockRoom(s, Visit(0, k))}
             stop == IF hits = {} THEN NCG - 1 ELSE Min(hits)
             V    == {Visit(0, k) : k \in 0 .. stop}
  <2>1. CG \in SUBSET CG  OBVIOUS
  <2>2. read_allocatable_cgs(s, CG) = s  BY <1>3, <2>1
  <2>3. f = [found |-> hits # {}, cg |-> Visit(0, stop),
             a |-> read_allocatable_cgs(s, V)]
    BY <2>2, Zenon DEF Search
  <2>4. 0 \in hits  BY <1>5, <1>6, GeometryAssumption
  <2>5. hits \subseteq Nat  OBVIOUS
  <2> HIDE DEF hits, f
  <2>6. \A y \in hits : 0 <= y  BY <2>5
  <2>7. Min(hits) = 0  BY <2>4, <2>5, <2>6, MinIs
  <2>8. stop = 0  BY <2>4, <2>7
  <2> HIDE DEF stop
  <2>9. V \in SUBSET CG
    <3>1. V = {0}  BY <1>6, <2>8
    <3> QED  BY <3>1, FirstBlock
  <2>10. f.found = (hits # {}) /\ f.cg = 0 /\ f.a = s
    BY <1>3, <1>6, <2>3, <2>8, <2>9
  <2> QED  BY <2>4, <2>10
<1>8. Min(FreeBlocks(s, 0)) = DBlkNo
  <2> DEFINE B == DataBlocks[0]
  <2>1. B \subseteq Nat /\ B # {}  BY BlockInGroup, FirstBlock
  <2>2. DBlkNo \in B /\ \A b \in B : DBlkNo <= b  BY FirstBlock
  <2> HIDE DEF B
  <2>3. Min(B) = DBlkNo  BY <2>1, <2>2, MinIs
  <2> QED  BY <1>4, <2>3 DEF B
<1>9. r = IF ~f.found THEN [ok |-> FALSE, blk |-> NoBlock, a |-> f.a]
          ELSE [ok |-> TRUE, blk |-> Min(FreeBlocks(f.a, f.cg)),
                a |-> [f.a EXCEPT
                         !.free = @ \ Run(Min(FreeBlocks(f.a, f.cg)), 1),
                         !.nbfree[f.cg] = Adjust(@, -1),
                         !.total.nbfree = Adjust(@, -1)]]
  BY <1>2, Zenon DEF TakeRun
<1> HIDE DEF f, r
<1>10. r.a = t  BY <1>7, <1>8, <1>9
<1>11. 1 \in 1 .. Frag  BY GeometryAssumption
<1>12. r.a \in AllocState  BY <1>2, <1>11, TakeRunFacts DEF r
<1>13. t.free = AllDataFrags \ Run(DBlkNo, 1) /\ t.magic = s.magic
  BY <1>7 DEF AllocState
<1> HIDE DEF t
<1> QED  BY <1>1, <1>10, <1>12, <1>13

\* What format writes, before any group is blanked.
LEMMA FormattedFacts ==
  /\ FormattedAlloc \in AllocState
  /\ FormattedAlloc.free = AllDataFrags \ Run(DBlkNo, 1)
<1> DEFINE laid   == initialize_pristine_cgs(BlankAlloc, CG)
           marked == [laid EXCEPT !.used = @ \cup {RootInode}]
           rooted == allocate_allocation(marked, RootInode, 1).a
           r      == recompute_summary_counts(rooted, {RootInode})
<1>1. BlankAlloc \in AllocState
  <2>1. 0 \in Count /\ 0 \in 0 .. IPG - 1
    BY CountModAssumption, GeometryAssumption DEF Count
  <2> QED  BY <2>1 DEF BlankAlloc, AllocState, Magic
<1>2. /\ laid \in AllocState /\ laid.free = AllDataFrags
      /\ laid.magic = [cg \in CG |-> "valid"]
  <2>1. CG \in SUBSET CG  OBVIOUS
  <2>2. BlankAlloc.free = {}  BY DEF BlankAlloc
  <2>3. /\ laid \in AllocState
        /\ laid.free = BlankAlloc.free \cup UNION {DataFrags[cg] : cg \in CG}
        /\ laid.magic = [cg \in CG |-> IF cg \in CG THEN "valid"
                                       ELSE BlankAlloc.magic[cg]]
    BY <1>1, <2>1, InitializePristine
  <2> HIDE DEF laid
  <2> QED  BY <2>2, <2>3 DEF AllDataFrags
<1>3. RootInode \in Inode
  <2>1. NCG * IPG >= IPG /\ NCG * IPG \in Nat  BY GeometryAssumption
  <2> QED  BY <2>1, GeometryAssumption DEF Inode, RootInode
<1> HIDE DEF laid
<1>4. /\ marked \in AllocState /\ marked.free = AllDataFrags
      /\ marked.magic = [cg \in CG |-> "valid"]
  BY <1>2, <1>3 DEF AllocState
<1> HIDE DEF marked
<1>5. /\ rooted \in AllocState /\ rooted.free = AllDataFrags \ Run(DBlkNo, 1)
      /\ rooted.magic = [cg \in CG |-> "valid"]
  BY <1>4, RootFragment
<1> HIDE DEF rooted
<1>6. \A C \in SUBSET CG : read_allocatable_cgs(rooted, C) = rooted
  BY <1>5 DEF read_allocatable_cgs
<1>7. {RootInode} \in SUBSET Inode  BY <1>3
<1>8. /\ r.a \in AllocState
      /\ \E V \in SUBSET CG : r.a.free = read_allocatable_cgs(rooted, V).free
  BY <1>5, <1>7, RecomputeFacts
<1> HIDE DEF r
<1>9. r.a.free = rooted.free  BY <1>6, <1>8
<1>10. FormattedAlloc = r.a
  BY Zenon DEF FormattedAlloc, r, rooted, marked, laid
<1> QED  BY <1>5, <1>8, <1>9, <1>10

----------------------------------------------------------------------------
(* The specification.                                                      *)

\* TypeOK and HeldExact together are inductive.
Inv == TypeOK /\ HeldOK(a, held)

\* A formatted volume, with any of its later groups blank or damaged.
LEMMA InitInv == Init => Inv
<1> SUFFICES ASSUME Init  PROVE Inv  OBVIOUS
<1>1. PICK magic \in [CG -> InitMagic \cup {"valid"}] :
        magic[0] = "valid" /\ a = Unwritten(FormattedAlloc, magic)
  BY DEF Init
<1> DEFINE F == FormattedAlloc
           C == {cg \in CG : magic[cg] # "valid"}
           lost == UNION {DataFrags[cg] : cg \in C}
           keep(f) == [cg \in CG |-> IF cg \in C THEN 0 ELSE f[cg]]
<1>2. F \in AllocState /\ F.free = AllDataFrags \ Run(DBlkNo, 1)  BY FormattedFacts
<1>3. a = [F EXCEPT !.free = F.free \ lost, !.magic = magic,
                    !.nbfree = keep(F.nbfree), !.nifree = keep(F.nifree),
                    !.nffree = keep(F.nffree), !.ndir = keep(F.ndir)]
  BY <1>1, Zenon DEF Unwritten
<1> HIDE DEF F
<1>4. /\ keep(F.nbfree) \in [CG -> Count] /\ keep(F.nifree) \in [CG -> Count]
      /\ keep(F.nffree) \in [CG -> Count] /\ keep(F.ndir) \in [CG -> Count]
  <2>1. 0 \in Count  BY CountModAssumption DEF Count
  <2> QED  BY <1>2, <2>1 DEF AllocState
<1>5. magic \in [CG -> Magic]  BY <1>1, InitMagicAssumption DEF Magic
<1> HIDE DEF keep, lost
<1>6. /\ a \in AllocState /\ a.magic = magic
      /\ a.free = (AllDataFrags \ Run(DBlkNo, 1)) \ lost
  BY <1>2, <1>3, <1>4, <1>5 DEF AllocState
<1>7. DBlkNo \in Block /\ dtog(DBlkNo) = 0 /\ 0 \in CG
  BY FirstBlock, BlockInGroup
<1>8. held = [b \in Block |-> IF b = DBlkNo THEN 1 ELSE 0] /\ dirs = {RootInode}
  BY DEF Init
<1>9. TypeOK
  <2>1. held \in [Block -> 0 .. Frag]  BY <1>8, GeometryAssumption
  <2>2. NCG * IPG >= IPG /\ NCG * IPG \in Nat  BY GeometryAssumption
  <2>3. dirs \subseteq Inode
    BY <1>8, <2>2, GeometryAssumption DEF Inode, RootInode
  <2> QED  BY <1>6, <2>1, <2>3 DEF TypeOK
<1>10. ASSUME NEW b \in Block
       PROVE  /\ a.magic[dtog(b)] = "valid" =>
                   Run(b, Frag) \ a.free = Run(b, held[b])
              /\ held[b] > 0 => a.magic[dtog(b)] = "valid"
  <2>1. /\ dtog(b) \in CG /\ b \in Nat /\ Run(b, Frag) \subseteq AllDataFrags
        /\ Run(b, Frag) \subseteq DataFrags[dtog(b)]
    BY BlockGroup
  <2>2. magic[dtog(b)] = "valid" => Run(b, Frag) \cap lost = {}
    <3> SUFFICES ASSUME magic[dtog(b)] = "valid",
                        NEW f \in Run(b, Frag), NEW cg \in C, f \in DataFrags[cg]
                 PROVE  FALSE
      BY DEF lost
    <3>1. f \in DataFrags[dtog(b)]  BY <2>1
    <3>2. dtog(f) = dtog(b)  BY <2>1, <3>1, FragGroup
    <3>3. dtog(f) = cg  BY FragGroup
    <3> QED  BY <3>2, <3>3
  <2>3. magic[dtog(b)] = "valid" => Run(b, Frag) \ a.free = Run(b, Frag) \cap Run(DBlkNo, 1)
    BY <1>6, <2>1, <2>2
  <2>4. CASE b = DBlkNo
    <3>1. held[b] = 1  BY <1>8, <2>4
    <3>2. Run(b, 1) \subseteq Run(b, Frag)  BY <2>1, GeometryAssumption DEF Run
    <3>3. a.magic[dtog(b)] = "valid"  BY <1>1, <1>6, <1>7, <2>4
    <3> QED  BY <1>6, <2>3, <2>4, <3>1, <3>2, <3>3
  <2>5. CASE b # DBlkNo
    <3>1. held[b] = 0  BY <1>8, <2>5
    <3>2. Run(b, 0) = {}  BY <2>1 DEF Run
    <3>3. Run(DBlkNo, 1) \subseteq Run(DBlkNo, Frag)  BY GeometryAssumption DEF Run
    <3>4. Run(b, Frag) \cap Run(DBlkNo, Frag) = {}  BY <1>7, <2>5, BlocksDisjoint
    <3> QED  BY <1>6, <2>3, <3>1, <3>2, <3>3, <3>4
  <2> QED  BY <2>4, <2>5
<1> QED  BY <1>9, <1>10 DEF Inv, HeldOK

\* Every call of the allocator, and stuttering.
LEMMA NextInv == Inv /\ [Next]_vars => Inv'
<1> SUFFICES ASSUME Inv, [Next]_vars  PROVE Inv'  OBVIOUS
<1>1. /\ a \in AllocState /\ held \in [Block -> 0 .. Frag] /\ dirs \in SUBSET Inode
      /\ HeldOK(a, held)
  BY DEF Inv, TypeOK
<1>2. ASSUME NEW pref \in Callers \cup {NoInode}, NEW d \in BOOLEAN,
             AllocateInode(pref, d)
      PROVE  Inv'
  <2> DEFINE r == allocate_inode(a, pref, d)
  <2>1. pref \in Inode \cup {NoInode}  BY DEF Callers
  <2>2. /\ r.a \in AllocState /\ (r.ok => r.ino \in Inode)
        /\ \E V \in SUBSET CG : /\ r.a.free = read_allocatable_cgs(a, V).free
                                /\ r.a.magic = read_allocatable_cgs(a, V).magic
    BY <1>1, <2>1, AllocateInodeFacts
  <2>3. HeldOK(r.a, held)  BY <1>1, <2>2, LayoutKeepsHeld
  <2>4. a' = r.a /\ held' = held /\ (dirs' = dirs \/ (r.ok /\ dirs' = dirs \cup {r.ino}))
    BY <1>2, Zenon DEF AllocateInode
  <2> HIDE DEF r
  <2>5. dirs' \subseteq Inode  BY <1>1, <2>2, <2>4
  <2> QED  BY <1>1, <2>2, <2>3, <2>4, <2>5 DEF Inv, TypeOK, HeldOK
<1>3. ASSUME NEW ino \in Callers \ {RootInode}, FreeInode(ino)  PROVE Inv'
  <2> DEFINE r == free_inode(a, ino, ino \in dirs)
  <2>1. ino \in Inode /\ (ino \in dirs) \in BOOLEAN  BY DEF Callers
  <2>2. r.a \in AllocState /\ r.a.free = a.free /\ r.a.magic = a.magic
    BY <1>1, <2>1, FreeInodeFacts
  <2>3. a' = r.a /\ held' = held /\ dirs' \subseteq dirs  BY <1>3 DEF FreeInode
  <2> HIDE DEF r
  <2> QED  BY <1>1, <2>2, <2>3 DEF Inv, TypeOK, HeldOK
<1>4. ASSUME NEW ino \in Callers, NEW n \in 1 .. Frag, Allocate(ino, n)
      PROVE  Inv'
  <2> DEFINE r == TakeRun(a, ino, n)
  <2>1. allocate_allocation(a, ino, n) = r
    BY GeometryAssumption DEF allocate_allocation
  <2>2. ino \in Inode  BY DEF Callers
  <2>3. r.a \in AllocState /\ r.ok \in BOOLEAN  BY <1>1, <2>2, TakeRunFacts
  <2>4. PICK V \in SUBSET CG :
          LET u == read_allocatable_cgs(a, V)
          IN  /\ ~r.ok => r.a = u
              /\ r.ok => /\ r.blk \in Block
                         /\ u.magic[dtog(r.blk)] = "valid"
                         /\ Run(r.blk, Frag) \subseteq u.free
                         /\ r.a.free = u.free \ Run(r.blk, n)
                         /\ r.a.magic = u.magic
    BY <1>1, <2>2, TakeRunFacts
  <2> DEFINE u == read_allocatable_cgs(a, V)
  <2>5. u \in AllocState  BY <1>1, ReadAllocatable
  <2>6. HeldOK(u, held)  BY <1>1, <2>5, LayoutKeepsHeld
  <2>7. /\ a' = r.a /\ dirs' = dirs
        /\ held' = IF r.ok THEN [held EXCEPT ![r.blk] = n] ELSE held
    BY <1>4, <2>1 DEF Allocate
  <2>8. CASE ~r.ok
    <3>1. a' = u /\ held' = held  BY <2>4, <2>7, <2>8
    <3> HIDE DEF u, r
    <3> QED  BY <1>1, <2>5, <2>6, <2>7, <3>1 DEF Inv, TypeOK, HeldOK
  <2>9. CASE r.ok
    <3>1. /\ r.blk \in Block /\ u.magic[dtog(r.blk)] = "valid"
          /\ Run(r.blk, Frag) \subseteq u.free
          /\ r.a.free = u.free \ Run(r.blk, n) /\ r.a.magic = u.magic
      BY <2>4, <2>9
    <3> HIDE DEF u, r
    <3>2. HeldOK(r.a, [held EXCEPT ![r.blk] = n])
      BY <1>1, <2>5, <2>6, <3>1, TakeKeepsHeld
    <3>3. held' = [held EXCEPT ![r.blk] = n]  BY <2>7, <2>9
    <3>4. held' \in [Block -> 0 .. Frag]  BY <1>1, <3>1, <3>3, GeometryAssumption
    <3> QED  BY <1>1, <2>3, <2>7, <3>2, <3>3, <3>4 DEF Inv, TypeOK, HeldOK
  <2> QED  BY <2>8, <2>9
<1>5. ASSUME NEW b \in Block, Free(b)  PROVE Inv'
  <2> DEFINE r == free_allocation(a, b, held[b])
  <2>1. held[b] \in 1 .. Frag
    BY <1>1, <1>5, GeometryAssumption DEF Free
  <2>2. /\ r.a \in AllocState /\ r.a.magic = a.magic
        /\ r.ok => r.a.free = a.free \cup Run(b, held[b])
        /\ r.ok <=> a.magic[dtog(b)] = "valid"
    BY <1>1, <2>1, FreeAllocationFacts
  <2>3. a.magic[dtog(b)] = "valid"  BY <1>1, <2>1, GeometryAssumption DEF HeldOK
  <2>4. a' = r.a /\ dirs' = dirs /\ held' = [held EXCEPT ![b] = 0]
    BY <1>5, <2>2, <2>3 DEF Free
  <2> HIDE DEF r
  <2>5. HeldOK(r.a, [held EXCEPT ![b] = 0])
    BY <1>1, <2>2, <2>3, FreeKeepsHeld
  <2>6. held' \in [Block -> 0 .. Frag]  BY <1>1, <2>4, GeometryAssumption
  <2> QED  BY <1>1, <2>2, <2>4, <2>5, <2>6 DEF Inv, TypeOK, HeldOK
<1>6. ASSUME Recompute  PROVE Inv'
  <2> DEFINE r == recompute_summary_counts(a, dirs)
  <2>1. /\ r.a \in AllocState
        /\ \E V \in SUBSET CG : /\ r.a.free = read_allocatable_cgs(a, V).free
                                /\ r.a.magic = read_allocatable_cgs(a, V).magic
    BY <1>1, RecomputeFacts
  <2>2. HeldOK(r.a, held)  BY <1>1, <2>1, LayoutKeepsHeld
  <2>3. a' = r.a /\ held' = held /\ dirs' = dirs  BY <1>6, Zenon DEF Recompute
  <2> HIDE DEF r
  <2> QED  BY <1>1, <2>1, <2>2, <2>3 DEF Inv, TypeOK, HeldOK
<1>7. CASE UNCHANGED vars  BY <1>1, <1>7 DEF vars, Inv, TypeOK, HeldOK
<1> QED  BY <1>2, <1>3, <1>4, <1>5, <1>6, <1>7 DEF Next

\* The inductive invariant holds throughout.
LEMMA InvAlways == Spec => []Inv
  BY InitInv, NextInv, PTL DEF Spec

\* The allocation state, whatever the geometry and the calls, stays one the
\* declared types can hold: every count fits its u32, every rotor its group,
\* every bit its bitmap.
THEOREM TypeCorrect == Spec => []TypeOK
<1>1. Inv => TypeOK  BY DEF Inv
<1> QED  BY <1>1, InvAlways, PTL

\* No block is handed out twice, leaked, or released with a neighbour, on
\* any volume and after any calls, lazily laid-out and damaged groups
\* included (allocate_block, allocate_fragments, free_allocation).
THEOREM HeldIsExact == Spec => []HeldExact
<1>1. Inv => HeldExact  BY DEF Inv, HeldOK, HeldExact
<1> QED  BY <1>1, InvAlways, PTL

----------------------------------------------------------------------------
(* The allocator implements the pool of BlockPool: cylinder groups, lazy   *)
(* layout, search order and counters are invisible to the callers of       *)
(* allocate_allocation and free_allocation.  The refinement mapping:       *)

\* The fragments of a state that are free to a caller: those of the groups
\* that are not damaged, once every pristine group is laid out.
Avail(s) ==
  UNION {DataFrags[cg] \cap read_allocatable_cgs(s, CG).free :
           cg \in {c \in CG : s.magic[c] # "bad"}}

\* The same, fragment by fragment.
LEMMA AvailIs ==
  ASSUME NEW s \in AllocState
  PROVE  /\ Avail(s) \subseteq AllDataFrags
         /\ \A cg \in CG : \A f \in DataFrags[cg] :
              f \in Avail(s) <=> \/ s.magic[cg] = "pristine"
                                 \/ s.magic[cg] = "valid" /\ f \in s.free
<1> DEFINE u == read_allocatable_cgs(s, CG)
           good == {c \in CG : s.magic[c] # "bad"}
<1>1. Avail(s) = UNION {DataFrags[cg] \cap u.free : cg \in good}
  BY DEF Avail
<1>2. \A cg \in CG : u.free \cap DataFrags[cg] =
        IF s.magic[cg] = "pristine" THEN DataFrags[cg] ELSE s.free \cap DataFrags[cg]
  <2> SUFFICES ASSUME NEW cg \in CG
               PROVE  u.free \cap DataFrags[cg] =
                        IF s.magic[cg] = "pristine" THEN DataFrags[cg]
                        ELSE s.free \cap DataFrags[cg]
    OBVIOUS
  <2>1. CG \in SUBSET CG  OBVIOUS
  <2> QED  BY <2>1, GroupFree
<1> HIDE DEF u
<1>3. \A cg \in CG : s.magic[cg] \in {"valid", "pristine", "bad"}
  BY DEF AllocState, Magic
<1>4. Avail(s) \subseteq AllDataFrags  BY <1>1 DEF AllDataFrags
<1>5. ASSUME NEW cg \in CG, NEW f \in DataFrags[cg]
      PROVE  f \in Avail(s) <=> \/ s.magic[cg] = "pristine"
                                \/ s.magic[cg] = "valid" /\ f \in s.free
  <2>1. f \in Avail(s) <=> cg \in good /\ f \in u.free
    <3>1. \A c \in CG : f \in DataFrags[c] => c = cg  BY FragGroup
    <3> QED  BY <1>1, <3>1
  <2> QED  BY <1>2, <1>3, <2>1
<1> QED  BY <1>4, <1>5

\* Two sets of data fragments are equal when they agree group by group.
LEMMA SameFragments ==
  ASSUME NEW S \in SUBSET AllDataFrags, NEW T \in SUBSET AllDataFrags,
         \A cg \in CG : \A f \in DataFrags[cg] : f \in S <=> f \in T
  PROVE  S = T
  BY DEF AllDataFrags

\* Laying groups out changes nothing a caller can see.
LEMMA LayoutKeepsAvail ==
  ASSUME NEW s \in AllocState, NEW V \in SUBSET CG, NEW t \in AllocState,
         t.free = read_allocatable_cgs(s, V).free,
         t.magic = read_allocatable_cgs(s, V).magic
  PROVE  Avail(t) = Avail(s)
<1>1. t.magic = [c \in CG |-> IF c \in {d \in V : s.magic[d] = "pristine"}
                             THEN "valid" ELSE s.magic[c]]
  BY ReadAllocatable
<1>2. ASSUME NEW cg \in CG, NEW f \in DataFrags[cg]
      PROVE  f \in Avail(t) <=> f \in Avail(s)
  <2>1. t.free \cap DataFrags[cg] =
          IF cg \in V /\ s.magic[cg] = "pristine" THEN DataFrags[cg]
          ELSE s.free \cap DataFrags[cg]
    BY GroupFree
  <2>2. f \in Avail(t) <=> \/ t.magic[cg] = "pristine"
                           \/ t.magic[cg] = "valid" /\ f \in t.free
    BY AvailIs
  <2>3. f \in Avail(s) <=> \/ s.magic[cg] = "pristine"
                           \/ s.magic[cg] = "valid" /\ f \in s.free
    BY AvailIs
  <2> QED  BY <1>1, <2>1, <2>2, <2>3
<1>3. Avail(s) \in SUBSET AllDataFrags /\ Avail(t) \in SUBSET AllDataFrags
  BY AvailIs
<1> QED  BY <1>2, <1>3, SameFragments

\* Marking or releasing a run of a laid-out group is seen exactly as that.
LEMMA RunChangesAvail ==
  ASSUME NEW s \in AllocState, NEW t \in AllocState, t.magic = s.magic,
         NEW b \in Block, s.magic[dtog(b)] = "valid", NEW n \in 0 .. Frag
  PROVE  /\ t.free = s.free \ Run(b, n) => Avail(t) = Avail(s) \ Run(b, n)
         /\ t.free = s.free \cup Run(b, n) => Avail(t) = Avail(s) \cup Run(b, n)
<1>1. /\ dtog(b) \in CG /\ b \in Nat /\ Run(b, Frag) \subseteq DataFrags[dtog(b)]
      /\ Run(b, Frag) \subseteq AllDataFrags
  BY BlockGroup
<1>2. Run(b, n) \subseteq Run(b, Frag)  BY <1>1, GeometryAssumption DEF Run
<1>3. ASSUME NEW cg \in CG, NEW f \in DataFrags[cg]
      PROVE  /\ f \in Run(b, n) => s.magic[cg] = "valid"
             /\ f \in Avail(s) <=> \/ s.magic[cg] = "pristine"
                                   \/ s.magic[cg] = "valid" /\ f \in s.free
             /\ f \in Avail(t) <=> \/ s.magic[cg] = "pristine"
                                   \/ s.magic[cg] = "valid" /\ f \in t.free
  <2>1. f \in Run(b, n) => s.magic[cg] = "valid"
    <3> SUFFICES ASSUME f \in Run(b, n)  PROVE cg = dtog(b)  OBVIOUS
    <3>1. f \in DataFrags[dtog(b)]  BY <1>1, <1>2
    <3> QED  BY <1>1, <3>1, FragGroup
  <2> QED  BY <2>1, AvailIs
<1>4. /\ Avail(t) \in SUBSET AllDataFrags
      /\ Avail(s) \ Run(b, n) \in SUBSET AllDataFrags
      /\ Avail(s) \cup Run(b, n) \in SUBSET AllDataFrags
  BY <1>1, <1>2, AvailIs
<1>5. ASSUME t.free = s.free \ Run(b, n)  PROVE Avail(t) = Avail(s) \ Run(b, n)
  <2>1. \A cg \in CG : \A f \in DataFrags[cg] :
          f \in Avail(t) <=> f \in Avail(s) \ Run(b, n)
    BY <1>3, <1>5
  <2> QED  BY <1>4, <2>1, SameFragments
<1>6. ASSUME t.free = s.free \cup Run(b, n)
      PROVE  Avail(t) = Avail(s) \cup Run(b, n)
  <2>1. \A cg \in CG : \A f \in DataFrags[cg] :
          f \in Avail(t) <=> f \in Avail(s) \cup Run(b, n)
    BY <1>3, <1>6
  <2> QED  BY <1>4, <2>1, SameFragments
<1> QED  BY <1>5, <1>6

----------------------------------------------------------------------------
(* The implementation, step by step.                                       *)

\* The pool's variable avail, in terms of the allocation state.
poolAvail == UNION {DataFrags[cg] \cap Settled.free : cg \in GoodGroups}

\* The refinement mapping is Avail of the current state, before and after
\* a call.
LEMMA PoolAvailIs == poolAvail = Avail(a) /\ poolAvail' = Avail(a')
  BY Zenon DEF poolAvail, Avail, Settled, GoodGroups

\* A volume the allocator can start from is an initial pool.
LEMMA InitPool == Inv => Pool!PoolInit
<1> SUFFICES ASSUME Inv  PROVE Pool!PoolInit  OBVIOUS
<1>1. /\ a \in AllocState /\ held \in [Block -> 0 .. Frag]
      /\ HeldOK(a, held)
  BY DEF Inv, TypeOK
<1>2. poolAvail \subseteq AllDataFrags  BY <1>1, AvailIs, PoolAvailIs
<1>3. ASSUME NEW b \in Block  PROVE Run(b, held[b]) \cap poolAvail = {}
  <2>1. /\ dtog(b) \in CG /\ b \in Nat
        /\ Run(b, Frag) \subseteq DataFrags[dtog(b)]
    BY BlockGroup
  <2>2. CASE held[b] > 0
    <3>1. a.magic[dtog(b)] = "valid" /\ Run(b, Frag) \ a.free = Run(b, held[b])
      BY <1>1, <2>2 DEF HeldOK
    <3>2. \A f \in DataFrags[dtog(b)] : f \in Avail(a) => f \in a.free
      BY <1>1, <2>1, <3>1, AvailIs
    <3> QED  BY <2>1, <3>1, <3>2, PoolAvailIs
  <2>3. CASE ~(held[b] > 0)
    <3>1. held[b] = 0  BY <1>1, <2>3, GeometryAssumption
    <3> QED  BY <2>1, <3>1 DEF Run
  <2> QED  BY <2>2, <2>3
<1> QED  BY <1>1, <1>2, <1>3 DEF Pool!PoolInit, Pool!Fragments, poolAvail, Run

\* Every call is a step of the pool or invisible to it.
LEMMA NextPool == Inv /\ [Next]_vars => [Pool!PoolNext]_(Pool!poolVars)
<1> SUFFICES ASSUME Inv, [Next]_vars
             PROVE  Pool!PoolNext \/ (poolAvail' = poolAvail /\ held' = held)
  BY DEF Pool!poolVars, poolAvail
<1>1. /\ a \in AllocState /\ held \in [Block -> 0 .. Frag] /\ dirs \in SUBSET Inode
      /\ HeldOK(a, held)
  BY DEF Inv, TypeOK
<1>2. ASSUME NEW pref \in Callers \cup {NoInode}, NEW d \in BOOLEAN,
             AllocateInode(pref, d)
      PROVE  poolAvail' = poolAvail /\ held' = held
  <2> DEFINE r == allocate_inode(a, pref, d)
  <2>1. pref \in Inode \cup {NoInode}  BY DEF Callers
  <2>2. /\ r.a \in AllocState
        /\ \E V \in SUBSET CG : /\ r.a.free = read_allocatable_cgs(a, V).free
                                /\ r.a.magic = read_allocatable_cgs(a, V).magic
    BY <1>1, <2>1, AllocateInodeFacts
  <2>3. a' = r.a /\ held' = held  BY <1>2, Zenon DEF AllocateInode
  <2> HIDE DEF r
  <2>4. Avail(a') = Avail(a)  BY <1>1, <2>2, <2>3, LayoutKeepsAvail
  <2> QED  BY <2>3, <2>4, PoolAvailIs
<1>3. ASSUME NEW ino \in Callers \ {RootInode}, FreeInode(ino)
      PROVE  poolAvail' = poolAvail /\ held' = held
  <2> DEFINE r == free_inode(a, ino, ino \in dirs)
  <2>1. ino \in Inode /\ (ino \in dirs) \in BOOLEAN  BY DEF Callers
  <2>2. r.a \in AllocState /\ r.a.free = a.free /\ r.a.magic = a.magic
    BY <1>1, <2>1, FreeInodeFacts
  <2>3. a' = r.a /\ held' = held  BY <1>3 DEF FreeInode
  <2> HIDE DEF r
  <2>4. {} \in SUBSET CG /\ read_allocatable_cgs(a, {}) = a
    BY DEF read_allocatable_cgs
  <2>5. Avail(a') = Avail(a)  BY <1>1, <2>2, <2>3, <2>4, LayoutKeepsAvail
  <2> QED  BY <2>3, <2>5, PoolAvailIs
<1>4. ASSUME NEW ino \in Callers, NEW n \in 1 .. Frag, Allocate(ino, n)
      PROVE  Pool!PoolNext \/ (poolAvail' = poolAvail /\ held' = held)
  <2> DEFINE r == TakeRun(a, ino, n)
  <2>1. allocate_allocation(a, ino, n) = r
    BY GeometryAssumption DEF allocate_allocation
  <2>2. ino \in Inode  BY DEF Callers
  <2>3. r.a \in AllocState /\ r.ok \in BOOLEAN  BY <1>1, <2>2, TakeRunFacts
  <2>4. PICK V \in SUBSET CG :
          LET u == read_allocatable_cgs(a, V)
          IN  /\ ~r.ok => r.a = u
              /\ r.ok => /\ r.blk \in Block
                         /\ u.magic[dtog(r.blk)] = "valid"
                         /\ Run(r.blk, Frag) \subseteq u.free
                         /\ r.a.free = u.free \ Run(r.blk, n)
                         /\ r.a.magic = u.magic
    BY <1>1, <2>2, TakeRunFacts
  <2> DEFINE u == read_allocatable_cgs(a, V)
  <2>5. u \in AllocState  BY <1>1, ReadAllocatable
  <2>6. Avail(u) = Avail(a)  BY <1>1, <2>5, LayoutKeepsAvail
  <2>7. /\ a' = r.a
        /\ held' = IF r.ok THEN [held EXCEPT ![r.blk] = n] ELSE held
    BY <1>4, <2>1 DEF Allocate
  <2>8. CASE ~r.ok
    <3>1. a' = u /\ held' = held  BY <2>4, <2>7, <2>8
    <3> HIDE DEF u, r
    <3> QED  BY <2>6, <3>1, PoolAvailIs
  <2>9. CASE r.ok
    <3>1. /\ r.blk \in Block /\ u.magic[dtog(r.blk)] = "valid"
          /\ Run(r.blk, Frag) \subseteq u.free
          /\ r.a.free = u.free \ Run(r.blk, n) /\ r.a.magic = u.magic
      BY <2>4, <2>9
    <3> HIDE DEF u, r
    <3> DEFINE b == r.blk
    <3>2. held' = [held EXCEPT ![b] = n]  BY <2>7, <2>9
    <3>3. n \in 0 .. Frag  BY GeometryAssumption
    <3>4. Avail(r.a) = Avail(u) \ Run(b, n)
      BY <2>3, <2>5, <3>1, <3>3, RunChangesAvail
    <3>5. poolAvail' = poolAvail \ Run(b, n)
      BY <2>6, <2>7, <3>4, PoolAvailIs
    <3>6. Run(b, Frag) \subseteq poolAvail
      <4>1. dtog(b) \in CG /\ Run(b, Frag) \subseteq DataFrags[dtog(b)]
        BY <3>1, BlockGroup
      <4>2. \A f \in DataFrags[dtog(b)] : f \in u.free => f \in Avail(u)
        BY <2>5, <3>1, <4>1, AvailIs
      <4> QED  BY <2>6, <3>1, <4>1, <4>2, PoolAvailIs
    <3>7. Pool!Take(b, n)
      BY <3>1, <3>2, <3>5, <3>6 DEF Pool!Take, Pool!WhollyFree, Pool!Fragments,
                                    poolAvail, Run
    <3> HIDE DEF b
    <3>8. b \in Block  BY <3>1 DEF b
    <3> QED  BY <3>7, <3>8 DEF Pool!PoolNext
  <2> QED  BY <2>8, <2>9
<1>5. ASSUME NEW b \in Block, Free(b)  PROVE Pool!PoolNext
  <2> DEFINE r == free_allocation(a, b, held[b])
  <2>1. held[b] \in 1 .. Frag
    BY <1>1, <1>5, GeometryAssumption DEF Free
  <2>2. /\ r.a \in AllocState /\ r.a.magic = a.magic
        /\ r.ok => r.a.free = a.free \cup Run(b, held[b])
        /\ r.ok <=> a.magic[dtog(b)] = "valid"
    BY <1>1, <2>1, FreeAllocationFacts
  <2>3. a.magic[dtog(b)] = "valid"  BY <1>1, <2>1, GeometryAssumption DEF HeldOK
  <2>4. a' = r.a /\ held' = [held EXCEPT ![b] = 0]
    BY <1>5, <2>2, <2>3 DEF Free
  <2> HIDE DEF r
  <2>5. held[b] \in 0 .. Frag  BY <2>1, GeometryAssumption
  <2>6. Avail(r.a) = Avail(a) \cup Run(b, held[b])
    BY <1>1, <2>2, <2>3, <2>5, RunChangesAvail
  <2>7. poolAvail' = poolAvail \cup Run(b, held[b])  BY <2>4, <2>6, PoolAvailIs
  <2>8. Pool!Give(b)
    BY <2>4, <2>7 DEF Pool!Give, Pool!Fragments, poolAvail, Run
  <2> QED  BY <2>8 DEF Pool!PoolNext
<1>6. ASSUME Recompute  PROVE poolAvail' = poolAvail /\ held' = held
  <2> DEFINE r == recompute_summary_counts(a, dirs)
  <2>1. /\ r.a \in AllocState
        /\ \E V \in SUBSET CG : /\ r.a.free = read_allocatable_cgs(a, V).free
                                /\ r.a.magic = read_allocatable_cgs(a, V).magic
    BY <1>1, RecomputeFacts
  <2>2. a' = r.a /\ held' = held  BY <1>6, Zenon DEF Recompute
  <2> HIDE DEF r
  <2>3. Avail(a') = Avail(a)  BY <1>1, <2>1, <2>2, LayoutKeepsAvail
  <2> QED  BY <2>2, <2>3, PoolAvailIs
<1>7. CASE UNCHANGED vars
  <2>1. a' = a /\ held' = held  BY <1>7 DEF vars
  <2> QED  BY <2>1, PoolAvailIs
<1> QED  BY <1>2, <1>3, <1>4, <1>5, <1>6, <1>7 DEF Next

\* The callers of the allocator see a pool of fragments: whatever the groups,
\* their order, the lazily laid-out and the damaged ones, and whatever inode
\* calls and recounts come in between, an allocation takes the first
\* fragments of a wholly free block and a free gives back what is held.
THEOREM PoolRefined == Spec => ImplementsPool
<1>1. Init => Pool!PoolInit  BY InitInv, InitPool
<1>2. Inv /\ [Next]_vars => [Pool!PoolNext]_(Pool!poolVars)  BY NextPool
<1> QED  BY <1>1, <1>2, InvAlways, PTL DEF Spec, ImplementsPool, Pool!PoolSpec

=============================================================================
