------------------------- MODULE UfsDirectoryProofs -------------------------
(***************************************************************************)
(* Proofs about UfsDirectory, for every set of names and of inodes, every  *)
(* block size and every length of a directory: its blocks stay tiled with  *)
(* records, they hold exactly the entries that were added and not removed, *)
(* and the directory grows only when it is full.                           *)
(***************************************************************************)
EXTENDS UfsDirectory, ArithmeticLemmas, FiniteSetTheorems, SequenceTheorems

----------------------------------------------------------------------------
(* Sequences with a piece replaced.                                        *)

Splice(s, r, new) == SubSeq(s, 1, r - 1) \o new \o SubSeq(s, r + 1, Len(s))

IsSplice(t, s, r, new) ==
  /\ Len(t) = Len(s) - 1 + Len(new)
  /\ \A i \in 1 .. r - 1 : t[i] = s[i]
  /\ \A i \in 1 .. Len(new) : t[r - 1 + i] = new[i]
  /\ \A i \in r + 1 .. Len(s) : t[i - 1 + Len(new)] = s[i]

\* The r-th element replaced by a sequence (insert_entry).
LEMMA Spliced ==
  ASSUME NEW S, NEW s \in Seq(S), NEW r \in 1 .. Len(s), NEW new \in Seq(S)
  PROVE  Splice(s, r, new) \in Seq(S) /\ IsSplice(Splice(s, r, new), s, r, new)
<1> DEFINE n == Len(s)
           a == SubSeq(s, 1, r - 1)
           c == SubSeq(s, r + 1, n)
           k == Len(new)
<1>1. n \in Nat /\ k \in Nat /\ r \in 1 .. n /\ \A i \in 1 .. n : s[i] \in S
  BY LenProperties
<1> HIDE DEF n, k
<1>2. /\ a \in Seq(S) /\ Len(a) = r - 1
      /\ \A i \in 1 .. r - 1 : a[i] = s[i]
  <2>1. 1 \in Int /\ r - 1 \in Int /\ \A i \in 1 .. r - 1 : s[i] \in S
    BY <1>1
  <2>2. /\ a \in Seq(S) /\ Len(a) = IF 1 <= r - 1 THEN (r - 1) - 1 + 1 ELSE 0
        /\ \A i \in 1 .. (r - 1) - 1 + 1 : a[i] = s[1 + i - 1]
    BY <2>1, SubSeqProperties
  <2> HIDE DEF a
  <2> QED  BY <1>1, <2>2
<1>3. /\ c \in Seq(S) /\ Len(c) = n - r
      /\ \A i \in 1 .. n - r : c[i] = s[r + i]
  <2>1. r + 1 \in Int /\ n \in Int /\ \A i \in r + 1 .. n : s[i] \in S
    BY <1>1
  <2>2. /\ c \in Seq(S) /\ Len(c) = IF r + 1 <= n THEN n - (r + 1) + 1 ELSE 0
        /\ \A i \in 1 .. n - (r + 1) + 1 : c[i] = s[(r + 1) + i - 1]
    BY <2>1, SubSeqProperties
  <2> HIDE DEF c
  <2> QED  BY <1>1, <2>2
<1> HIDE DEF a, c
<1> DEFINE b == a \o new
           t == b \o c
<1>4. /\ b \in Seq(S) /\ Len(b) = r - 1 + k
      /\ \A i \in 1 .. r - 1 + k : b[i] = IF i <= r - 1 THEN a[i] ELSE new[i - (r - 1)]
  <2>1. /\ b \in Seq(S) /\ Len(b) = Len(a) + Len(new)
        /\ \A i \in 1 .. Len(a) + Len(new) :
             b[i] = IF i <= Len(a) THEN a[i] ELSE new[i - Len(a)]
    BY <1>2, ConcatProperties
  <2> HIDE DEF b
  <2> QED  BY <1>2, <2>1 DEF k
<1> HIDE DEF b
<1>5. /\ t \in Seq(S) /\ Len(t) = (r - 1 + k) + (n - r)
      /\ \A i \in 1 .. (r - 1 + k) + (n - r) :
           t[i] = IF i <= r - 1 + k THEN b[i] ELSE c[i - (r - 1 + k)]
  <2>1. /\ t \in Seq(S) /\ Len(t) = Len(b) + Len(c)
        /\ \A i \in 1 .. Len(b) + Len(c) :
             t[i] = IF i <= Len(b) THEN b[i] ELSE c[i - Len(b)]
    BY <1>3, <1>4, ConcatProperties
  <2> HIDE DEF t
  <2> QED  BY <1>3, <1>4, <2>1
<1> HIDE DEF t
<1>6. Len(t) = n - 1 + k  BY <1>1, <1>5
<1>7. \A i \in 1 .. r - 1 : t[i] = s[i]  BY <1>1, <1>2, <1>4, <1>5
<1>8. ASSUME NEW i \in 1 .. k  PROVE t[r - 1 + i] = new[i]
  <2>1. r - 1 + i \in 1 .. (r - 1 + k) + (n - r) /\ r - 1 + i <= r - 1 + k
        /\ r - 1 + i \in 1 .. r - 1 + k /\ ~(r - 1 + i <= r - 1)
        /\ (r - 1 + i) - (r - 1) = i
    BY <1>1
  <2>2. t[r - 1 + i] = b[r - 1 + i]  BY <1>5, <2>1
  <2>3. b[r - 1 + i] = new[(r - 1 + i) - (r - 1)]  BY <1>4, <2>1
  <2> QED  BY <2>1, <2>2, <2>3
<1>9. ASSUME NEW i \in r + 1 .. n  PROVE t[i - 1 + k] = s[i]
  <2>1. /\ i - 1 + k \in 1 .. (r - 1 + k) + (n - r) /\ ~(i - 1 + k <= r - 1 + k)
        /\ (i - 1 + k) - (r - 1 + k) = i - r
        /\ i - r \in 1 .. n - r /\ r + (i - r) = i
    BY <1>1
  <2>2. t[i - 1 + k] = c[(i - 1 + k) - (r - 1 + k)]  BY <1>5, <2>1
  <2>3. c[i - r] = s[r + (i - r)]  BY <1>3, <2>1
  <2> QED  BY <2>1, <2>2, <2>3
<1> QED
  BY <1>5, <1>6, <1>7, <1>8, <1>9
     DEF Splice, IsSplice, t, b, a, c, n, k

\* The r-th element taken out (remove_entry): RemoveAt is such a splice.
LEMMA Removed ==
  ASSUME NEW S, NEW s \in Seq(S), NEW r \in 1 .. Len(s)
  PROVE  /\ RemoveAt(s, r) \in Seq(S) /\ Len(RemoveAt(s, r)) = Len(s) - 1
         /\ \A i \in 1 .. r - 1 : RemoveAt(s, r)[i] = s[i]
         /\ \A i \in r + 1 .. Len(s) : RemoveAt(s, r)[i - 1] = s[i]
<1> DEFINE a == SubSeq(s, 1, r - 1)
           c == SubSeq(s, r + 1, Len(s))
           e == SubSeq(s, 1, 0)
<1>1. e \in Seq(S) /\ Len(e) = 0 /\ e = <<>>
  <2>1. e = <<>>  BY SubSeqEmpty
  <2> HIDE DEF e
  <2> QED  BY <2>1, EmptySeq
<1>2. a \in Seq(S)
  <2>1. Len(s) \in Nat /\ \A i \in 1 .. Len(s) : s[i] \in S  BY LenProperties
  <2>2. 1 \in Int /\ r - 1 \in Int /\ \A i \in 1 .. r - 1 : s[i] \in S
    BY <2>1
  <2> QED  BY <2>2, SubSeqProperties
<1> HIDE DEF e
<1> DEFINE t == Splice(s, r, e)
<1>3. RemoveAt(s, r) = t
  <2>1. a \o e = a  BY <1>1, <1>2, ConcatEmptySeq
  <2> QED  BY <2>1 DEF RemoveAt, Splice
<1>4. /\ t \in Seq(S) /\ Len(t) = Len(s) - 1 + Len(e)
      /\ \A i \in 1 .. r - 1 : t[i] = s[i]
      /\ \A i \in r + 1 .. Len(s) : t[i - 1 + Len(e)] = s[i]
  <2>1. e \in Seq(S)  BY <1>1
  <2>2. t \in Seq(S) /\ IsSplice(t, s, r, e)  BY <2>1, Spliced
  <2> QED  BY <2>2 DEF IsSplice
<1>5. Len(s) \in Nat  BY LenProperties
<1> HIDE DEF t
<1> QED  BY <1>1, <1>3, <1>4, <1>5

----------------------------------------------------------------------------
(* Records.                                                                *)

EntryNames == Names \cup {".", ".."}

\* A record: 4-aligned, with a header, and with room for the name of a live
\* entry.
Rec ==
  {x \in [ino : Inodes \cup {FreeIno}, name : EntryNames \cup {NoName}, len : Nat] :
     /\ x.len % 4 = 0 /\ x.len >= 8
     /\ x.ino # FreeIno => x.len >= ufs_dirsiz(namlen(x.name))}

\* The size of an entry (ufs_dirsiz) is 4-aligned and holds the header.
LEMMA EntrySize ==
  ASSUME NEW n \in EntryNames \cup {NoName}
  PROVE  /\ ufs_dirsiz(namlen(n)) \in Nat /\ ufs_dirsiz(namlen(n)) % 4 = 0
         /\ ufs_dirsiz(namlen(n)) >= 12
<1>1. namlen(n) \in Nat
  <2>1. CASE n \in Names
    <3>1. NameLen[n] \in 1 .. 255  BY <2>1, NamesAssumption
    <3>2. NameLen[n] \in Nat  BY <3>1
    <3> QED  BY <2>1, <3>2 DEF namlen
  <2>2. CASE n = NoName  BY <2>2, NamesAssumption DEF namlen
  <2>3. CASE n = "."  BY <2>3, NamesAssumption DEF namlen
  <2>4. CASE n = ".."  BY <2>4, NamesAssumption DEF namlen
  <2> QED  BY <2>1, <2>2, <2>3, <2>4 DEF EntryNames
<1> DEFINE q == (namlen(n) + 4) \div 4
<1>2. q \in Nat /\ q >= 1
  <2> DEFINE l == namlen(n)
  <2>1. l \in Nat  BY <1>1
  <2> HIDE DEF l
  <2> DEFINE k == (l + 4) \div 4
  <2>2. /\ k \in Int /\ (l + 4) % 4 \in 0 .. 3
        /\ l + 4 = 4 * k + ((l + 4) % 4)
    BY <2>1, DivMod
  <2> HIDE DEF k
  <2>3. k \in Nat /\ k >= 1  BY <2>1, <2>2
  <2> QED  BY <2>3 DEF k, l
<1>3. ufs_dirsiz(namlen(n)) = 8 + q * 4  BY DEF ufs_dirsiz
<1> HIDE DEF q
<1>4. 8 + q * 4 \in Nat /\ 8 + q * 4 >= 12 /\ 8 + q * 4 = 4 * (q + 2)  BY <1>2
<1>5. (4 * (q + 2)) % 4 = 0
  <2> DEFINE k == q + 2
  <2>1. k \in Nat /\ 4 \in Nat \ {0}  BY <1>2
  <2> HIDE DEF k
  <2>2. (4 * k) % 4 = 0  BY <2>1
  <2> QED  BY <2>2 DEF k
<1> QED  BY <1>3, <1>4, <1>5

\* What is known of a record.
LEMMA RecFields ==
  ASSUME NEW x \in Rec
  PROVE  /\ x.ino \in Inodes \cup {FreeIno} /\ x.name \in EntryNames \cup {NoName}
         /\ x.len \in Nat /\ x.len % 4 = 0 /\ x.len >= 8
         /\ x.ino # FreeIno => x.len >= ufs_dirsiz(namlen(x.name))
         /\ x.ino \in Nat
         /\ DOMAIN x = {"ino", "name", "len"}
<1> DEFINE R == [ino : Inodes \cup {FreeIno}, name : EntryNames \cup {NoName}, len : Nat]
<1>1. /\ x \in R /\ x.len % 4 = 0 /\ x.len >= 8
      /\ x.ino # FreeIno => x.len >= ufs_dirsiz(namlen(x.name))
  BY DEF Rec
<1>2. /\ x.ino \in Inodes \cup {FreeIno} /\ x.name \in EntryNames \cup {NoName}
      /\ x.len \in Nat /\ DOMAIN x = {"ino", "name", "len"}
  BY <1>1
<1>3. x.ino \in Nat
  <2>1. Inodes \cup {FreeIno} \subseteq Nat  BY DirectoryAssumption DEF FreeIno
  <2> QED  BY <1>2, <2>1
<1> QED  BY <1>1, <1>2, <1>3

\* Making one.
LEMMA RecordIsRec ==
  ASSUME NEW ino \in Inodes \cup {FreeIno}, NEW name \in EntryNames \cup {NoName},
         NEW len \in Nat, len % 4 = 0, len >= 8,
         ino # FreeIno => len >= ufs_dirsiz(namlen(name))
  PROVE  /\ Record(ino, name, len) \in Rec
         /\ Record(ino, name, len).ino = ino /\ Record(ino, name, len).name = name
         /\ Record(ino, name, len).len = len
  BY DEF Rec, Record

----------------------------------------------------------------------------
(* Where the records of a block end.                                       *)

\* The recursive function Offsets exists and satisfies its equations: it is
\* built up to each record from what it is up to the one before.
LEMMA OffsetsAre ==
  ASSUME NEW s \in Seq(Rec)
  PROVE  /\ Offsets(s) \in [0 .. Len(s) -> Nat]
         /\ Offsets(s)[0] = 0
         /\ \A r \in 1 .. Len(s) : Offsets(s)[r] = Offsets(s)[r - 1] + s[r].len
<1> DEFINE n == Len(s)
<1>1. n \in Nat /\ \A r \in 1 .. n : s[r].len \in Nat
  <2>1. n \in Nat /\ \A r \in 1 .. n : s[r] \in Rec  BY LenProperties
  <2> QED  BY <2>1, RecFields
<1> HIDE DEF n
<1> DEFINE Upto(k) ==
             \E f \in [0 .. k -> Nat] :
               f[0] = 0 /\ \A r \in 1 .. k : f[r] = f[r - 1] + s[r].len
           Bad == {k \in 0 .. n : ~ Upto(k)}
<1>2. Bad = {}
  <2> SUFFICES ASSUME Bad # {}  PROVE FALSE  OBVIOUS
  <2> DEFINE m == Min(Bad)
  <2>1. Bad \subseteq Nat  BY <1>1
  <2>2. m \in Bad /\ \A k \in Bad : m <= k
    <3> HIDE DEF Bad
    <3> QED  BY <2>1, MinInSet
  <2> HIDE DEF m
  <2>3. m \in 0 .. n /\ ~ Upto(m)  BY <2>2
  <2>4. m # 0
    <3> DEFINE z == [i \in 0 .. 0 |-> 0]
    <3>1. z \in [0 .. 0 -> Nat] /\ z[0] = 0 /\ 1 .. 0 = {}  OBVIOUS
    <3> HIDE DEF z
    <3>2. Upto(0)  BY <3>1
    <3> QED  BY <2>3, <3>2
  <2>5. m - 1 \in 0 .. n  BY <1>1, <2>3, <2>4
  <2>6. Upto(m - 1)
    <3>1. m - 1 \notin Bad
      <4>1. m \in Int /\ ~(m <= m - 1)  BY <1>1, <2>3
      <4> HIDE DEF Bad
      <4> QED  BY <2>2, <4>1
    <3> QED  BY <2>5, <3>1
  <2>7. PICK f \in [0 .. m - 1 -> Nat] :
          f[0] = 0 /\ \A r \in 1 .. m - 1 : f[r] = f[r - 1] + s[r].len
    BY <2>6
  <2> DEFINE g == [i \in 0 .. m |-> IF i = m THEN f[m - 1] + s[m].len ELSE f[i]]
  <2>8. m \in 1 .. n /\ m \in Nat  BY <1>1, <2>3, <2>4
  <2>9. f[m - 1] \in Nat /\ s[m].len \in Nat
    <3>1. m - 1 \in 0 .. m - 1  BY <2>8
    <3> QED  BY <1>1, <2>7, <2>8, <3>1
  <2>10. g \in [0 .. m -> Nat]
    <3>1. \A i \in 0 .. m : i # m => i \in 0 .. m - 1  BY <2>8
    <3> QED  BY <2>9, <3>1
  <2>11. g[0] = 0 /\ \A r \in 1 .. m : g[r] = g[r - 1] + s[r].len
    <3>1. g[0] = 0  BY <2>4, <2>7, <2>8
    <3>2. ASSUME NEW r \in 1 .. m  PROVE g[r] = g[r - 1] + s[r].len
      <4>1. r - 1 \in 0 .. m /\ r - 1 # m /\ r \in 0 .. m  BY <2>8
      <4>2. g[r - 1] = f[r - 1]  BY <4>1
      <4>3. CASE r = m  BY <4>1, <4>2, <4>3
      <4>4. CASE r # m
        <5>1. r \in 1 .. m - 1  BY <2>8, <4>4
        <5>2. g[r] = f[r]  BY <4>1, <4>4
        <5> QED  BY <2>7, <4>2, <5>1, <5>2
      <4> QED  BY <4>3, <4>4
    <3> QED  BY <3>1, <3>2
  <2> HIDE DEF g
  <2>12. Upto(m)  BY <2>10, <2>11
  <2> QED  BY <2>3, <2>12
<1>3. PICK f \in [0 .. n -> Nat] :
        f[0] = 0 /\ \A r \in 1 .. n : f[r] = f[r - 1] + s[r].len
  <2>1. n \in 0 .. n  BY <1>1
  <2> QED  BY <1>2, <2>1
<1> DEFINE F(e) == [r \in 0 .. n |-> IF r = 0 THEN 0 ELSE e[r - 1] + s[r].len]
           o == CHOOSE e : e = F(e)
<1>4. f = F(f)
  <2>1. DOMAIN f = 0 .. n  OBVIOUS
  <2>2. \A r \in 0 .. n : f[r] = IF r = 0 THEN 0 ELSE f[r - 1] + s[r].len
    <3>1. \A r \in 0 .. n : r # 0 => r \in 1 .. n  BY <1>1
    <3> QED  BY <1>3, <3>1
  <2> QED  BY <2>1, <2>2
<1>5. o = F(o)
  <2> HIDE DEF F
  <2> QED  BY <1>4
<1>6. Offsets(s) = o  BY DEF Offsets, n
<1> HIDE DEF o
<1>7. /\ DOMAIN o = 0 .. n /\ o[0] = 0
      /\ \A r \in 1 .. n : o[r] = o[r - 1] + s[r].len
  <2>1. DOMAIN o = 0 .. n  BY <1>5
  <2>2. \A r \in 0 .. n : o[r] = F(o)[r]  BY <1>5
  <2>3. 0 \in 0 .. n /\ \A r \in 1 .. n : r \in 0 .. n /\ r # 0  BY <1>1
  <2> QED  BY <2>1, <2>2, <2>3
<1>8. o \in [0 .. n -> Nat]
  <2> DEFINE B == {k \in 0 .. n : o[k] \notin Nat}
  <2>1. B = {}
    <3> SUFFICES ASSUME B # {}  PROVE FALSE  OBVIOUS
    <3> DEFINE m == Min(B)
    <3>1. B \subseteq Nat  BY <1>1
    <3>2. m \in B /\ \A k \in B : m <= k
      <4> HIDE DEF B
      <4> QED  BY <3>1, MinInSet
    <3> HIDE DEF m
    <3>3. m \in 0 .. n /\ o[m] \notin Nat  BY <3>2
    <3>4. m \in 1 .. n /\ m - 1 \in 0 .. n  BY <1>1, <1>7, <3>3
    <3>5. o[m - 1] \in Nat  BY <1>1, <3>2, <3>4
    <3>6. o[m] = o[m - 1] + s[m].len /\ s[m].len \in Nat  BY <1>1, <1>7, <3>4
    <3> QED  BY <3>3, <3>5, <3>6
  <2>2. o = F(o) /\ \A k \in 0 .. n : o[k] \in Nat  BY <1>5, <2>1
  <2>3. o = [k \in 0 .. n |-> o[k]]  BY <1>5, <1>7
  <2> HIDE DEF F
  <2> QED  BY <2>2, <2>3
<1> HIDE DEF F
<1> QED  BY <1>6, <1>7, <1>8 DEF n

\* Records of the same lengths from the same offset on end at the same offset.
LEMMA OffsetsShift ==
  ASSUME NEW s \in Seq(Rec), NEW t \in Seq(Rec), NEW a \in Nat, NEW b \in Nat,
         NEW k \in Int, a <= b, b <= Len(s), 0 <= a + k, b + k <= Len(t),
         Offsets(t)[a + k] = Offsets(s)[a],
         \A i \in a + 1 .. b : t[i + k].len = s[i].len
  PROVE  Offsets(t)[b + k] = Offsets(s)[b]
<1> DEFINE f == Offsets(s)
           g == Offsets(t)
           n == Len(s)
           m == Len(t)
           Bad == {i \in a .. b : g[i + k] # f[i]}
<1>1. n \in Nat /\ m \in Nat  BY LenProperties
<1>2. \A r \in 1 .. n : f[r] = f[r - 1] + s[r].len  BY OffsetsAre
<1>3. \A r \in 1 .. m : g[r] = g[r - 1] + t[r].len  BY OffsetsAre
<1>4. b <= n /\ b + k <= m /\ g[a + k] = f[a]  OBVIOUS
<1> HIDE DEF f, g, n, m
<1>5. Bad = {}
  <2> SUFFICES ASSUME Bad # {}  PROVE FALSE  OBVIOUS
  <2> DEFINE x == Min(Bad)
  <2>1. Bad \subseteq Nat  OBVIOUS
  <2>2. x \in Bad /\ \A i \in Bad : x <= i
    <3> HIDE DEF Bad
    <3> QED  BY <2>1, MinInSet
  <2> HIDE DEF x
  <2>3. x \in a .. b /\ g[x + k] # f[x]  BY <2>2
  <2>4. x # a  BY <1>4, <2>3
  <2>5. /\ x - 1 \in a .. b /\ x \in a + 1 .. b /\ x \in 1 .. n
        /\ x + k \in 1 .. m /\ x + k - 1 = x - 1 + k /\ ~(x <= x - 1)
    BY <1>1, <1>4, <2>3, <2>4
  <2>6. g[x - 1 + k] = f[x - 1]
    <3>1. x - 1 \notin Bad
      <4> HIDE DEF Bad
      <4> QED  BY <2>2, <2>5
    <3> QED  BY <2>5, <3>1
  <2>7. g[x + k] = g[x + k - 1] + t[x + k].len  BY <1>3, <2>5
  <2>8. f[x] = f[x - 1] + s[x].len  BY <1>2, <2>5
  <2>9. t[x + k].len = s[x].len  BY <2>5
  <2> QED  BY <2>3, <2>5, <2>6, <2>7, <2>8, <2>9
<1>6. b \in a .. b  OBVIOUS
<1> QED  BY <1>5, <1>6 DEF f, g

\* Records of the same lengths from the start on.
LEMMA OffsetsPrefix ==
  ASSUME NEW s \in Seq(Rec), NEW t \in Seq(Rec), NEW b \in Nat,
         b <= Len(s), b <= Len(t), \A i \in 1 .. b : t[i].len = s[i].len
  PROVE  Offsets(t)[b] = Offsets(s)[b]
<1> DEFINE z == 0
<1>1. Offsets(t)[z] = Offsets(s)[z]  BY OffsetsAre
<1>2. /\ z \in Nat /\ z \in Int /\ z <= b /\ 0 <= z + z /\ z + z = z
      /\ b + z = b /\ b + z <= Len(t)
  OBVIOUS
<1>3. \A i \in z + 1 .. b : i \in 1 .. b /\ i + z = i  OBVIOUS
<1> HIDE DEF z
<1>4. Offsets(t)[z + z] = Offsets(s)[z]  BY <1>1, <1>2
<1>5. \A i \in z + 1 .. b : t[i + z].len = s[i].len  BY <1>3
<1>6. Offsets(t)[b + z] = Offsets(s)[b]  BY <1>2, <1>4, <1>5, OffsetsShift
<1> QED  BY <1>2, <1>6

\* Records of the same lengths throughout.
LEMMA SameLength ==
  ASSUME NEW s \in Seq(Rec), NEW t \in Seq(Rec), Len(t) = Len(s),
         \A i \in 1 .. Len(s) : t[i].len = s[i].len
  PROVE  Length(t) = Length(s)
<1> DEFINE n == Len(s)
<1>1. n \in Nat /\ n <= Len(s) /\ n <= Len(t) /\ n = Len(t)
      /\ \A i \in 1 .. n : t[i].len = s[i].len
  BY LenProperties
<1> HIDE DEF n
<1>2. Offsets(t)[n] = Offsets(s)[n]  BY <1>1, OffsetsPrefix
<1> QED  BY <1>1, <1>2 DEF n, Length

\* A record replaced by one or two of the same length together.
LEMMA SpliceLength ==
  ASSUME NEW s \in Seq(Rec), NEW t \in Seq(Rec), NEW new \in Seq(Rec),
         NEW r \in 1 .. Len(s), IsSplice(t, s, r, new),
         \/ Len(new) = 1 /\ new[1].len = s[r].len
         \/ Len(new) = 2 /\ new[1].len + new[2].len = s[r].len
  PROVE  Length(t) = Length(s)
<1> DEFINE f == Offsets(s)
           g == Offsets(t)
           n == Len(s)
           k == Len(new) - 1
<1>1. n \in Nat /\ r \in 1 .. n /\ k \in {0, 1} /\ Len(new) = k + 1
  BY LenProperties
<1>2. /\ Len(t) = n + k
      /\ \A i \in 1 .. r - 1 : t[i] = s[i]
      /\ \A i \in 1 .. k + 1 : t[r - 1 + i] = new[i]
      /\ \A i \in r + 1 .. n : t[i + k] = s[i]
  <2>1. /\ Len(t) = n - 1 + Len(new)
        /\ \A i \in 1 .. r - 1 : t[i] = s[i]
        /\ \A i \in 1 .. Len(new) : t[r - 1 + i] = new[i]
        /\ \A i \in r + 1 .. n : t[i - 1 + Len(new)] = s[i]
    BY DEF IsSplice
  <2> HIDE DEF n, k
  <2>2. \A i \in r + 1 .. n : i - 1 + Len(new) = i + k  BY <1>1
  <2> QED  BY <1>1, <2>1, <2>2
<1>3. f[0] = 0 /\ g[0] = 0  BY OffsetsAre
<1>4. /\ \A i \in 1 .. n : f[i] = f[i - 1] + s[i].len
      /\ f \in [0 .. n -> Nat]
  BY OffsetsAre
<1>5. /\ \A i \in 1 .. n + k : g[i] = g[i - 1] + t[i].len
      /\ g \in [0 .. n + k -> Nat]
  BY <1>2, OffsetsAre
<1>6. g[r - 1] = f[r - 1]
  <2> DEFINE p == r - 1
  <2>1. p \in Nat /\ p <= Len(s) /\ p <= Len(t)  BY <1>1, <1>2
  <2>2. \A i \in 1 .. p : t[i].len = s[i].len  BY <1>2
  <2> HIDE DEF p
  <2>3. Offsets(t)[p] = Offsets(s)[p]  BY <2>1, <2>2, OffsetsPrefix
  <2> QED  BY <2>3 DEF p
<1>7. /\ \A i \in 1 .. k + 1 : new[i].len \in Nat
      /\ s[r].len \in Nat /\ f[r - 1] \in Nat
  <2>1. \A i \in 1 .. k + 1 : new[i] \in Rec  BY <1>1, ElementOfSeq
  <2>2. s[r] \in Rec  BY <1>1, ElementOfSeq
  <2>3. r - 1 \in 0 .. n  BY <1>1
  <2> QED  BY <1>4, <2>1, <2>2, <2>3, RecFields
<1>x. \/ k = 0 /\ new[1].len = s[r].len
      \/ k = 1 /\ new[1].len + new[2].len = s[r].len
  BY <1>1
<1> HIDE DEF f, g, n, k
<1>8. g[r + k] = f[r]
  <2>1. f[r] = f[r - 1] + s[r].len  BY <1>1, <1>4
  <2>2. CASE k = 0
    <3>1. t[r] = new[1] /\ new[1].len = s[r].len /\ r \in 1 .. n + k
      <4>1. 1 \in 1 .. k + 1 /\ r - 1 + 1 = r  BY <1>1, <2>2
      <4> QED  BY <1>1, <1>2, <1>x, <2>2, <4>1
    <3>2. g[r] = g[r - 1] + t[r].len  BY <1>5, <3>1
    <3> QED  BY <1>1, <1>6, <2>1, <2>2, <3>1, <3>2
  <2>3. CASE k = 1
    <3>1. /\ t[r] = new[1] /\ t[r + 1] = new[2]
          /\ new[1].len + new[2].len = s[r].len
          /\ r \in 1 .. n + k /\ r + 1 \in 1 .. n + k /\ r + 1 - 1 = r
      <4>1. 1 \in 1 .. k + 1 /\ r - 1 + 1 = r /\ 2 \in 1 .. k + 1
            /\ r - 1 + 2 = r + 1
        BY <1>1, <2>3
      <4> QED  BY <1>1, <1>2, <1>x, <2>3, <4>1
    <3>2. g[r] = g[r - 1] + new[1].len  BY <1>5, <3>1
    <3>3. g[r + 1] = g[r] + new[2].len  BY <1>5, <3>1
    <3>4. new[1].len \in Nat /\ new[2].len \in Nat  BY <1>7, <2>3
    <3> QED  BY <1>6, <1>7, <2>1, <2>3, <3>1, <3>2, <3>3, <3>4
  <2> QED  BY <1>1, <2>2, <2>3
<1>9. g[n + k] = f[n]
  <2>1. /\ r \in Nat /\ n \in Nat /\ k \in Int /\ r <= n /\ n <= Len(s)
        /\ 0 <= r + k /\ n + k <= Len(t)
    BY <1>1, <1>2 DEF n
  <2>2. Offsets(t)[r + k] = Offsets(s)[r]  BY <1>8 DEF f, g
  <2>3. \A i \in r + 1 .. n : t[i + k].len = s[i].len  BY <1>2
  <2>4. Offsets(t)[n + k] = Offsets(s)[n]  BY <2>1, <2>2, <2>3, OffsetsShift
  <2> QED  BY <2>4 DEF f, g
<1> QED  BY <1>2, <1>9 DEF f, g, n, Length

\* A record given to its predecessor (remove_entry).
LEMMA MergeLength ==
  ASSUME NEW s \in Seq(Rec), NEW t \in Seq(Rec), NEW r \in 2 .. Len(s),
         Len(t) = Len(s) - 1,
         \A i \in 1 .. r - 2 : t[i].len = s[i].len,
         t[r - 1].len = s[r - 1].len + s[r].len,
         \A i \in r + 1 .. Len(s) : t[i - 1].len = s[i].len
  PROVE  Length(t) = Length(s)
<1> DEFINE f == Offsets(s)
           g == Offsets(t)
           n == Len(s)
           k == -1
<1>1. n \in Nat /\ r \in 2 .. n /\ Len(t) = n - 1  BY LenProperties
<1>2. \A i \in 1 .. n : f[i] = f[i - 1] + s[i].len  BY OffsetsAre
<1>3. \A i \in 1 .. n - 1 : g[i] = g[i - 1] + t[i].len  BY <1>1, OffsetsAre
<1>4. g[r - 2] = f[r - 2]
  <2> DEFINE p == r - 2
  <2>1. p \in Nat /\ p <= Len(s) /\ p <= Len(t)  BY <1>1
  <2>2. \A i \in 1 .. p : t[i].len = s[i].len  OBVIOUS
  <2> HIDE DEF p
  <2>3. Offsets(t)[p] = Offsets(s)[p]  BY <2>1, <2>2, OffsetsPrefix
  <2> QED  BY <2>3 DEF p
<1>5. f[r - 2] \in Nat /\ s[r - 1].len \in Nat /\ s[r].len \in Nat
  <2>1. r - 2 \in 0 .. n /\ r - 1 \in 1 .. n /\ r \in 1 .. n  BY <1>1
  <2>2. f \in [0 .. n -> Nat]  BY OffsetsAre
  <2>3. s[r - 1] \in Rec /\ s[r] \in Rec  BY <2>1, ElementOfSeq
  <2> QED  BY <2>1, <2>2, <2>3, RecFields
<1>6. g[r - 1] = f[r]
  <2>1. /\ r - 1 \in 1 .. n - 1 /\ r - 1 \in 1 .. n /\ r \in 1 .. n
        /\ (r - 1) - 1 = r - 2
    BY <1>1
  <2> HIDE DEF f, g, n
  <2>2. g[r - 1] = g[r - 2] + t[r - 1].len  BY <1>3, <2>1
  <2>3. f[r - 1] = f[r - 2] + s[r - 1].len /\ f[r] = f[r - 1] + s[r].len
    BY <1>2, <2>1
  <2> QED  BY <1>4, <1>5, <2>2, <2>3
<1>7. /\ r \in Nat /\ k \in Int /\ r <= n /\ n <= Len(s) /\ 0 <= r + k
      /\ n + k <= Len(t) /\ r + k = r - 1 /\ n + k = Len(t)
      /\ \A i \in r + 1 .. n : i + k = i - 1
  BY <1>1
<1>8. n = Len(s) /\ \A i \in r + 1 .. n : t[i - 1].len = s[i].len  OBVIOUS
<1> HIDE DEF k, n
<1>9. Offsets(t)[r + k] = Offsets(s)[r]  BY <1>6, <1>7
<1>10. \A i \in r + 1 .. n : t[i + k].len = s[i].len  BY <1>7, <1>8
<1>11. Offsets(t)[n + k] = Offsets(s)[n]
  BY <1>1, <1>7, <1>9, <1>10, OffsetsShift
<1> QED  BY <1>7, <1>8, <1>11 DEF Length

\* No record is longer than its block.
LEMMA RecordInBlock ==
  ASSUME NEW s \in Seq(Rec), NEW r \in 1 .. Len(s)
  PROVE  s[r].len <= Length(s) /\ Length(s) \in Nat
<1> DEFINE f == Offsets(s)
           n == Len(s)
           Bad == {i \in r .. n : f[i] < s[r].len}
<1>1. n \in Nat /\ r \in 1 .. n /\ \A i \in 1 .. n : s[i].len \in Nat
  <2>1. n \in Nat /\ \A i \in 1 .. n : s[i] \in Rec  BY LenProperties
  <2> QED  BY <2>1, RecFields
<1>2. /\ f \in [0 .. n -> Nat]
      /\ \A i \in 1 .. n : f[i] = f[i - 1] + s[i].len
  BY OffsetsAre
<1> HIDE DEF f, n
<1>3. \A i \in 1 .. n : f[i - 1] \in Nat /\ f[i] \in Nat
  <2>1. \A i \in 1 .. n : i - 1 \in 0 .. n /\ i \in 0 .. n  BY <1>1
  <2> QED  BY <1>2, <2>1
<1>4. Bad = {}
  <2> SUFFICES ASSUME Bad # {}  PROVE FALSE  OBVIOUS
  <2> DEFINE x == Min(Bad)
  <2>1. Bad \subseteq Nat  BY <1>1
  <2>2. x \in Bad /\ \A i \in Bad : x <= i
    <3> HIDE DEF Bad
    <3> QED  BY <2>1, MinInSet
  <2> HIDE DEF x
  <2>3. x \in r .. n /\ x \in 1 .. n /\ f[x] < s[r].len  BY <1>1, <2>2
  <2>4. f[x] = f[x - 1] + s[x].len  BY <1>2, <2>3
  <2>5. f[x - 1] \in Nat /\ s[x].len \in Nat /\ s[r].len \in Nat
    BY <1>1, <1>3, <2>3
  <2>6. x # r  BY <2>3, <2>4, <2>5
  <2>7. x - 1 \in r .. n /\ ~(x <= x - 1)  BY <1>1, <2>3, <2>6
  <2>8. x - 1 \notin Bad
    <3> HIDE DEF Bad
    <3> QED  BY <2>2, <2>7
  <2>9. ~(f[x - 1] < s[r].len)  BY <2>7, <2>8
  <2> QED  BY <2>3, <2>4, <2>5, <2>9
<1>5. n \in r .. n /\ n \in 1 .. n  BY <1>1
<1>6. ~(f[n] < s[r].len) /\ f[n] \in Nat /\ s[r].len \in Nat
  BY <1>1, <1>3, <1>4, <1>5
<1>7. s[r].len <= f[n] /\ f[n] \in Nat  BY <1>6
<1> QED  BY <1>7 DEF f, n, Length

----------------------------------------------------------------------------
(* The entries of a block.                                                 *)

Has(s, n, j) == \E i \in DOMAIN s : Live(s[i], n) /\ s[i].ino = j

Once(s, n) == \A i, k \in DOMAIN s : Live(s[i], n) /\ Live(s[k], n) => i = k

\* Block t has the entry of name n as block s has it.
Same(t, s, n) ==
  /\ \A j : Has(t, n, j) <=> Has(s, n, j)
  /\ Once(s, n) => Once(t, n)

\* Block t has name n once, with inode j.
HoldsOnce(t, n, j) == Once(t, n) /\ \A i : Has(t, n, i) <=> i = j

\* Live records that only move to other places of the block.
LEMMA Moved ==
  ASSUME NEW s, NEW t, NEW n, NEW f,
         \A i \in DOMAIN s : Live(s[i], n) =>
           f[i] \in DOMAIN t /\ Live(t[f[i]], n) /\ t[f[i]].ino = s[i].ino,
         \A k \in DOMAIN t : Live(t[k], n) =>
           \E i \in DOMAIN s : f[i] = k /\ Live(s[i], n)
  PROVE  Same(t, s, n)
<1>1. ASSUME NEW j  PROVE Has(t, n, j) <=> Has(s, n, j)
  BY DEF Has
<1>2. Once(s, n) => Once(t, n)
  BY DEF Once
<1> QED  BY <1>1, <1>2 DEF Same

\* Free space filled: the new record, and perhaps a free one after it.
LEMMA FillSpaceIs ==
  ASSUME NEW ino \in Inodes, NEW name \in Names, NEW len \in Nat,
         len % 4 = 0, len >= ufs_dirsiz(namlen(name))
  PROVE  LET new == FillSpace(ino, name, len)
         IN  /\ new \in Seq(Rec)
             /\ new[1].ino = ino /\ new[1].name = name
             /\ \/ Len(new) = 1 /\ new[1].len = len
                \/ Len(new) = 2 /\ new[2].ino = FreeIno
                     /\ new[1].len + new[2].len = len
<1> DEFINE need == ufs_dirsiz(namlen(name))
           new == FillSpace(ino, name, len)
           a == Record(ino, name, need)
           b == Record(FreeIno, NoName, len - need)
           c == Record(ino, name, len)
<1>1. name \in EntryNames \cup {NoName} /\ NoName \in EntryNames \cup {NoName}
      /\ ino \in Inodes \cup {FreeIno} /\ FreeIno \in Inodes \cup {FreeIno}
  BY DEF EntryNames
<1>2. need \in Nat /\ need % 4 = 0 /\ need >= 12 /\ len >= need
  BY <1>1, EntrySize
<1> HIDE DEF need
<1>3. CASE len - need >= 8
  <2>1. new = <<a, b>>  BY <1>3 DEF FillSpace, need
  <2>2. a \in Rec /\ a.ino = ino /\ a.name = name /\ a.len = need
    <3>1. need >= 8 /\ need >= ufs_dirsiz(namlen(name))  BY <1>2 DEF need
    <3> QED  BY <1>1, <1>2, <3>1, RecordIsRec
  <2>3. b \in Rec /\ b.ino = FreeIno /\ b.len = len - need
    <3> DEFINE rest == len - need
    <3>1. rest \in Nat /\ rest % 4 = 0 /\ rest >= 8  BY <1>2, <1>3
    <3> HIDE DEF rest
    <3>2. /\ Record(FreeIno, NoName, rest) \in Rec
          /\ Record(FreeIno, NoName, rest).ino = FreeIno
          /\ Record(FreeIno, NoName, rest).len = rest
      BY <1>1, <3>1, RecordIsRec
    <3> QED  BY <3>2 DEF rest
  <2> HIDE DEF a, b, new
  <2>4. new \in Seq(Rec) /\ Len(new) = 2 /\ new[1] = a /\ new[2] = b
    BY <2>1, <2>2, <2>3
  <2>5. new[1].len + new[2].len = len  BY <1>2, <2>2, <2>3, <2>4
  <2> QED  BY <2>2, <2>3, <2>4, <2>5 DEF new
<1>4. CASE ~(len - need >= 8)
  <2>1. new = <<c>>  BY <1>4 DEF FillSpace, need
  <2>2. c \in Rec /\ c.ino = ino /\ c.name = name /\ c.len = len
    <3>1. len >= 8 /\ len >= ufs_dirsiz(namlen(name))  BY <1>2
    <3> QED  BY <1>1, <3>1, RecordIsRec
  <2> HIDE DEF c, new
  <2>3. new \in Seq(Rec) /\ Len(new) = 1 /\ new[1] = c  BY <2>1, <2>2
  <2> QED  BY <2>2, <2>3 DEF new
<1> QED  BY <1>3, <1>4

\* What insert_entry puts in the place of a record with room.
NewRecords(old, ino, name) ==
  IF old.ino = FreeIno THEN FillSpace(ino, name, old.len)
  ELSE <<[old EXCEPT !.len = @ - Room(old)], Record(ino, name, Room(old))>>

\* The old entry, if any, stays; the new one is added; no byte is lost.
NewFor(new, old, ino, name) ==
  /\ new \in Seq(Rec)
  /\ \/ Len(new) = 1 /\ new[1].len = old.len
     \/ Len(new) = 2 /\ new[1].len + new[2].len = old.len
  /\ \/ old.ino = FreeIno /\ new[1].ino = ino /\ new[1].name = name
          /\ (Len(new) = 2 => new[2].ino = FreeIno)
     \/ old.ino # FreeIno /\ Len(new) = 2
          /\ new[1].ino = old.ino /\ new[1].name = old.name
          /\ new[2].ino = ino /\ new[2].name = name

\* insert_entry at one record.
LEMMA NewRecordsAre ==
  ASSUME NEW old \in Rec, NEW ino \in Inodes, NEW name \in Names,
         Room(old) >= ufs_dirsiz(namlen(name))
  PROVE  NewFor(NewRecords(old, ino, name), old, ino, name)
<1> DEFINE need == ufs_dirsiz(namlen(name))
           new == NewRecords(old, ino, name)
<1>1. /\ old.ino \in Inodes \cup {FreeIno} /\ old.name \in EntryNames \cup {NoName}
      /\ old.len \in Nat /\ old.len % 4 = 0
      /\ old.ino # FreeIno => old.len >= ufs_dirsiz(namlen(old.name))
      /\ DOMAIN old = {"ino", "name", "len"}
  BY RecFields
<1>2. name \in EntryNames \cup {NoName} /\ ino \in Inodes \cup {FreeIno}
  BY DEF EntryNames
<1>3. CASE old.ino = FreeIno
  <2>1. new = FillSpace(ino, name, old.len) /\ old.len >= need
    BY <1>3 DEF NewRecords, Room
  <2>2. /\ new \in Seq(Rec)
        /\ new[1].ino = ino /\ new[1].name = name
        /\ \/ Len(new) = 1 /\ new[1].len = old.len
           \/ Len(new) = 2 /\ new[2].ino = FreeIno
                /\ new[1].len + new[2].len = old.len
    BY <1>1, <2>1, FillSpaceIs
  <2> HIDE DEF new
  <2>3. NewFor(new, old, ino, name)  BY <1>3, <2>2 DEF NewFor
  <2> QED  BY <2>3 DEF new
<1>4. CASE old.ino # FreeIno
  <2> DEFINE own == ufs_dirsiz(namlen(old.name))
             room == Room(old)
             a == [old EXCEPT !.len = @ - room]
             b == Record(ino, name, room)
  <2>1. room = old.len - own  BY <1>4 DEF Room
  <2>2. new = <<a, b>>  BY <1>4 DEF NewRecords
  <2>3. own \in Nat /\ own % 4 = 0 /\ own >= 12  BY <1>1, EntrySize
  <2>4. need \in Nat /\ need % 4 = 0 /\ need >= 12 /\ room >= need
    BY <1>2, EntrySize
  <2>5. old.len >= own  BY <1>1, <1>4
  <2> HIDE DEF own, need, room
  <2>6. room \in Nat /\ room % 4 = 0 /\ room >= 8 /\ old.len - room = own
    BY <1>1, <2>1, <2>3, <2>4, <2>5
  <2>7. b \in Rec /\ b.ino = ino /\ b.name = name /\ b.len = room
    <3>1. room >= ufs_dirsiz(namlen(name))  BY <2>4 DEF need
    <3> QED  BY <1>2, <2>6, <3>1, RecordIsRec
  <2>8. a \in Rec /\ a.ino = old.ino /\ a.name = old.name /\ a.len = own
    <3>1. a = Record(old.ino, old.name, own)
      <4>1. a.ino = old.ino /\ a.name = old.name /\ a.len = own
            /\ DOMAIN a = {"ino", "name", "len"}
        BY <1>1, <2>6
      <4> QED  BY <1>1, <2>6, <4>1 DEF Record, Rec
    <3>2. own >= 8 /\ own >= ufs_dirsiz(namlen(old.name))  BY <2>3 DEF own
    <3>3. Record(old.ino, old.name, own) \in Rec
          /\ Record(old.ino, old.name, own).ino = old.ino
          /\ Record(old.ino, old.name, own).name = old.name
          /\ Record(old.ino, old.name, own).len = own
      BY <1>1, <2>3, <3>2, RecordIsRec
    <3> HIDE DEF a
    <3> QED  BY <3>1, <3>3
  <2> HIDE DEF a, b, new
  <2>9. new \in Seq(Rec) /\ Len(new) = 2 /\ new[1] = a /\ new[2] = b
    BY <2>2, <2>7, <2>8
  <2>10. new[1].len + new[2].len = old.len
    BY <1>1, <2>3, <2>6, <2>7, <2>8, <2>9
  <2>11. NewFor(new, old, ino, name)
    BY <1>4, <2>7, <2>8, <2>9, <2>10 DEF NewFor
  <2> QED  BY <2>11 DEF new
<1> QED  BY <1>3, <1>4

\* insert_entry in one block: every other entry stays, the new one is there
\* once, and the block is as long as it was.
LEMMA BlockInsert ==
  ASSUME NEW s \in Seq(Rec), NEW r \in 1 .. Len(s), NEW ino \in Inodes,
         NEW name \in Names, NEW new, NewFor(new, s[r], ino, name)
  PROVE  LET t == Splice(s, r, new)
         IN  /\ t \in Seq(Rec) /\ Length(t) = Length(s)
             /\ \A n : n # name => Same(t, s, n)
             /\ (\A j : ~ Has(s, name, j)) => HoldsOnce(t, name, ino)
<1> DEFINE t == Splice(s, r, new)
           n0 == Len(s)
           d == Len(new) - 1
<1>0. new \in Seq(Rec) /\ ino # FreeIno
  BY DirectoryAssumption DEF NewFor, FreeIno
<1>1. t \in Seq(Rec) /\ IsSplice(t, s, r, new)  BY <1>0, Spliced
<1> HIDE DEF t
<1>2. Length(t) = Length(s)  BY <1>0, <1>1, SpliceLength DEF NewFor
<1>3. n0 \in Nat /\ r \in 1 .. n0 /\ d \in {0, 1} /\ Len(new) = d + 1
      /\ DOMAIN s = 1 .. n0
  BY LenProperties DEF NewFor
<1>4. DOMAIN t = 1 .. n0 + d /\ Len(t) = n0 + d
  <2>1. Len(t) = n0 - 1 + Len(new)  BY <1>1 DEF IsSplice
  <2>2. DOMAIN t = 1 .. Len(t)  BY <1>1, LenProperties
  <2> HIDE DEF n0, d
  <2> QED  BY <1>3, <2>1, <2>2
<1>5. /\ \A i \in 1 .. r - 1 : t[i] = s[i]
      /\ t[r] = new[1] /\ (d = 1 => t[r + 1] = new[2])
      /\ \A i \in r + 1 .. n0 : t[i + d] = s[i]
  <2>1. /\ \A i \in 1 .. r - 1 : t[i] = s[i]
        /\ \A i \in 1 .. Len(new) : t[r - 1 + i] = new[i]
        /\ \A i \in r + 1 .. n0 : t[i - 1 + Len(new)] = s[i]
    BY <1>1 DEF IsSplice
  <2> HIDE DEF n0, d
  <2>2. 1 \in 1 .. Len(new) /\ r - 1 + 1 = r /\ (d = 1 => 2 \in 1 .. Len(new))
        /\ r - 1 + 2 = r + 1
    BY <1>3
  <2>3. \A i \in r + 1 .. n0 : i - 1 + Len(new) = i + d  BY <1>3
  <2>4. t[r] = new[1] /\ (d = 1 => t[r + 1] = new[2])  BY <2>1, <2>2
  <2> QED  BY <2>1, <2>3, <2>4
<1>6. \/ s[r].ino = FreeIno /\ t[r].ino = ino /\ t[r].name = name
           /\ (d = 1 => t[r + 1].ino = FreeIno)
      \/ s[r].ino # FreeIno /\ d = 1
           /\ t[r].ino = s[r].ino /\ t[r].name = s[r].name
           /\ t[r + 1].ino = ino /\ t[r + 1].name = name
  BY <1>3, <1>5 DEF NewFor
<1> HIDE DEF n0, d
\* Where the old records are found in t.
<1> DEFINE f == [i \in 1 .. n0 |-> IF i <= r THEN i ELSE i + d]
<1>7. \A i \in 1 .. n0 :
        /\ f[i] \in 1 .. n0 + d
        /\ i # r => t[f[i]] = s[i]
        /\ i = r => f[i] = r
  <2> SUFFICES ASSUME NEW i \in 1 .. n0
               PROVE  /\ f[i] \in 1 .. n0 + d
                      /\ i # r => t[f[i]] = s[i]
                      /\ i = r => f[i] = r
    OBVIOUS
  <2>1. f[i] = IF i <= r THEN i ELSE i + d  OBVIOUS
  <2> HIDE DEF f
  <2>2. CASE i < r
    <3>1. i \in 1 .. r - 1 /\ f[i] = i  BY <1>3, <2>1, <2>2
    <3> QED  BY <1>3, <1>5, <3>1, <2>2
  <2>3. CASE i = r  BY <1>3, <2>1, <2>3
  <2>4. CASE i > r
    <3>1. i \in r + 1 .. n0 /\ f[i] = i + d /\ i + d \in 1 .. n0 + d /\ i # r
      BY <1>3, <2>1, <2>4
    <3>2. t[i + d] = s[i]  BY <1>5, <3>1
    <3> QED  BY <3>1, <3>2
  <2> QED  BY <1>3, <2>2, <2>3, <2>4
<1>8. \A k \in 1 .. n0 + d :
        \/ \E i \in 1 .. n0 : f[i] = k
        \/ d = 1 /\ k = r + 1
  <2> SUFFICES ASSUME NEW k \in 1 .. n0 + d, ~(d = 1 /\ k = r + 1)
               PROVE  \E i \in 1 .. n0 : f[i] = k
    OBVIOUS
  <2>1. CASE k <= r
    <3>1. k \in 1 .. n0  BY <1>3, <2>1
    <3>2. f[k] = k  BY <2>1, <3>1
    <3> QED  BY <3>1, <3>2
  <2>2. CASE k > r
    <3>1. k - d \in 1 .. n0 /\ ~(k - d <= r) /\ k - d + d = k  BY <1>3, <2>2
    <3>2. f[k - d] = k  BY <3>1
    <3> HIDE DEF f
    <3> QED  BY <3>1, <3>2
  <2> QED  BY <1>3, <2>1, <2>2
<1> HIDE DEF f
<1>9. ASSUME NEW n, n # name  PROVE Same(t, s, n)
  <2>1. \A i \in DOMAIN s : Live(s[i], n) =>
          f[i] \in DOMAIN t /\ Live(t[f[i]], n) /\ t[f[i]].ino = s[i].ino
    BY <1>3, <1>4, <1>6, <1>7, <1>9 DEF Live
  <2>2. \A k \in DOMAIN t : Live(t[k], n) =>
          \E i \in DOMAIN s : f[i] = k /\ Live(s[i], n)
    <3> SUFFICES ASSUME NEW k \in 1 .. n0 + d, Live(t[k], n)
                 PROVE  \E i \in 1 .. n0 : f[i] = k /\ Live(s[i], n)
      BY <1>3, <1>4
    <3>1. ~(d = 1 /\ k = r + 1)  BY <1>6, <1>9 DEF Live
    <3>2. PICK i \in 1 .. n0 : f[i] = k  BY <1>8, <3>1
    <3>3. CASE i # r  BY <1>7, <3>2, <3>3
    <3>4. CASE i = r
      <4>1. k = r  BY <1>7, <3>2, <3>4
      <4>2. Live(s[r], n)  BY <1>6, <1>9, <4>1 DEF Live
      <4> QED  BY <3>2, <3>4, <4>2
    <3> QED  BY <3>3, <3>4
  <2> QED  BY <2>1, <2>2, Moved
<1>10. ASSUME \A j : ~ Has(s, name, j)  PROVE HoldsOnce(t, name, ino)
  <2>1. \A i \in 1 .. n0 : ~ Live(s[i], name)  BY <1>3, <1>10 DEF Has
  <2> DEFINE x == IF s[r].ino = FreeIno THEN r ELSE r + 1
  <2>2. x \in DOMAIN t /\ t[x].ino = ino /\ t[x].name = name
    <3>1. r \in DOMAIN t /\ (d = 1 => r + 1 \in DOMAIN t)  BY <1>3, <1>4
    <3> QED  BY <1>6, <3>1
  <2>3. \A k \in DOMAIN t : Live(t[k], name) => k = x
    <3> SUFFICES ASSUME NEW k \in 1 .. n0 + d, Live(t[k], name)  PROVE k = x
      BY <1>4
    <3>0. ~ Live(s[r], name)  BY <1>3, <2>1
    <3>1. CASE d = 1 /\ k = r + 1
      <4>1. s[r].ino # FreeIno  BY <1>6, <3>1 DEF Live
      <4> QED  BY <3>1, <4>1
    <3>2. CASE ~(d = 1 /\ k = r + 1)
      <4>1. PICK i \in 1 .. n0 : f[i] = k  BY <1>8, <3>2
      <4>2. i = r  BY <1>7, <2>1, <4>1
      <4>3. k = r  BY <1>7, <4>1, <4>2
      <4>4. s[r].ino = FreeIno  BY <1>6, <3>0, <4>3 DEF Live
      <4> QED  BY <4>3, <4>4
    <3> QED  BY <3>1, <3>2
  <2>4. Live(t[x], name)  BY <1>0, <2>2 DEF Live
  <2> HIDE DEF x
  <2> QED  BY <2>2, <2>3, <2>4 DEF HoldsOnce, Once, Has
<1> QED  BY <1>1, <1>2, <1>9, <1>10 DEF t

\* The first record of a name is one of its records.
LEMMA FirstMatch ==
  ASSUME NEW s \in Seq(Rec), NEW n, Matches(s, n) # {}
  PROVE  /\ Min(Matches(s, n)) \in 1 .. Len(s)
         /\ Live(s[Min(Matches(s, n))], n)
<1>1. DOMAIN s = 1 .. Len(s) /\ Len(s) \in Nat  BY LenProperties
<1>2. Matches(s, n) \subseteq Nat  BY <1>1 DEF Matches
<1>3. Min(Matches(s, n)) \in Matches(s, n)  BY <1>2, MinInSet
<1> QED  BY <1>1, <1>3 DEF Matches

\* One record replaced by another of the same length, whose name, if it is
\* live, is the only one that can change.
LEMMA Replaced ==
  ASSUME NEW s \in Seq(Rec), NEW r \in 1 .. Len(s), NEW x \in Rec, NEW m,
         x.len = s[r].len, Live(s[r], m), x.ino = FreeIno \/ Live(x, m)
  PROVE  LET t == [s EXCEPT ![r] = x]
         IN  /\ t \in Seq(Rec) /\ Length(t) = Length(s)
             /\ \A n : n # m => Same(t, s, n)
             /\ Once(s, m) /\ x.ino = FreeIno => \A j : ~ Has(t, m, j)
             /\ Once(s, m) /\ x.ino # FreeIno => HoldsOnce(t, m, x.ino)
<1> DEFINE t == [s EXCEPT ![r] = x]
           n0 == Len(s)
<1>1. /\ t \in Seq(Rec) /\ Len(t) = Len(s)
      /\ \A i \in 1 .. n0 : t[i] = IF i = r THEN x ELSE s[i]
  BY ExceptSeq
<1>2. DOMAIN t = 1 .. n0 /\ DOMAIN s = 1 .. n0 /\ r \in 1 .. n0
  BY <1>1, LenProperties
<1> HIDE DEF t
<1>3. Length(t) = Length(s)  BY <1>1, SameLength
<1>4. ASSUME NEW n, n # m  PROVE Same(t, s, n)
  <2> DEFINE f == [i \in 1 .. n0 |-> i]
  <2>1. \A i \in DOMAIN s : Live(s[i], n) =>
          f[i] \in DOMAIN t /\ Live(t[f[i]], n) /\ t[f[i]].ino = s[i].ino
    BY <1>1, <1>2, <1>4 DEF Live
  <2>2. \A k \in DOMAIN t : Live(t[k], n) =>
          \E i \in DOMAIN s : f[i] = k /\ Live(s[i], n)
    BY <1>1, <1>2, <1>4 DEF Live
  <2> HIDE DEF f
  <2> QED  BY <2>1, <2>2, Moved
<1>5. ASSUME Once(s, m)  PROVE \A k \in DOMAIN t : Live(t[k], m) => k = r
  BY <1>1, <1>2, <1>5 DEF Once
<1>6. t[r] = x  BY <1>1, <1>2
<1>7. ASSUME Once(s, m), x.ino = FreeIno  PROVE \A j : ~ Has(t, m, j)
  BY <1>5, <1>6, <1>7 DEF Has, Live
<1>8. ASSUME Once(s, m), x.ino # FreeIno  PROVE HoldsOnce(t, m, x.ino)
  <2>1. Live(t[r], m) /\ r \in DOMAIN t  BY <1>2, <1>6, <1>8
  <2>2. \A k \in DOMAIN t : Live(t[k], m) => k = r  BY <1>5, <1>8
  <2> QED  BY <1>6, <2>1, <2>2 DEF HoldsOnce, Once, Has
<1> QED  BY <1>1, <1>3, <1>4, <1>7, <1>8 DEF t

\* remove_entry in one block: the entry is gone, every other one stays, and
\* the block is as long as it was.
LEMMA BlockRemove ==
  ASSUME NEW s \in Seq(Rec), NEW m, Matches(s, m) # {}
  PROVE  LET t == remove_entry(s, m)
         IN  /\ t \in Seq(Rec) /\ Length(t) = Length(s)
             /\ \A n : n # m => Same(t, s, n)
             /\ Once(s, m) => \A j : ~ Has(t, m, j)
<1> DEFINE r == Min(Matches(s, m))
           n0 == Len(s)
           t == remove_entry(s, m)
<1>1. r \in 1 .. n0 /\ Live(s[r], m)  BY FirstMatch
<1>2. n0 \in Nat /\ DOMAIN s = 1 .. n0 /\ \A i \in 1 .. n0 : s[i] \in Rec
  BY LenProperties
<1>3. t = IF r > 2
          THEN [RemoveAt(s, r) EXCEPT ![r - 1].len = @ + s[r].len]
          ELSE [s EXCEPT ![r] = Record(FreeIno, NoName, @.len)]
  BY DEF remove_entry
<1> HIDE DEF r, t, n0
<1>4. CASE r > 2
  <2> DEFINE u == RemoveAt(s, r)
             p == s[r - 1]
             l == p.len + s[r].len
             y == Record(p.ino, p.name, l)
  <2>1. /\ u \in Seq(Rec) /\ Len(u) = n0 - 1
        /\ \A i \in 1 .. r - 1 : u[i] = s[i]
        /\ \A i \in r + 1 .. n0 : u[i - 1] = s[i]
    BY <1>1, Removed DEF n0
  <2> HIDE DEF u
  <2>2. r - 1 \in 1 .. n0 /\ r - 1 \in 1 .. n0 - 1 /\ r - 1 \in 1 .. r - 1
        /\ r - 1 \in 1 .. Len(u)
    BY <1>1, <1>2, <1>4, <2>1
  <2>3. p \in Rec /\ s[r] \in Rec /\ u[r - 1] = p  BY <1>1, <1>2, <2>1, <2>2
  <2> HIDE DEF p
  <2>4. /\ p.ino \in Inodes \cup {FreeIno} /\ p.name \in EntryNames \cup {NoName}
        /\ p.len \in Nat /\ p.len % 4 = 0 /\ p.len >= 8
        /\ p.ino # FreeIno => p.len >= ufs_dirsiz(namlen(p.name))
        /\ DOMAIN p = {"ino", "name", "len"}
        /\ s[r].len \in Nat /\ s[r].len % 4 = 0 /\ s[r].len >= 8
    BY <2>3, RecFields
  <2>5. l \in Nat /\ l % 4 = 0 /\ l >= 8
        /\ (p.ino # FreeIno => l >= ufs_dirsiz(namlen(p.name)))
    <3>1. ufs_dirsiz(namlen(p.name)) \in Nat  BY <2>4, EntrySize
    <3> QED  BY <2>4, <3>1
  <2>6. y \in Rec /\ y.ino = p.ino /\ y.name = p.name /\ y.len = l
    <3>1. l \in Nat /\ l % 4 = 0 /\ l >= 8  BY <2>5
    <3>2. p.ino # FreeIno => l >= ufs_dirsiz(namlen(p.name))  BY <2>5
    <3> HIDE DEF l
    <3>3. Record(p.ino, p.name, l) \in Rec  BY <2>4, <3>1, <3>2 DEF Rec, Record
    <3> QED  BY <3>3 DEF Record
  <2>7. t = [u EXCEPT ![r - 1] = y]
    <3>1. [p EXCEPT !.len = @ + s[r].len] = y
      BY <2>3, <2>4 DEF Record, Rec
    <3>2. t = [u EXCEPT ![r - 1].len = @ + s[r].len]  BY <1>3, <1>4 DEF u
    <3>3. t = [u EXCEPT ![r - 1] = [p EXCEPT !.len = @ + s[r].len]]
      BY <2>3, <3>2
    <3> QED  BY <3>1, <3>3
  <2> HIDE DEF y, l
  <2>8. /\ t \in Seq(Rec) /\ Len(t) = n0 - 1
        /\ \A i \in 1 .. n0 - 1 : t[i] = IF i = r - 1 THEN y ELSE u[i]
    BY <2>1, <2>2, <2>6, <2>7, ExceptSeq
  <2>9. DOMAIN t = 1 .. n0 - 1  BY <2>8, LenProperties
  <2>10. /\ \A i \in 1 .. r - 2 : t[i] = s[i]
         /\ t[r - 1] = y
         /\ \A i \in r + 1 .. n0 : t[i - 1] = s[i]
    <3>1. \A i \in 1 .. r - 2 : i \in 1 .. n0 - 1 /\ i # r - 1 /\ i \in 1 .. r - 1
      BY <1>1, <1>2
    <3>2. \A i \in r + 1 .. n0 : i - 1 \in 1 .. n0 - 1 /\ i - 1 # r - 1
      BY <1>1, <1>2
    <3> QED  BY <2>1, <2>2, <2>8, <3>1, <3>2
  <2>11. Length(t) = Length(s)
    <3>1. r \in 2 .. Len(s) /\ Len(t) = Len(s) - 1
      BY <1>1, <1>2, <1>4, <2>8 DEF n0
    <3>2. /\ \A i \in 1 .. r - 2 : t[i].len = s[i].len
          /\ t[r - 1].len = s[r - 1].len + s[r].len
          /\ \A i \in r + 1 .. Len(s) : t[i - 1].len = s[i].len
      BY <2>6, <2>10 DEF n0, p, l
    <3> QED  BY <2>8, <3>1, <3>2, MergeLength
  <2> DEFINE f == [i \in 1 .. n0 |-> IF i < r THEN i ELSE i - 1]
  <2>12. \A i \in 1 .. n0 : i # r =>
           /\ f[i] \in 1 .. n0 - 1
           /\ t[f[i]].ino = s[i].ino /\ t[f[i]].name = s[i].name
    <3> SUFFICES ASSUME NEW i \in 1 .. n0, i # r
                 PROVE  /\ f[i] \in 1 .. n0 - 1
                        /\ t[f[i]].ino = s[i].ino /\ t[f[i]].name = s[i].name
      OBVIOUS
    <3>1. f[i] = IF i < r THEN i ELSE i - 1  OBVIOUS
    <3> HIDE DEF f
    <3>2. CASE i < r - 1
      <4>1. i \in 1 .. r - 2 /\ f[i] = i /\ i \in 1 .. n0 - 1
        BY <1>1, <1>2, <3>1, <3>2
      <4> QED  BY <2>10, <4>1
    <3>3. CASE i = r - 1
      <4>1. f[i] = r - 1 /\ s[i] = p  BY <1>1, <1>2, <3>1, <3>3 DEF p
      <4> QED  BY <2>2, <2>6, <2>10, <4>1
    <3>4. CASE i > r
      <4>1. i \in r + 1 .. n0 /\ f[i] = i - 1 /\ i - 1 \in 1 .. n0 - 1
        BY <1>1, <1>2, <3>1, <3>4
      <4>2. t[i - 1] = s[i]  BY <2>10, <4>1
      <4> QED  BY <4>1, <4>2
    <3> QED  BY <1>1, <1>2, <3>2, <3>3, <3>4
  <2>13. \A k \in 1 .. n0 - 1 : \E i \in 1 .. n0 : i # r /\ f[i] = k
    <3> SUFFICES ASSUME NEW k \in 1 .. n0 - 1
                 PROVE  \E i \in 1 .. n0 : i # r /\ f[i] = k
      OBVIOUS
    <3>1. CASE k < r
      <4>1. k \in 1 .. n0 /\ k # r  BY <1>2, <3>1, <1>1
      <4>2. f[k] = k  BY <3>1, <4>1
      <4> QED  BY <4>1, <4>2
    <3>2. CASE ~(k < r)
      <4>1. k + 1 \in 1 .. n0 /\ k + 1 # r /\ ~(k + 1 < r) /\ k + 1 - 1 = k
        BY <1>1, <1>2, <3>2
      <4>2. f[k + 1] = k  BY <4>1
      <4> HIDE DEF f
      <4> QED  BY <4>1, <4>2
    <3> QED  BY <3>1, <3>2
  <2> HIDE DEF f
  <2>14. ASSUME NEW n, n # m  PROVE Same(t, s, n)
    <3>1. \A i \in DOMAIN s : Live(s[i], n) =>
            f[i] \in DOMAIN t /\ Live(t[f[i]], n) /\ t[f[i]].ino = s[i].ino
      <4> SUFFICES ASSUME NEW i \in 1 .. n0, Live(s[i], n)
                   PROVE  /\ f[i] \in 1 .. n0 - 1 /\ Live(t[f[i]], n)
                          /\ t[f[i]].ino = s[i].ino
        BY <1>2, <2>9
      <4>1. i # r  BY <1>1, <2>14 DEF Live
      <4> QED  BY <2>12, <4>1 DEF Live
    <3>2. \A k \in DOMAIN t : Live(t[k], n) =>
            \E i \in DOMAIN s : f[i] = k /\ Live(s[i], n)
      <4> SUFFICES ASSUME NEW k \in 1 .. n0 - 1, Live(t[k], n)
                   PROVE  \E i \in 1 .. n0 : f[i] = k /\ Live(s[i], n)
        BY <1>2, <2>9
      <4>1. PICK i \in 1 .. n0 : i # r /\ f[i] = k  BY <2>13
      <4>2. t[k].ino = s[i].ino /\ t[k].name = s[i].name  BY <2>12, <4>1
      <4> QED  BY <4>1, <4>2 DEF Live
    <3> QED  BY <3>1, <3>2, Moved
  <2>15. ASSUME Once(s, m)  PROVE \A j : ~ Has(t, m, j)
    <3> SUFFICES ASSUME NEW k \in 1 .. n0 - 1, Live(t[k], m)  PROVE FALSE
      BY <2>9 DEF Has
    <3>1. PICK i \in 1 .. n0 : i # r /\ f[i] = k  BY <2>13
    <3>2. Live(s[i], m)  BY <2>12, <3>1 DEF Live
    <3> QED  BY <1>1, <1>2, <2>15, <3>1, <3>2 DEF Once
  <2> QED  BY <2>8, <2>11, <2>14, <2>15 DEF t
<1>5. CASE ~(r > 2)
  <2> DEFINE x == Record(FreeIno, NoName, s[r].len)
  <2>1. /\ s[r] \in Rec /\ s[r].len \in Nat /\ s[r].len % 4 = 0 /\ s[r].len >= 8
    BY <1>1, <1>2, RecFields
  <2>2. x \in Rec /\ x.ino = FreeIno /\ x.len = s[r].len
    <3>1. FreeIno \in Inodes \cup {FreeIno} /\ NoName \in EntryNames \cup {NoName}
      OBVIOUS
    <3> DEFINE l == s[r].len
    <3>2. l \in Nat /\ l % 4 = 0 /\ l >= 8  BY <2>1
    <3> HIDE DEF l
    <3>3. /\ Record(FreeIno, NoName, l) \in Rec
          /\ Record(FreeIno, NoName, l).ino = FreeIno
          /\ Record(FreeIno, NoName, l).len = l
      BY <3>1, <3>2, RecordIsRec
    <3> QED  BY <3>3 DEF l
  <2>3. t = [s EXCEPT ![r] = x]  BY <1>3, <1>5
  <2>4. r \in 1 .. Len(s)  BY <1>1 DEF n0
  <2> HIDE DEF x
  <2> DEFINE v == [s EXCEPT ![r] = x]
  <2>5. /\ v \in Seq(Rec) /\ Length(v) = Length(s)
        /\ \A n : n # m => Same(v, s, n)
        /\ Once(s, m) /\ x.ino = FreeIno => \A j : ~ Has(v, m, j)
    BY <1>1, <2>2, <2>4, Replaced
  <2> HIDE DEF v
  <2> QED  BY <2>2, <2>3, <2>5 DEF t, v
<1> QED  BY <1>4, <1>5

\* A record with another inode number.
LEMMA InoReplaced ==
  ASSUME NEW p \in Rec, NEW ino
  PROVE  [p EXCEPT !.ino = ino] = Record(ino, p.name, p.len)
<1> DEFINE x == [p EXCEPT !.ino = ino]
           y == Record(ino, p.name, p.len)
<1>1. DOMAIN p = {"ino", "name", "len"}  BY RecFields
<1>2. DOMAIN x = {"ino", "name", "len"} /\ DOMAIN y = {"ino", "name", "len"}
  BY <1>1 DEF Record
<1>3. x["ino"] = y["ino"] /\ x["name"] = y["name"] /\ x["len"] = y["len"]
  BY <1>1 DEF Record
<1>4. x = [k \in DOMAIN x |-> x[k]] /\ y = [k \in DOMAIN y |-> y[k]]
  BY DEF Record
<1> HIDE DEF x, y
<1>5. x = y  BY <1>2, <1>3, <1>4
<1> QED  BY <1>5 DEF x, y

\* rewrite_entry_inode in one block.
LEMMA BlockRewrite ==
  ASSUME NEW s \in Seq(Rec), NEW m \in EntryNames, Matches(s, m) # {},
         NEW ino \in Inodes
  PROVE  LET t == rewrite_entry_inode(s, m, ino)
         IN  /\ t \in Seq(Rec) /\ Length(t) = Length(s)
             /\ \A n : n # m => Same(t, s, n)
             /\ Once(s, m) => HoldsOnce(t, m, ino)
<1> DEFINE r == Min(Matches(s, m))
           t == rewrite_entry_inode(s, m, ino)
           p == s[r]
           x == Record(ino, p.name, p.len)
<1>1. r \in 1 .. Len(s) /\ Live(s[r], m)  BY FirstMatch
<1>2. t = [s EXCEPT ![r].ino = ino]  BY DEF rewrite_entry_inode
<1> HIDE DEF r
<1>3. p \in Rec  BY <1>1, ElementOfSeq
<1> HIDE DEF p
<1>4. /\ p.name \in EntryNames \cup {NoName}
      /\ p.len \in Nat /\ p.len % 4 = 0 /\ p.len >= 8
      /\ p.ino # FreeIno => p.len >= ufs_dirsiz(namlen(p.name))
      /\ DOMAIN p = {"ino", "name", "len"}
  BY <1>3, RecFields
<1>5. p.ino # FreeIno /\ p.name = m  BY <1>1 DEF Live, p
<1>6. x \in Rec /\ x.ino = ino /\ x.name = p.name /\ x.len = p.len
  BY <1>4, <1>5, RecordIsRec
<1>7. ino # FreeIno  BY DirectoryAssumption DEF FreeIno
<1>8. t = [s EXCEPT ![r] = x]
  <2>1. [p EXCEPT !.ino = ino] = x  BY <1>3, InoReplaced
  <2>2. t = [s EXCEPT ![r] = [p EXCEPT !.ino = ino]]  BY <1>2 DEF p
  <2> QED  BY <2>1, <2>2
<1> HIDE DEF x
<1>9. Live(x, m) /\ x.len = s[r].len  BY <1>5, <1>6, <1>7 DEF Live, p
<1> DEFINE v == [s EXCEPT ![r] = x]
<1>10. /\ v \in Seq(Rec) /\ Length(v) = Length(s)
       /\ \A n : n # m => Same(v, s, n)
       /\ Once(s, m) /\ x.ino # FreeIno => HoldsOnce(v, m, x.ino)
  BY <1>1, <1>6, <1>9, Replaced
<1> HIDE DEF v, t
<1> QED  BY <1>6, <1>7, <1>8, <1>10 DEF t, v

----------------------------------------------------------------------------
(* Blocks, and the directory they make.                                    *)

\* A block: records that fill it exactly.
Block == {s \in Seq(Rec) : Length(s) = DIRBLKSIZ}

\* A new block of a directory: the entry and free space.
LEMMA BlockNew ==
  ASSUME NEW ino \in Inodes, NEW name \in Names,
         ufs_dirsiz(namlen(name)) <= DIRBLKSIZ
  PROVE  LET t == FillSpace(ino, name, DIRBLKSIZ)
         IN  /\ t \in Block
             /\ \A n, j : n # name => ~ Has(t, n, j)
             /\ HoldsOnce(t, name, ino)
<1> DEFINE t == FillSpace(ino, name, DIRBLKSIZ)
<1>1. /\ t \in Seq(Rec) /\ t[1].ino = ino /\ t[1].name = name
      /\ \/ Len(t) = 1 /\ t[1].len = DIRBLKSIZ
         \/ Len(t) = 2 /\ t[2].ino = FreeIno /\ t[1].len + t[2].len = DIRBLKSIZ
  <2>1. DIRBLKSIZ \in Nat /\ DIRBLKSIZ % 4 = 0
        /\ DIRBLKSIZ >= ufs_dirsiz(namlen(name))
    <3>1. name \in EntryNames \cup {NoName}  BY DEF EntryNames
    <3>2. ufs_dirsiz(namlen(name)) \in Nat  BY <3>1, EntrySize
    <3> QED  BY <3>2, NamesAssumption
  <2> QED  BY <2>1, FillSpaceIs
<1> HIDE DEF t
<1>2. ino # FreeIno  BY DirectoryAssumption DEF FreeIno
<1>3. DOMAIN t = 1 .. Len(t)  BY <1>1, LenProperties
<1>4. 1 \in DOMAIN t /\ \A i \in DOMAIN t : i = 1 \/ t[i].ino = FreeIno
  BY <1>1, <1>3
<1>5. Length(t) = DIRBLKSIZ
  <2> DEFINE f == Offsets(t)
  <2>1. /\ f[0] = 0
        /\ \A r \in 1 .. Len(t) : f[r] = f[r - 1] + t[r].len
    BY <1>1, OffsetsAre
  <2>2. Length(t) = f[Len(t)]  BY DEF Length
  <2> HIDE DEF f
  <2>3. \A r \in 1 .. Len(t) : t[r].len \in Nat
    <3>1. \A r \in 1 .. Len(t) : t[r] \in Rec  BY <1>1, ElementOfSeq
    <3> QED  BY <3>1, RecFields
  <2>4. CASE Len(t) = 1 /\ t[1].len = DIRBLKSIZ
    <3>1. f[1] = f[0] + t[1].len  BY <2>1, <2>4
    <3> QED  BY <2>1, <2>2, <2>3, <2>4, <3>1
  <2>5. CASE Len(t) = 2 /\ t[1].len + t[2].len = DIRBLKSIZ
    <3>1. 1 \in 1 .. Len(t) /\ 2 \in 1 .. Len(t) /\ 1 - 1 = 0 /\ 2 - 1 = 1
      BY <2>5
    <3>2. f[1] = f[0] + t[1].len /\ f[2] = f[1] + t[2].len  BY <2>1, <3>1
    <3> QED  BY <2>1, <2>2, <2>3, <2>5, <3>1, <3>2
  <2> QED  BY <1>1, <2>4, <2>5
<1>6. \A n, j : n # name => ~ Has(t, n, j)
  BY <1>1, <1>4 DEF Has, Live
<1>7. HoldsOnce(t, name, ino)
  BY <1>1, <1>2, <1>4 DEF HoldsOnce, Once, Has, Live
<1> QED  BY <1>1, <1>5, <1>6, <1>7 DEF Block, t

DirHas(d, n, j) == \E b \in DOMAIN d : Has(d[b], n, j)

DirOnce(d, n) ==
  /\ \A b \in DOMAIN d : Once(d[b], n)
  /\ \A b, c \in DOMAIN d : \A i, j : Has(d[b], n, i) /\ Has(d[c], n, j) => b = c

\* Directory e has the entry of name n as directory d has it.
DirSame(e, d, n) ==
  /\ \A j : DirHas(e, n, j) <=> DirHas(d, n, j)
  /\ DirOnce(d, n) => DirOnce(e, n)

\* Directory e has name n once, with inode j.
DirHolds(e, n, j) == DirOnce(e, n) /\ \A i : DirHas(e, n, i) <=> i = j

\* A name that a block does not have, it does not have twice.
LEMMA NoneOnce ==
  ASSUME NEW s, NEW n, \A j : ~ Has(s, n, j)
  PROVE  Once(s, n)
  BY DEF Has, Once

\* A block that changes the entry of one name only.
LEMMA BlockReplaced ==
  ASSUME NEW d \in Seq(Block), NEW b \in 1 .. Len(d), NEW t \in Block, NEW m,
         \A n : n # m => Same(t, d[b], n)
  PROVE  LET e == [d EXCEPT ![b] = t]
         IN  /\ e \in Seq(Block) /\ Len(e) = Len(d)
             /\ \A n : n # m => DirSame(e, d, n)
             /\ (\A c \in 1 .. Len(d) : c # b => \A j : ~ Has(d[c], m, j)) =>
                  /\ \A j : DirHas(e, m, j) <=> Has(t, m, j)
                  /\ Once(t, m) => DirOnce(e, m)
<1> DEFINE e == [d EXCEPT ![b] = t]
           N == 1 .. Len(d)
<1>1. /\ e \in Seq(Block) /\ Len(e) = Len(d)
      /\ \A i \in 1 .. Len(d) : e[i] = IF i = b THEN t ELSE d[i]
  BY ExceptSeq
<1>2. DOMAIN e = N /\ DOMAIN d = N /\ b \in N  BY <1>1, LenProperties
<1>3. e[b] = t /\ \A i \in N : i # b => e[i] = d[i]  BY <1>1, <1>2
<1> HIDE DEF e, N
<1>4. ASSUME NEW n, n # m  PROVE DirSame(e, d, n)
  <2>1. Same(t, d[b], n)  BY <1>4
  <2>2. \A i \in N : \A j : Has(e[i], n, j) <=> Has(d[i], n, j)
    BY <1>3, <2>1 DEF Same
  <2>3. \A i \in N : Once(d[i], n) => Once(e[i], n)
    BY <1>3, <2>1 DEF Same
  <2> QED  BY <1>2, <2>2, <2>3 DEF DirSame, DirHas, DirOnce
<1>5. ASSUME \A c \in N : c # b => \A j : ~ Has(d[c], m, j)
      PROVE  /\ \A j : DirHas(e, m, j) <=> Has(t, m, j)
             /\ Once(t, m) => DirOnce(e, m)
  <2>1. \A c \in N : c # b => \A j : ~ Has(e[c], m, j)  BY <1>3, <1>5
  <2>2. \A c \in N : c # b => Once(e[c], m)  BY <2>1, NoneOnce
  <2> QED  BY <1>2, <1>3, <2>1, <2>2 DEF DirHas, DirOnce
<1> QED  BY <1>1, <1>4, <1>5 DEF e, N

\* A block added at the end, with one name.
LEMMA BlockAppended ==
  ASSUME NEW d \in Seq(Block), NEW t \in Block, NEW m,
         \A n, j : n # m => ~ Has(t, n, j)
  PROVE  LET e == Append(d, t)
         IN  /\ e \in Seq(Block) /\ Len(e) = Len(d) + 1
             /\ \A n : n # m => DirSame(e, d, n)
             /\ (\A j : ~ DirHas(d, m, j)) =>
                  /\ \A j : DirHas(e, m, j) <=> Has(t, m, j)
                  /\ Once(t, m) => DirOnce(e, m)
<1> DEFINE e == Append(d, t)
           k == Len(d) + 1
           N == 1 .. Len(d)
<1>1. /\ e \in Seq(Block) /\ Len(e) = Len(d) + 1
      /\ \A i \in 1 .. Len(d) : e[i] = d[i]
      /\ e[Len(d) + 1] = t
  BY AppendProperties
<1>2. DOMAIN e = N \cup {k} /\ DOMAIN d = N /\ k \notin N
  <2>1. Len(d) \in Nat  BY LenProperties
  <2>2. 1 .. Len(d) + 1 = N \cup {k} /\ k \notin N  BY <2>1
  <2> QED  BY <1>1, <2>2, LenProperties
<1>3. e[k] = t /\ \A i \in N : e[i] = d[i]  BY <1>1
<1> HIDE DEF e, k, N
<1>4. ASSUME NEW n, n # m  PROVE DirSame(e, d, n)
  <2>1. \A j : ~ Has(t, n, j)  BY <1>4
  <2>2. Once(t, n)  BY <2>1, NoneOnce
  <2>3. \A j : DirHas(e, n, j) <=> DirHas(d, n, j)
    BY <1>2, <1>3, <2>1 DEF DirHas
  <2>4. ASSUME DirOnce(d, n)  PROVE DirOnce(e, n)
    BY <1>2, <1>3, <2>1, <2>2, <2>4 DEF DirOnce
  <2> QED  BY <2>3, <2>4 DEF DirSame
<1>5. ASSUME \A j : ~ DirHas(d, m, j)
      PROVE  /\ \A j : DirHas(e, m, j) <=> Has(t, m, j)
             /\ Once(t, m) => DirOnce(e, m)
  <2>1. \A c \in N : \A j : ~ Has(e[c], m, j)  BY <1>2, <1>3, <1>5 DEF DirHas
  <2>2. \A c \in N : Once(e[c], m)  BY <2>1, NoneOnce
  <2> QED  BY <1>2, <1>3, <2>1, <2>2 DEF DirHas, DirOnce
<1> QED  BY <1>1, <1>4, <1>5 DEF e

----------------------------------------------------------------------------
(* insert_entry.                                                           *)

\* Some record of the directory has room for the entry.
HasRoom(d, need) ==
  \E b \in DOMAIN d : \E r \in DOMAIN d[b] : Room(d[b][r]) >= need

\* The entry goes into a record with room, or into a new block at the end
\* when there is none.
InsertIs(d, e, ino, name) ==
  \/ \E b \in 1 .. Len(d) : \E r \in 1 .. Len(d[b]) :
       /\ Room(d[b][r]) >= ufs_dirsiz(namlen(name))
       /\ e = [d EXCEPT ![b] = Splice(d[b], r, NewRecords(d[b][r], ino, name))]
  \/ /\ ~ HasRoom(d, ufs_dirsiz(namlen(name)))
     /\ e = Append(d, FillSpace(ino, name, DIRBLKSIZ))

\* The slot that find_insert_slot gives.
LEMMA SlotIs ==
  ASSUME NEW d \in Seq(Seq(Rec)), NEW need
  PROVE  LET slot == find_insert_slot(d, need)
         IN  \/ slot[2] = 0 /\ ~ HasRoom(d, need)
             \/ /\ slot[1] \in 1 .. Len(d) /\ slot[2] \in 1 .. Len(d[slot[1]])
                /\ Room(d[slot[1]][slot[2]]) >= need
<1> DEFINE roomy == {b \in DOMAIN d : RoomyRecords(d[b], need) # {}}
           b1 == Min(roomy)
           R == RoomyRecords(d[b1], need)
           r1 == Min(R)
           slot == find_insert_slot(d, need)
<1>1. slot = IF roomy = {} THEN <<Len(d) + 1, 0>> ELSE <<b1, r1>>
  BY DEF find_insert_slot
<1>2. Len(d) \in Nat /\ DOMAIN d = 1 .. Len(d)
      /\ \A b \in 1 .. Len(d) : d[b] \in Seq(Rec)
  BY LenProperties, ElementOfSeq
<1> HIDE DEF slot
<1>3. CASE roomy = {}
  <2>1. slot[2] = 0  BY <1>1, <1>3
  <2>2. ~ HasRoom(d, need)  BY <1>3 DEF HasRoom, RoomyRecords
  <2> QED  BY <2>1, <2>2 DEF slot
<1>4. CASE roomy # {}
  <2>1. slot = <<b1, r1>>  BY <1>1, <1>4
  <2>2. roomy \subseteq Nat  BY <1>2
  <2>3. b1 \in roomy
    <3> HIDE DEF roomy
    <3> QED  BY <1>4, <2>2, MinInSet
  <2>4. b1 \in 1 .. Len(d) /\ R # {}  BY <1>2, <2>3
  <2> HIDE DEF b1
  <2>5. d[b1] \in Seq(Rec)  BY <1>2, <2>4
  <2>6. DOMAIN d[b1] = 1 .. Len(d[b1]) /\ Len(d[b1]) \in Nat
    BY <2>5, LenProperties
  <2>7. R \subseteq Nat  BY <2>6 DEF RoomyRecords
  <2>8. r1 \in R
    <3> HIDE DEF R
    <3> QED  BY <2>4, <2>7, MinInSet
  <2>9. r1 \in 1 .. Len(d[b1]) /\ Room(d[b1][r1]) >= need
    BY <2>6, <2>8 DEF RoomyRecords
  <2> HIDE DEF r1, R
  <2> QED  BY <2>1, <2>4, <2>9 DEF slot
<1> QED  BY <1>3, <1>4

\* What insert_entry does.
LEMMA InsertEntryIs ==
  ASSUME NEW d \in Seq(Seq(Rec)), NEW ino, NEW name
  PROVE  LET new == insert_entry(d, ino, name)
         IN  /\ DOMAIN new = {"ok", "dir"} /\ new.ok \in BOOLEAN
             /\ new.ok => InsertIs(d, new.dir, ino, name)
                          /\ ~(ufs_dirsiz(namlen(name)) > DIRBLKSIZ)
             /\ ~ new.ok => new.dir = d
<1> DEFINE need == ufs_dirsiz(namlen(name))
           new == insert_entry(d, ino, name)
           slot == find_insert_slot(d, need)
           e == IF slot[2] = 0
                  THEN Append(d, FillSpace(ino, name, DIRBLKSIZ))
                  ELSE [d EXCEPT ![slot[1]] =
                          Splice(@, slot[2], NewRecords(@[slot[2]], ino, name))]
<1>1. new = IF need > DIRBLKSIZ THEN [ok |-> FALSE, dir |-> d]
            ELSE [ok |-> TRUE, dir |-> e]
  BY DEF insert_entry, Splice, NewRecords
<1> HIDE DEF new
<1>2. ASSUME new.ok  PROVE InsertIs(d, e, ino, name)
  <2>1. \/ slot[2] = 0 /\ ~ HasRoom(d, need)
        \/ /\ slot[1] \in 1 .. Len(d) /\ slot[2] \in 1 .. Len(d[slot[1]])
           /\ Room(d[slot[1]][slot[2]]) >= need
    <3> HIDE DEF need
    <3> QED  BY SlotIs
  <2> HIDE DEF slot
  <2>2. CASE slot[2] = 0 /\ ~ HasRoom(d, need)
    BY <2>2 DEF InsertIs
  <2>3. CASE /\ slot[1] \in 1 .. Len(d) /\ slot[2] \in 1 .. Len(d[slot[1]])
             /\ Room(d[slot[1]][slot[2]]) >= need
    <3> DEFINE b == slot[1]
               r == slot[2]
    <3>1. b \in 1 .. Len(d) /\ r \in 1 .. Len(d[b]) /\ Room(d[b][r]) >= need
      BY <2>3
    <3>2. r # 0  BY <3>1
    <3>3. DOMAIN d = 1 .. Len(d)  BY LenProperties
    <3>4. e = [d EXCEPT ![b] = Splice(d[b], r, NewRecords(d[b][r], ino, name))]
      BY <3>1, <3>2, <3>3
    <3> HIDE DEF b, r, e
    <3> QED  BY <3>1, <3>4 DEF InsertIs
  <2> QED  BY <2>1, <2>2, <2>3
<1> HIDE DEF e
<1>3. DOMAIN new = {"ok", "dir"} /\ new.ok \in BOOLEAN  BY <1>1
<1>4. new.ok => new.dir = e /\ ~(need > DIRBLKSIZ)  BY <1>1
<1>5. ~ new.ok => new.dir = d  BY <1>1
<1> QED  BY <1>2, <1>3, <1>4, <1>5 DEF new

\* The effect of an insertion: the entry is there, once, and no other one is
\* touched.
LEMMA InsertEffect ==
  ASSUME NEW d \in Seq(Block), NEW e, NEW ino \in Inodes, NEW name \in Names,
         InsertIs(d, e, ino, name), ~(ufs_dirsiz(namlen(name)) > DIRBLKSIZ),
         \A j : ~ DirHas(d, name, j)
  PROVE  /\ e \in Seq(Block) /\ Len(e) >= Len(d)
         /\ \A n : n # name => DirSame(e, d, n)
         /\ DirHolds(e, name, ino)
         /\ Len(e) > Len(d) => ~ HasRoom(d, ufs_dirsiz(namlen(name)))
<1> DEFINE need == ufs_dirsiz(namlen(name))
<1>1. DOMAIN d = 1 .. Len(d) /\ Len(d) \in Nat
      /\ \A b \in 1 .. Len(d) : d[b] \in Block
  BY LenProperties, ElementOfSeq
<1>2. CASE \E b \in 1 .. Len(d) : \E r \in 1 .. Len(d[b]) :
             /\ Room(d[b][r]) >= need
             /\ e = [d EXCEPT ![b] = Splice(d[b], r, NewRecords(d[b][r], ino, name))]
  <2>0. PICK b \in 1 .. Len(d) : \E r \in 1 .. Len(d[b]) :
             /\ Room(d[b][r]) >= need
             /\ e = [d EXCEPT ![b] = Splice(d[b], r, NewRecords(d[b][r], ino, name))]
    BY <1>2
  <2>1. PICK r \in 1 .. Len(d[b]) :
             /\ Room(d[b][r]) >= need
             /\ e = [d EXCEPT ![b] = Splice(d[b], r, NewRecords(d[b][r], ino, name))]
    BY <2>0
  <2> DEFINE s == d[b]
             new == NewRecords(s[r], ino, name)
             t == Splice(s, r, new)
             v == [d EXCEPT ![b] = t]
  <2>2. s \in Seq(Rec) /\ Length(s) = DIRBLKSIZ /\ r \in 1 .. Len(s)
    BY <1>1 DEF Block
  <2>3. e = v /\ Room(s[r]) >= need  BY <2>1
  <2>4. \A c \in 1 .. Len(d) : \A j : ~ Has(d[c], name, j)  BY <1>1 DEF DirHas
  <2>5. \A j : ~ Has(s, name, j)  BY <2>4
  <2> HIDE DEF s
  <2>6. s[r] \in Rec  BY <2>2, ElementOfSeq
  <2>7. NewFor(new, s[r], ino, name)  BY <2>3, <2>6, NewRecordsAre
  <2> HIDE DEF new
  <2>8. /\ t \in Seq(Rec) /\ Length(t) = Length(s)
        /\ \A n : n # name => Same(t, s, n)
        /\ (\A j : ~ Has(s, name, j)) => HoldsOnce(t, name, ino)
    BY <2>2, <2>7, BlockInsert
  <2> HIDE DEF t
  <2>9. t \in Block /\ HoldsOnce(t, name, ino)  BY <2>2, <2>5, <2>8 DEF Block
  <2>10. \A n : n # name => Same(t, d[b], n)  BY <2>8 DEF s
  <2>11. /\ v \in Seq(Block) /\ Len(v) = Len(d)
         /\ \A n : n # name => DirSame(v, d, n)
         /\ (\A c \in 1 .. Len(d) : c # b => \A j : ~ Has(d[c], name, j)) =>
              /\ \A j : DirHas(v, name, j) <=> Has(t, name, j)
              /\ Once(t, name) => DirOnce(v, name)
    BY <2>9, <2>10, BlockReplaced
  <2> HIDE DEF v
  <2>12. DirHolds(v, name, ino)
    BY <2>4, <2>9, <2>11 DEF DirHolds, HoldsOnce
  <2>13. Len(v) >= Len(d) /\ ~(Len(v) > Len(d))  BY <1>1, <2>11
  <2> QED  BY <2>3, <2>11, <2>12, <2>13
<1>3. CASE ~ HasRoom(d, need) /\ e = Append(d, FillSpace(ino, name, DIRBLKSIZ))
  <2> DEFINE t == FillSpace(ino, name, DIRBLKSIZ)
             v == Append(d, t)
  <2>1. need <= DIRBLKSIZ
    <3>1. name \in EntryNames \cup {NoName}  BY DEF EntryNames
    <3>2. need \in Nat  BY <3>1, EntrySize
    <3> QED  BY <3>2, NamesAssumption
  <2>2. /\ t \in Block
        /\ \A n, j : n # name => ~ Has(t, n, j)
        /\ HoldsOnce(t, name, ino)
    BY <2>1, BlockNew
  <2> HIDE DEF t
  <2>3. /\ v \in Seq(Block) /\ Len(v) = Len(d) + 1
        /\ \A n : n # name => DirSame(v, d, n)
        /\ (\A j : ~ DirHas(d, name, j)) =>
             /\ \A j : DirHas(v, name, j) <=> Has(t, name, j)
             /\ Once(t, name) => DirOnce(v, name)
    BY <2>2, BlockAppended
  <2>4. e = v  BY <1>3 DEF t
  <2> HIDE DEF v
  <2>5. DirHolds(v, name, ino)  BY <2>2, <2>3 DEF DirHolds, HoldsOnce
  <2>6. Len(v) >= Len(d)  BY <1>1, <2>3
  <2> QED  BY <1>3, <2>3, <2>4, <2>5, <2>6
<1> QED  BY <1>2, <1>3 DEF InsertIs

\* The last block put back after it alone was changed (add_directory_entry).
LEMMA LastReplaced ==
  ASSUME NEW S, NEW d \in Seq(S), Len(d) >= 1, NEW x
  PROVE  Front(d) \o <<x>> = [d EXCEPT ![Len(d)] = x]
<1> DEFINE T == S \cup {x}
           k == Len(d)
           f == Front(d)
           one == <<x>>
           u == f \o one
           v == [d EXCEPT ![k] = x]
<1>1. d \in Seq(T) /\ x \in T
  <2>1. S \subseteq T  OBVIOUS
  <2> HIDE DEF T
  <2> QED  BY <2>1, SeqMonotonic DEF T
<1>2. k \in Nat /\ k >= 1  BY LenProperties
<1> HIDE DEF T
<1>3. \A i \in 1 .. k : d[i] \in T  BY <1>1, ElementOfSeq
<1>4. f \in Seq(T) /\ Len(f) = k - 1 /\ \A i \in 1 .. k - 1 : f[i] = d[i]
  <2>1. 1 \in Int /\ k - 1 \in Int /\ \A i \in 1 .. k - 1 : d[i] \in T
    BY <1>2, <1>3
  <2>2. f = SubSeq(d, 1, k - 1)  BY DEF Front
  <2> HIDE DEF k, f
  <2>3. /\ SubSeq(d, 1, k - 1) \in Seq(T)
        /\ Len(SubSeq(d, 1, k - 1)) = IF 1 <= k - 1 THEN (k - 1) - 1 + 1 ELSE 0
        /\ \A i \in 1 .. (k - 1) - 1 + 1 : SubSeq(d, 1, k - 1)[i] = d[1 + i - 1]
    BY <2>1, SubSeqProperties
  <2> QED  BY <1>2, <2>2, <2>3
<1>5. one \in Seq(T) /\ Len(one) = 1 /\ one[1] = x  BY <1>1
<1> HIDE DEF f, one
<1>6. /\ u \in Seq(T) /\ Len(u) = Len(f) + Len(one)
      /\ \A i \in 1 .. Len(f) + Len(one) :
           u[i] = IF i <= Len(f) THEN f[i] ELSE one[i - Len(f)]
  BY <1>4, <1>5, ConcatProperties
<1>7. /\ v \in Seq(T) /\ Len(v) = k
      /\ \A i \in 1 .. k : v[i] = IF i = k THEN x ELSE d[i]
  <2>1. k \in 1 .. Len(d)  BY <1>2
  <2> HIDE DEF k
  <2>2. Len(d) = k  BY DEF k
  <2> QED  BY <1>1, <2>1, <2>2, ExceptSeq
<1> HIDE DEF u, v, k
<1>8. Len(u) = k /\ Len(u) = Len(v)  BY <1>2, <1>4, <1>5, <1>6, <1>7
<1>9. ASSUME NEW i \in 1 .. k  PROVE u[i] = v[i]
  <2>1. CASE i = k
    <3>1. i \in 1 .. Len(f) + Len(one) /\ ~(i <= Len(f)) /\ i - Len(f) = 1
      BY <1>2, <1>4, <1>5, <2>1
    <3> QED  BY <1>5, <1>6, <1>7, <2>1, <3>1
  <2>2. CASE i # k
    <3>1. i \in 1 .. Len(f) + Len(one) /\ i <= Len(f) /\ i \in 1 .. k - 1
      BY <1>2, <1>4, <1>5, <2>2
    <3> QED  BY <1>4, <1>6, <1>7, <2>2, <3>1
  <2> QED  BY <2>1, <2>2
<1>10. u = v  BY <1>6, <1>7, <1>8, <1>9, SeqEqual
<1> QED  BY <1>10 DEF u, v, k, f, one

\* An insertion into the last block alone is one into the directory.
LEMMA InsertIntoLast ==
  ASSUME NEW d \in Seq(Block), Len(d) >= 1, NEW e, NEW ino, NEW name,
         InsertIs(<<d[Len(d)]>>, e, ino, name), Len(e) = 1
  PROVE  InsertIs(d, Front(d) \o e, ino, name)
<1> DEFINE k == Len(d)
           w == <<d[k]>>
           need == ufs_dirsiz(namlen(name))
           new == FillSpace(ino, name, DIRBLKSIZ)
<1>1. k \in Nat /\ k \in 1 .. k  BY LenProperties
<1>2. w \in Seq(Block) /\ Len(w) = 1 /\ w[1] = d[k]
  BY <1>1, ElementOfSeq
<1> HIDE DEF w, k
<1>3. e # Append(w, new)
  <2> HIDE DEF new
  <2> DEFINE T == Block \cup {new}
  <2>1. w \in Seq(T) /\ new \in T
    <3>1. Block \subseteq T  OBVIOUS
    <3> QED  BY <1>2, <3>1, SeqMonotonic
  <2> HIDE DEF T
  <2>2. Len(Append(w, new)) = Len(w) + 1  BY <2>1, AppendProperties
  <2> QED  BY <1>2, <2>2
<1>4. PICK b \in 1 .. Len(w) : \E r \in 1 .. Len(w[b]) :
        /\ Room(w[b][r]) >= need
        /\ e = [w EXCEPT ![b] = Splice(w[b], r, NewRecords(w[b][r], ino, name))]
  <2>1. InsertIs(w, e, ino, name)  BY DEF w, k
  <2> QED  BY <1>3, <2>1 DEF InsertIs
<1>5. b = 1  BY <1>2, <1>4
<1>6. PICK r \in 1 .. Len(d[k]) :
        /\ Room(d[k][r]) >= need
        /\ e = [w EXCEPT ![1] = Splice(d[k], r, NewRecords(d[k][r], ino, name))]
  BY <1>2, <1>4, <1>5
<1> DEFINE x == Splice(d[k], r, NewRecords(d[k][r], ino, name))
<1>7. e = <<x>>
  <2>1. e = [w EXCEPT ![1] = x]  BY <1>6
  <2> HIDE DEF x
  <2> QED  BY <2>1 DEF w
<1>8. Front(d) \o e = [d EXCEPT ![k] = x]
  <2> HIDE DEF x
  <2> QED  BY <1>7, LastReplaced DEF k
<1>9. k \in 1 .. Len(d)  BY <1>1 DEF k
<1> QED  BY <1>6, <1>8, <1>9 DEF InsertIs

\* What AddEntry does: it inserts, or, when no block can hold the entry, it
\* does nothing.
LEMMA AddEntryIs ==
  ASSUME dir \in Seq(Block), Len(dir) >= 1, NEW name \in Names, NEW ino \in Inodes,
         AddEntry(name, ino)
  PROVE  \/ /\ InsertIs(dir, dir', ino, name) /\ Len(dir') <= MaxBlocks
            /\ ~(ufs_dirsiz(namlen(name)) > DIRBLKSIZ)
            /\ named[name] = FreeIno /\ named' = [named EXCEPT ![name] = ino]
         \/ dir' = dir /\ named' = named
<1> DEFINE k == Len(dir)
           w == <<dir[k]>>
           last == insert_entry(w, ino, name)
           all == insert_entry(dir, ino, name)
           hit == Len(dir) > 1 /\ last.ok /\ Len(last.dir) = 1
           new == IF hit THEN [last EXCEPT !.dir = Front(dir) \o @] ELSE all
<1>1. /\ dir' = new.dir /\ Len(new.dir) <= MaxBlocks
      /\ named' = IF new.ok THEN [named EXCEPT ![name] = ino] ELSE named
      /\ named[name] = FreeIno
  BY DEF AddEntry, Last
<1>2. dir \in Seq(Seq(Rec)) /\ w \in Seq(Seq(Rec))
  <2>1. Block \subseteq Seq(Rec)  BY DEF Block
  <2>2. dir \in Seq(Seq(Rec))  BY <2>1, SeqMonotonic
  <2>3. k \in 1 .. Len(dir)  BY LenProperties
  <2>4. dir[k] \in Seq(Rec)  BY <2>2, <2>3, ElementOfSeq
  <2> QED  BY <2>2, <2>4
<1>3. /\ DOMAIN last = {"ok", "dir"}
      /\ last.ok => InsertIs(w, last.dir, ino, name)
                    /\ ~(ufs_dirsiz(namlen(name)) > DIRBLKSIZ)
  <2> HIDE DEF w
  <2> QED  BY <1>2, InsertEntryIs
<1>4. /\ all.ok \in BOOLEAN
      /\ all.ok => InsertIs(dir, all.dir, ino, name)
                   /\ ~(ufs_dirsiz(namlen(name)) > DIRBLKSIZ)
      /\ ~ all.ok => all.dir = dir
  BY <1>2, InsertEntryIs
<1> HIDE DEF last, all
<1>5. CASE hit
  <2>1. new.dir = Front(dir) \o last.dir /\ new.ok = last.ok  BY <1>3, <1>5
  <2>2. InsertIs(<<dir[Len(dir)]>>, last.dir, ino, name)  BY <1>3, <1>5
  <2>3. InsertIs(dir, Front(dir) \o last.dir, ino, name)
    BY <1>5, <2>2, InsertIntoLast
  <2> HIDE DEF new
  <2> QED  BY <1>1, <1>3, <1>5, <2>1, <2>3
<1>6. CASE ~ hit
  <2>1. new = all  BY <1>6
  <2> HIDE DEF new, hit
  <2> QED  BY <1>1, <1>4, <2>1
<1> QED  BY <1>5, <1>6

----------------------------------------------------------------------------
(* remove_entry and rewrite_entry_inode, in the block that has the name.   *)

\* The block that a search stops at has the name, and no other block has it
\* if the name is there once.
LEMMA FirstBlock ==
  ASSUME NEW d \in Seq(Block), NEW m, \E j : DirHas(d, m, j)
  PROVE  LET b == Min(BlocksWith(d, m))
         IN  /\ b \in 1 .. Len(d) /\ d[b] \in Seq(Rec) /\ Length(d[b]) = DIRBLKSIZ
             /\ Matches(d[b], m) # {}
             /\ DirOnce(d, m) =>
                  /\ Once(d[b], m)
                  /\ \A c \in 1 .. Len(d) : c # b => \A j : ~ Has(d[c], m, j)
<1> DEFINE B == BlocksWith(d, m)
           b == Min(B)
<1>1. DOMAIN d = 1 .. Len(d) /\ Len(d) \in Nat  BY LenProperties
<1>2. B \subseteq Nat  BY <1>1 DEF BlocksWith
<1>3. B # {}  BY DEF BlocksWith, Matches, DirHas, Has
<1>4. b \in B
  <2> HIDE DEF B
  <2> QED  BY <1>2, <1>3, MinInSet
<1> HIDE DEF b
<1>5. b \in 1 .. Len(d) /\ Matches(d[b], m) # {}  BY <1>1, <1>4 DEF BlocksWith
<1>6. d[b] \in Block  BY <1>5, ElementOfSeq
<1>7. \E j : Has(d[b], m, j)  BY <1>5 DEF Matches, Has
<1>8. DirOnce(d, m) => Once(d[b], m)
                       /\ \A c \in 1 .. Len(d) : c # b => \A j : ~ Has(d[c], m, j)
  BY <1>1, <1>5, <1>7 DEF DirOnce
<1> QED  BY <1>5, <1>6, <1>8 DEF Block, b, B

\* The effect of a removal: the entry is gone, and no other one is touched.
LEMMA RemoveEffect ==
  ASSUME NEW d \in Seq(Block), NEW m, \E j : DirHas(d, m, j), DirOnce(d, m)
  PROVE  LET b == Min(BlocksWith(d, m))
             e == [d EXCEPT ![b] = remove_entry(@, m)]
         IN  /\ e \in Seq(Block) /\ Len(e) = Len(d)
             /\ \A n : n # m => DirSame(e, d, n)
             /\ DirOnce(e, m) /\ \A j : ~ DirHas(e, m, j)
<1> DEFINE b == Min(BlocksWith(d, m))
           s == d[b]
           t == remove_entry(s, m)
           e == [d EXCEPT ![b] = remove_entry(@, m)]
           v == [d EXCEPT ![b] = t]
<1>1. /\ b \in 1 .. Len(d) /\ s \in Seq(Rec) /\ Length(s) = DIRBLKSIZ
      /\ Matches(s, m) # {} /\ Once(s, m)
      /\ \A c \in 1 .. Len(d) : c # b => \A j : ~ Has(d[c], m, j)
  BY FirstBlock
<1> HIDE DEF b
<1>2. /\ t \in Seq(Rec) /\ Length(t) = Length(s)
      /\ \A n : n # m => Same(t, s, n)
      /\ \A j : ~ Has(t, m, j)
  <2> HIDE DEF s
  <2> QED  BY <1>1, BlockRemove
<1>3. e = v  BY <1>1, LenProperties
<1> HIDE DEF t, e
<1>4. t \in Block /\ Once(t, m)  BY <1>1, <1>2, NoneOnce DEF Block
<1>5. /\ v \in Seq(Block) /\ Len(v) = Len(d)
      /\ \A n : n # m => DirSame(v, d, n)
      /\ (\A c \in 1 .. Len(d) : c # b => \A j : ~ Has(d[c], m, j)) =>
           /\ \A j : DirHas(v, m, j) <=> Has(t, m, j)
           /\ Once(t, m) => DirOnce(v, m)
  BY <1>1, <1>2, <1>4, BlockReplaced
<1> HIDE DEF v
<1> QED  BY <1>1, <1>2, <1>3, <1>4, <1>5 DEF e, b

\* The effect of a rewrite: the entry has the new inode, and no other one is
\* touched.
LEMMA RewriteEffect ==
  ASSUME NEW d \in Seq(Block), NEW m \in EntryNames, \E j : DirHas(d, m, j),
         DirOnce(d, m), NEW ino \in Inodes
  PROVE  LET b == Min(BlocksWith(d, m))
             e == [d EXCEPT ![b] = rewrite_entry_inode(@, m, ino)]
         IN  /\ e \in Seq(Block) /\ Len(e) = Len(d)
             /\ \A n : n # m => DirSame(e, d, n)
             /\ DirHolds(e, m, ino)
<1> DEFINE b == Min(BlocksWith(d, m))
           s == d[b]
           t == rewrite_entry_inode(s, m, ino)
           e == [d EXCEPT ![b] = rewrite_entry_inode(@, m, ino)]
           v == [d EXCEPT ![b] = t]
<1>1. /\ b \in 1 .. Len(d) /\ s \in Seq(Rec) /\ Length(s) = DIRBLKSIZ
      /\ Matches(s, m) # {} /\ Once(s, m)
      /\ \A c \in 1 .. Len(d) : c # b => \A j : ~ Has(d[c], m, j)
  BY FirstBlock
<1> HIDE DEF b
<1>2. /\ t \in Seq(Rec) /\ Length(t) = Length(s)
      /\ \A n : n # m => Same(t, s, n)
      /\ HoldsOnce(t, m, ino)
  <2> HIDE DEF s
  <2> QED  BY <1>1, BlockRewrite
<1>3. e = v  BY <1>1, LenProperties
<1> HIDE DEF t, e
<1>4. t \in Block  BY <1>1, <1>2 DEF Block
<1>5. /\ v \in Seq(Block) /\ Len(v) = Len(d)
      /\ \A n : n # m => DirSame(v, d, n)
      /\ (\A c \in 1 .. Len(d) : c # b => \A j : ~ Has(d[c], m, j)) =>
           /\ \A j : DirHas(v, m, j) <=> Has(t, m, j)
           /\ Once(t, m) => DirOnce(v, m)
  BY <1>1, <1>2, <1>4, BlockReplaced
<1> HIDE DEF v
<1>6. DirHolds(v, m, ino)  BY <1>1, <1>2, <1>5 DEF DirHolds, HoldsOnce
<1> QED  BY <1>3, <1>5, <1>6 DEF e, b

----------------------------------------------------------------------------
(* The inductive invariant: well-formed blocks, every name at most once    *)
(* among all of them, the names in use with their inodes, and the entries  *)
(* "." and "..".                                                           *)

DirInv ==
  /\ named \in [Names -> Inodes \cup {FreeIno}]
  /\ dir \in Seq(Block) /\ Len(dir) \in 1 .. MaxBlocks
  /\ \A n \in EntryNames : DirOnce(dir, n)
  /\ \A n \in Names : \A j : DirHas(dir, n, j) <=> j = named[n] /\ j # FreeIno
  /\ \A j : ~ DirHas(dir, NoName, j)
  /\ \A n \in {".", ".."} : \E j : DirHas(dir, n, j)

\* The three kinds of names are apart.
LEMMA NamesApart ==
  /\ NoName \notin EntryNames /\ "." \notin Names /\ ".." \notin Names
  /\ "." # ".."
<1>1. NoName # "." /\ NoName # ".."  BY Zenon DEF NoName
<1>2. "." # ".."  BY Zenon
<1>3. NoName \notin Names /\ "." \notin Names /\ ".." \notin Names
  BY NamesAssumption
<1> QED  BY <1>1, <1>2, <1>3 DEF EntryNames

\* The invariant survives a change of one name's entry.
LEMMA OneNameChanged ==
  ASSUME DirInv, dir' \in Seq(Block), Len(dir') \in 1 .. MaxBlocks,
         named' \in [Names -> Inodes \cup {FreeIno}],
         NEW m \in EntryNames, \A n : n # m => DirSame(dir', dir, n),
         DirOnce(dir', m), \A n \in Names : n # m => named'[n] = named[n],
         m \in Names => \A j : DirHas(dir', m, j) <=> j = named'[m] /\ j # FreeIno,
         m \notin Names => \E j : DirHas(dir', m, j)
  PROVE  DirInv'
<1>1. \A n \in EntryNames : DirOnce(dir', n)  BY DEF DirInv, DirSame
<1>2. \A n \in Names : \A j : DirHas(dir', n, j) <=> j = named'[n] /\ j # FreeIno
  <2> SUFFICES ASSUME NEW n \in Names, NEW j
               PROVE  DirHas(dir', n, j) <=> j = named'[n] /\ j # FreeIno
    OBVIOUS
  <2>1. CASE n = m  BY <2>1
  <2>2. CASE n # m
    <3>1. DirHas(dir', n, j) <=> DirHas(dir, n, j)  BY <2>2 DEF DirSame
    <3>2. DirHas(dir, n, j) <=> j = named[n] /\ j # FreeIno  BY DEF DirInv
    <3> QED  BY <2>2, <3>1, <3>2
  <2> QED  BY <2>1, <2>2
<1>3. \A j : ~ DirHas(dir', NoName, j)  BY NamesApart DEF DirInv, DirSame
<1>4. ASSUME NEW n \in {".", ".."}  PROVE \E j : DirHas(dir', n, j)
  <2>1. n \notin Names  BY NamesApart
  <2>2. CASE n = m  BY <2>1, <2>2
  <2>3. CASE n # m
    <3>1. \E j : DirHas(dir, n, j)  BY DEF DirInv
    <3>2. \A j : DirHas(dir', n, j) <=> DirHas(dir, n, j)  BY <2>3 DEF DirSame
    <3> QED  BY <3>1, <3>2
  <2> QED  BY <2>2, <2>3
<1> QED  BY <1>1, <1>2, <1>3, <1>4 DEF DirInv

\* An insertion keeps it.
LEMMA AddEntryKeeps ==
  ASSUME DirInv, NEW name \in Names, NEW ino \in Inodes, AddEntry(name, ino)
  PROVE  DirInv'
<1>1. /\ dir \in Seq(Block) /\ Len(dir) \in Nat /\ Len(dir) >= 1
      /\ named \in [Names -> Inodes \cup {FreeIno}]
  BY LenProperties DEF DirInv
<1>2. CASE dir' = dir /\ named' = named  BY <1>2 DEF DirInv
<1>3. CASE /\ InsertIs(dir, dir', ino, name) /\ Len(dir') <= MaxBlocks
           /\ ~(ufs_dirsiz(namlen(name)) > DIRBLKSIZ)
           /\ named[name] = FreeIno /\ named' = [named EXCEPT ![name] = ino]
  <2>1. \A j : ~ DirHas(dir, name, j)  BY <1>3 DEF DirInv
  <2>2. /\ dir' \in Seq(Block) /\ Len(dir') >= Len(dir)
        /\ \A n : n # name => DirSame(dir', dir, n)
        /\ DirHolds(dir', name, ino)
    BY <1>1, <1>3, <2>1, InsertEffect
  <2>3. Len(dir') \in 1 .. MaxBlocks
    <3>1. Len(dir') \in Nat  BY <2>2, LenProperties
    <3> QED  BY <1>1, <1>3, <2>2, <3>1, DirectoryAssumption
  <2>4. /\ named' \in [Names -> Inodes \cup {FreeIno}] /\ named'[name] = ino
        /\ \A n \in Names : n # name => named'[n] = named[n]
    BY <1>1, <1>3
  <2>5. ino # FreeIno  BY DirectoryAssumption DEF FreeIno
  <2>6. /\ DirOnce(dir', name)
        /\ \A j : DirHas(dir', name, j) <=> j = named'[name] /\ j # FreeIno
    BY <2>2, <2>4, <2>5 DEF DirHolds
  <2>7. name \in EntryNames  BY DEF EntryNames
  <2> QED  BY <2>2, <2>3, <2>4, <2>6, <2>7, OneNameChanged
<1> QED  BY <1>1, <1>2, <1>3, AddEntryIs

\* A removal keeps it.
LEMMA DeleteEntryKeeps ==
  ASSUME DirInv, NEW name \in Names, DeleteEntry(name)
  PROVE  DirInv'
<1>1. /\ dir \in Seq(Block) /\ Len(dir) \in 1 .. MaxBlocks
      /\ named \in [Names -> Inodes \cup {FreeIno}]
  BY DEF DirInv
<1>2. name \in EntryNames  BY DEF EntryNames
<1>3. DirOnce(dir, name) /\ \E j : DirHas(dir, name, j)
  BY <1>2 DEF DirInv, DeleteEntry
<1>4. /\ dir' \in Seq(Block) /\ Len(dir') = Len(dir)
      /\ \A n : n # name => DirSame(dir', dir, n)
      /\ DirOnce(dir', name) /\ \A j : ~ DirHas(dir', name, j)
  <2> DEFINE e == [dir EXCEPT ![Min(BlocksWith(dir, name))] = remove_entry(@, name)]
  <2>1. /\ e \in Seq(Block) /\ Len(e) = Len(dir)
        /\ \A n : n # name => DirSame(e, dir, n)
        /\ DirOnce(e, name) /\ \A j : ~ DirHas(e, name, j)
    BY <1>1, <1>3, RemoveEffect
  <2>2. dir' = e  BY DEF DeleteEntry
  <2> HIDE DEF e
  <2> QED  BY <2>1, <2>2
<1>5. /\ named' \in [Names -> Inodes \cup {FreeIno}] /\ named'[name] = FreeIno
      /\ \A n \in Names : n # name => named'[n] = named[n]
  BY <1>1 DEF DeleteEntry
<1> QED  BY <1>1, <1>2, <1>4, <1>5, OneNameChanged

\* Rewriting ".." keeps it.
LEMMA ReparentKeeps ==
  ASSUME DirInv, NEW ino \in Inodes, Reparent(ino)
  PROVE  DirInv'
<1>1. /\ dir \in Seq(Block) /\ Len(dir) \in 1 .. MaxBlocks
      /\ named \in [Names -> Inodes \cup {FreeIno}]
  BY DEF DirInv
<1> DEFINE m == ".."
<1>2. m \in EntryNames /\ m \notin Names  BY NamesApart DEF EntryNames
<1>3. DirOnce(dir, m) /\ \E j : DirHas(dir, m, j)  BY <1>2 DEF DirInv
<1>4. /\ dir' \in Seq(Block) /\ Len(dir') = Len(dir)
      /\ \A n : n # m => DirSame(dir', dir, n)
      /\ DirHolds(dir', m, ino)
  <2> DEFINE e == [dir EXCEPT ![Min(BlocksWith(dir, m))] =
                     rewrite_entry_inode(@, m, ino)]
  <2>1. /\ e \in Seq(Block) /\ Len(e) = Len(dir)
        /\ \A n : n # m => DirSame(e, dir, n)
        /\ DirHolds(e, m, ino)
    <3> HIDE DEF m
    <3> QED  BY <1>1, <1>2, <1>3, RewriteEffect
  <2>2. dir' = e  BY DEF Reparent
  <2> HIDE DEF e
  <2> QED  BY <2>1, <2>2
<1>5. named' = named  BY DEF Reparent
<1> HIDE DEF m
<1>6. DirOnce(dir', m) /\ \E j : DirHas(dir', m, j)  BY <1>4 DEF DirHolds
<1> QED  BY <1>1, <1>2, <1>4, <1>5, <1>6, OneNameChanged

\* A new directory: "." and ".." fill its one block.
LEMMA InitInv ==
  ASSUME Init  PROVE DirInv
<1> DEFINE i == Self
           l == DIRBLKSIZ - 12
           x == Record(i, ".", 12)
           y == Record(i, "..", l)
           s == <<x, y>>
<1>1. i \in Inodes /\ i # FreeIno
  <2>1. Inodes \subseteq Nat /\ Inodes # {}  BY DirectoryAssumption
  <2>2. Min(Inodes) \in Inodes  BY <2>1, MinInSet
  <2>3. Self = Min(Inodes)  BY DEF Self, Min
  <2> QED  BY <2>2, <2>3, DirectoryAssumption DEF FreeIno
<1> HIDE DEF i
<1>2. namlen(".") = 1 /\ namlen("..") = 2  BY NamesApart DEF namlen, EntryNames
<1>3. ufs_dirsiz(1) = 12 /\ ufs_dirsiz(2) = 12  BY DEF ufs_dirsiz
<1>4. dir = <<s>> /\ named = [n \in Names |-> FreeIno]
  BY <1>3 DEF Init, build_directory_block, i
<1>5. /\ x \in Rec /\ x.ino = i /\ x.name = "." /\ x.len = 12
      /\ y \in Rec /\ y.ino = i /\ y.name = ".." /\ y.len = l
  <2>1. "." \in EntryNames \cup {NoName} /\ ".." \in EntryNames \cup {NoName}
        /\ i \in Inodes \cup {FreeIno}
    BY <1>1 DEF EntryNames
  <2>2. l \in Nat /\ l % 4 = 0 /\ l >= 12 /\ l >= 8  BY NamesAssumption
  <2>3. 12 \in Nat /\ 12 % 4 = 0 /\ 12 >= 8  OBVIOUS
  <2> HIDE DEF l
  <2>4. l >= ufs_dirsiz(namlen("..")) /\ 12 >= ufs_dirsiz(namlen("."))
    BY <1>2, <1>3, <2>2
  <2> DEFINE one == "."
             two == ".."
             q == 12
  <2>5. /\ one \in EntryNames \cup {NoName} /\ q \in Nat /\ q % 4 = 0 /\ q >= 8
        /\ q >= ufs_dirsiz(namlen(one))
    BY <2>1, <2>3, <2>4
  <2>6. two \in EntryNames \cup {NoName} /\ l >= ufs_dirsiz(namlen(two))
    BY <2>1, <2>4
  <2> HIDE DEF one, two, q
  <2>7. /\ Record(i, one, q) \in Rec /\ Record(i, one, q).ino = i
        /\ Record(i, one, q).name = one /\ Record(i, one, q).len = q
    BY <2>1, <2>5, RecordIsRec
  <2>8. /\ Record(i, two, l) \in Rec /\ Record(i, two, l).ino = i
        /\ Record(i, two, l).name = two /\ Record(i, two, l).len = l
    BY <2>1, <2>2, <2>6, RecordIsRec
  <2> QED  BY <2>7, <2>8 DEF one, two, q
<1>6. l \in Nat /\ 12 + l = DIRBLKSIZ  BY NamesAssumption
<1> HIDE DEF x, y, l
<1>7. s \in Seq(Rec) /\ Len(s) = 2 /\ s[1] = x /\ s[2] = y /\ DOMAIN s = {1, 2}
  BY <1>5
<1> HIDE DEF s
<1>8. Length(s) = DIRBLKSIZ
  <2> DEFINE f == Offsets(s)
  <2>1. f[0] = 0 /\ \A r \in 1 .. Len(s) : f[r] = f[r - 1] + s[r].len
    BY <1>7, OffsetsAre
  <2>2. Length(s) = f[2]  BY <1>7 DEF Length
  <2> HIDE DEF f
  <2>3. 1 \in 1 .. Len(s) /\ 2 \in 1 .. Len(s) /\ 1 - 1 = 0 /\ 2 - 1 = 1  BY <1>7
  <2>4. f[1] = f[0] + 12 /\ f[2] = f[1] + l  BY <1>5, <1>7, <2>1, <2>3
  <2> QED  BY <1>6, <2>1, <2>2, <2>4
<1>9. s \in Block  BY <1>7, <1>8 DEF Block
<1>10. /\ dir \in Seq(Block) /\ Len(dir) = 1 /\ dir[1] = s /\ DOMAIN dir = {1}
  BY <1>4, <1>9
<1>11. 1 \in 1 .. MaxBlocks  BY DirectoryAssumption
<1>12. \A n : Once(s, n)
  BY <1>5, <1>7, NamesApart DEF Once, Live
<1>13. \A n, j : Has(s, n, j) <=> j = i /\ n \in {".", ".."}
  BY <1>1, <1>5, <1>7 DEF Has, Live
<1>14. \A n, j : DirHas(dir, n, j) <=> j = i /\ n \in {".", ".."}
  BY <1>10, <1>13 DEF DirHas
<1>15. \A n : DirOnce(dir, n)  BY <1>10, <1>12 DEF DirOnce
<1>16. named \in [Names -> Inodes \cup {FreeIno}] /\ \A n \in Names : named[n] = FreeIno
  BY <1>4
<1>17. NoName \notin {".", ".."} /\ \A n \in Names : n \notin {".", ".."}
  BY NamesApart DEF EntryNames
<1> QED  BY <1>10, <1>11, <1>14, <1>15, <1>16, <1>17 DEF DirInv

\* The invariant is inductive.
LEMMA Inductive == Spec => []DirInv
<1>1. Init => DirInv  BY InitInv
<1>2. DirInv /\ [Next]_vars => DirInv'
  <2> SUFFICES ASSUME DirInv, [Next]_vars  PROVE DirInv'  OBVIOUS
  <2>1. ASSUME NEW name \in Names, NEW ino \in Inodes, AddEntry(name, ino)
        PROVE  DirInv'
    BY <2>1, AddEntryKeeps
  <2>2. ASSUME NEW name \in Names, DeleteEntry(name)  PROVE DirInv'
    BY <2>2, DeleteEntryKeeps
  <2>3. ASSUME NEW ino \in Inodes, Reparent(ino)  PROVE DirInv'
    BY <2>3, ReparentKeeps
  <2>4. CASE UNCHANGED vars  BY <2>4 DEF vars, DirInv
  <2> QED  BY <2>1, <2>2, <2>3, <2>4 DEF Next
<1> QED  BY <1>1, <1>2, PTL DEF Spec

\* A record of the directory.
LEMMA RecordOf ==
  ASSUME DirInv, NEW b \in DOMAIN dir, NEW r \in DOMAIN dir[b]
  PROVE  /\ dir[b] \in Seq(Rec) /\ Length(dir[b]) = DIRBLKSIZ
         /\ dir[b][r] \in Rec /\ dir[b][r].len <= DIRBLKSIZ
<1>1. dir \in Seq(Block)  BY DEF DirInv
<1>2. dir[b] \in Block  BY <1>1, LenProperties, ElementOfSeq
<1>3. dir[b] \in Seq(Rec) /\ Length(dir[b]) = DIRBLKSIZ  BY <1>2 DEF Block
<1> DEFINE s == dir[b]
<1>4. s \in Seq(Rec) /\ r \in DOMAIN s  BY <1>3
<1> HIDE DEF s
<1>5. r \in 1 .. Len(s)  BY <1>4, LenProperties
<1>6. s[r] \in Rec /\ s[r].len <= Length(s)
  BY <1>4, <1>5, ElementOfSeq, RecordInBlock
<1> QED  BY <1>3, <1>6 DEF s

\* Type correctness of the directory: every inode number, name and record
\* length that an insertion, a removal or a rewrite writes is in range, and
\* the directory has at most MaxBlocks blocks and never none.
THEOREM DirectoryTypeCorrect == Spec => []TypeOK
<1>1. DirInv => TypeOK
  <2> SUFFICES ASSUME DirInv  PROVE TypeOK  OBVIOUS
  <2>1. ASSUME NEW b \in DOMAIN dir, NEW r \in DOMAIN dir[b]
        PROVE  /\ dir[b][r].ino \in Inodes \cup {FreeIno}
               /\ dir[b][r].name \in Names \cup {".", "..", NoName}
               /\ dir[b][r].len \in 8 .. DIRBLKSIZ
    <3> DEFINE x == dir[b][r]
    <3>1. x \in Rec /\ x.len <= DIRBLKSIZ  BY RecordOf
    <3> HIDE DEF x
    <3>2. /\ x.ino \in Inodes \cup {FreeIno} /\ x.name \in EntryNames \cup {NoName}
          /\ x.len \in Nat /\ x.len >= 8
      BY <3>1, RecFields
    <3>3. x.len \in 8 .. DIRBLKSIZ  BY <3>1, <3>2, NamesAssumption
    <3>4. x.name \in Names \cup {".", "..", NoName}  BY <3>2 DEF EntryNames
    <3> QED  BY <3>2, <3>3, <3>4 DEF x
  <2> QED  BY <2>1 DEF DirInv, TypeOK
<1> QED  BY <1>1, Inductive, PTL

\* However entries are inserted into slack, removed and merged, the records
\* of every block fill it exactly, 4-aligned, each with room for its name
\* (insert_entry, remove_entry): a reader that walks the record lengths
\* reaches every record and the end of the block.
THEOREM BlocksStayTiled == Spec => []Tiled
<1>1. DirInv => Tiled
  <2> SUFFICES ASSUME DirInv, NEW b \in DOMAIN dir
               PROVE  /\ Length(dir[b]) = DIRBLKSIZ
                      /\ \A r \in DOMAIN dir[b] :
                           /\ dir[b][r].len % 4 = 0
                           /\ dir[b][r].ino # FreeIno =>
                                dir[b][r].len >= ufs_dirsiz(namlen(dir[b][r].name))
    BY DEF Tiled
  <2>1. dir \in Seq(Block)  BY DEF DirInv
  <2>2. dir[b] \in Block  BY <2>1, LenProperties, ElementOfSeq
  <2>3. \A r \in DOMAIN dir[b] : dir[b][r] \in Rec  BY RecordOf
  <2> QED  BY <2>2, <2>3, RecFields DEF Block
<1> QED  BY <1>1, Inductive, PTL

\* The directory grows by a block only when no record of any block has room
\* for the entry that is added (find_insert_slot): whatever a removed entry
\* was merged into, its space is found again.
THEOREM GrowthIsForced == Spec => GrowsOnlyWhenFull
<1> DEFINE Forced ==
      Len(dir') > Len(dir) =>
        \E n \in Names : /\ named[n] # named'[n]
                         /\ \A b \in DOMAIN dir : \A r \in DOMAIN dir[b] :
                              Room(dir[b][r]) < ufs_dirsiz(namlen(n))
<1>1. ASSUME DirInv, Next, Len(dir') > Len(dir)  PROVE Forced
  <2>1. /\ dir \in Seq(Block) /\ Len(dir) \in Nat /\ Len(dir) >= 1
        /\ named \in [Names -> Inodes \cup {FreeIno}]
    BY <1>1, LenProperties DEF DirInv
  <2>2. ASSUME NEW name \in Names, DeleteEntry(name)  PROVE FALSE
    <3> DEFINE e == [dir EXCEPT ![Min(BlocksWith(dir, name))] = remove_entry(@, name)]
    <3>1. DirOnce(dir, name) /\ \E j : DirHas(dir, name, j)
      BY <1>1, <2>2 DEF DirInv, DeleteEntry, EntryNames
    <3>2. Len(e) = Len(dir)  BY <2>1, <3>1, RemoveEffect
    <3>3. dir' = e  BY <2>2 DEF DeleteEntry
    <3> HIDE DEF e
    <3> QED  BY <1>1, <2>1, <3>2, <3>3
  <2>3. ASSUME NEW ino \in Inodes, Reparent(ino)  PROVE FALSE
    <3> DEFINE m == ".."
               e == [dir EXCEPT ![Min(BlocksWith(dir, m))] =
                       rewrite_entry_inode(@, m, ino)]
    <3>1. m \in EntryNames /\ DirOnce(dir, m) /\ \E j : DirHas(dir, m, j)
      BY <1>1 DEF DirInv, EntryNames
    <3>2. Len(e) = Len(dir)
      <4> HIDE DEF m
      <4> QED  BY <2>1, <3>1, RewriteEffect
    <3>3. dir' = e  BY <2>3 DEF Reparent
    <3> HIDE DEF e
    <3> QED  BY <1>1, <2>1, <3>2, <3>3
  <2>4. PICK name \in Names, ino \in Inodes : AddEntry(name, ino)
    BY <1>1, <2>2, <2>3 DEF Next
  <2>5. dir' # dir  BY <1>1, <2>1
  <2>6. /\ InsertIs(dir, dir', ino, name)
        /\ ~(ufs_dirsiz(namlen(name)) > DIRBLKSIZ)
        /\ named[name] = FreeIno /\ named' = [named EXCEPT ![name] = ino]
    BY <2>1, <2>4, <2>5, AddEntryIs
  <2>7. \A j : ~ DirHas(dir, name, j)  BY <1>1, <2>6 DEF DirInv
  <2>8. ~ HasRoom(dir, ufs_dirsiz(namlen(name)))
    BY <1>1, <2>1, <2>6, <2>7, InsertEffect
  <2>9. named[name] # named'[name]
    BY <2>1, <2>6, DirectoryAssumption DEF FreeIno
  <2>10. ASSUME NEW b \in DOMAIN dir, NEW r \in DOMAIN dir[b]
         PROVE  Room(dir[b][r]) < ufs_dirsiz(namlen(name))
    <3> DEFINE x == dir[b][r]
               need == ufs_dirsiz(namlen(name))
    <3>1. ~(Room(x) >= need)  BY <2>8 DEF HasRoom
    <3>2. x \in Rec  BY <1>1, RecordOf
    <3>3. need \in Nat
      <4>1. name \in EntryNames \cup {NoName}  BY DEF EntryNames
      <4> QED  BY <4>1, EntrySize
    <3> HIDE DEF x, need
    <3>4. Room(x) \in Int
      <4>1. x.len \in Nat /\ x.name \in EntryNames \cup {NoName}  BY <3>2, RecFields
      <4>2. ufs_dirsiz(namlen(x.name)) \in Nat  BY <4>1, EntrySize
      <4> QED  BY <4>1, <4>2 DEF Room
    <3>5. Room(x) < need  BY <3>1, <3>3, <3>4
    <3> QED  BY <3>5 DEF x, need
  <2> QED  BY <2>9, <2>10
<1>2. ASSUME DirInv, [Next]_vars  PROVE [Forced]_vars
  <2>1. CASE Next
    <3> HIDE DEF Forced
    <3>1. CASE Len(dir') > Len(dir)  BY <1>1, <1>2, <2>1, <3>1
    <3>2. CASE ~(Len(dir') > Len(dir))  BY <3>2 DEF Forced
    <3> QED  BY <3>1, <3>2
  <2>2. CASE UNCHANGED vars  BY <2>2
  <2> HIDE DEF Forced
  <2> QED  BY <1>2, <2>1, <2>2
<1> QED
  <2>1. GrowsOnlyWhenFull <=> [][Forced]_vars  BY DEF GrowsOnlyWhenFull
  <2> HIDE DEF Forced
  <2> QED  BY <1>2, <2>1, Inductive, PTL DEF Spec

----------------------------------------------------------------------------
(* Lookup and listing.                                                     *)

\* A live record is an entry of the directory, with a name.
LEMMA LiveHas ==
  ASSUME DirInv, NEW b \in DOMAIN dir, NEW r \in DOMAIN dir[b],
         dir[b][r].ino # FreeIno
  PROVE  /\ Has(dir[b], dir[b][r].name, dir[b][r].ino)
         /\ DirHas(dir, dir[b][r].name, dir[b][r].ino)
         /\ dir[b][r].name \in EntryNames
<1> DEFINE n == dir[b][r].name
           j == dir[b][r].ino
<1>1. Has(dir[b], n, j)  BY DEF Has, Live
<1>2. DirHas(dir, n, j)  BY <1>1 DEF DirHas
<1>3. n \in EntryNames \cup {NoName}  BY RecordOf, RecFields
<1>4. n # NoName
  <2> HIDE DEF n, j
  <2> QED  BY <1>2 DEF DirInv
<1> QED  BY <1>1, <1>2, <1>3, <1>4

\* lookup_directory_entry finds the inode of a name.
LEMMA LookupExact ==
  ASSUME DirInv, NEW n \in Names
  PROVE  LookupIno(dir, n) = named[n]
<1>1. \A j : DirHas(dir, n, j) <=> j = named[n] /\ j # FreeIno  BY DEF DirInv
<1>2. CASE BlocksWith(dir, n) = {}
  <2>1. \A j : ~ DirHas(dir, n, j)
    BY <1>2 DEF BlocksWith, Matches, DirHas, Has
  <2>2. LookupIno(dir, n) = FreeIno  BY <1>2 DEF LookupIno
  <2> QED  BY <1>1, <2>1, <2>2
<1>3. CASE BlocksWith(dir, n) # {}
  <2> DEFINE b == Min(BlocksWith(dir, n))
             s == dir[b]
             r == Min(Matches(s, n))
  <2>1. LookupIno(dir, n) = s[r].ino  BY <1>3 DEF LookupIno
  <2>2. \E j : DirHas(dir, n, j)
    BY <1>3 DEF BlocksWith, Matches, DirHas, Has
  <2>3. dir \in Seq(Block)  BY DEF DirInv
  <2>4. b \in 1 .. Len(dir) /\ s \in Seq(Rec) /\ Matches(s, n) # {}
    BY <2>2, <2>3, FirstBlock
  <2>5. r \in 1 .. Len(s) /\ Live(s[r], n)
    <3> HIDE DEF s
    <3> QED  BY <2>4, FirstMatch
  <2>6. b \in DOMAIN dir /\ r \in DOMAIN s  BY <2>3, <2>4, <2>5, LenProperties
  <2> HIDE DEF b, r
  <2>7. DirHas(dir, n, s[r].ino)  BY <2>5, <2>6 DEF DirHas, Has, Live
  <2> QED  BY <1>1, <2>1, <2>7
<1> QED  BY <1>2, <1>3

\* The listing has one record for each name in use, and "." and "..".
LEMMA ListingExact ==
  ASSUME DirInv
  PROVE  Cardinality(Entries(dir)) =
           2 + Cardinality({n \in Names : named[n] # FreeIno})
<1> DEFINE E == Entries(dir)
           L == {n \in Names : named[n] # FreeIno}
           T == (L \cup {"."}) \cup {".."}
           f == [p \in E |-> dir[p[1]][p[2]].name]
<1>1. \A p : p \in E <=> \E b \in DOMAIN dir : \E r \in DOMAIN dir[b] :
                           dir[b][r].ino # FreeIno /\ p = <<b, r>>
  BY DEF Entries
<1>2. \A p \in E : /\ p[1] \in DOMAIN dir /\ p[2] \in DOMAIN dir[p[1]]
                   /\ dir[p[1]][p[2]].ino # FreeIno /\ p = <<p[1], p[2]>>
  BY <1>1
<1>3. IsFiniteSet(T) /\ Cardinality(T) = 2 + Cardinality(L)
  <2>1. L \in SUBSET Names /\ IsFiniteSet(Names)  BY NamesAssumption
  <2>2. IsFiniteSet(L)  BY <2>1, FS_Subset
  <2>3. "." \notin L /\ ".." \notin L \cup {"."}  BY NamesApart
  <2> HIDE DEF L
  <2> DEFINE one == "."
             two == ".."
             M == L \cup {one}
  <2>4. one \notin L /\ two \notin M  BY <2>3
  <2> HIDE DEF one, two
  <2>5. IsFiniteSet(M) /\ Cardinality(M) = Cardinality(L) + 1
    BY <2>2, <2>4, FS_AddElement
  <2> HIDE DEF M
  <2>6. IsFiniteSet(M \cup {two}) /\ Cardinality(M \cup {two}) = Cardinality(M) + 1
    BY <2>4, <2>5, FS_AddElement
  <2>7. Cardinality(L) \in Nat  BY <2>2, FS_CardinalityType
  <2>8. T = M \cup {two}  BY DEF M, one, two
  <2> HIDE DEF T
  <2> QED  BY <2>5, <2>6, <2>7, <2>8
<1> HIDE DEF E
<1>4. ASSUME NEW p \in E  PROVE f[p] \in T
  <2> DEFINE b == p[1]
             r == p[2]
             n == dir[b][r].name
             j == dir[b][r].ino
  <2>1. b \in DOMAIN dir /\ r \in DOMAIN dir[b] /\ dir[b][r].ino # FreeIno
    BY <1>2
  <2> HIDE DEF b, r
  <2>2. DirHas(dir, n, j) /\ n \in EntryNames /\ j # FreeIno  BY <2>1, LiveHas
  <2>3. f[p] = n  BY DEF b, r
  <2> HIDE DEF n, j, f
  <2>4. n \in Names => named[n] # FreeIno  BY <2>2 DEF DirInv
  <2> QED  BY <2>2, <2>3, <2>4 DEF EntryNames
<1>5. ASSUME NEW p \in E, NEW q \in E, f[p] = f[q]  PROVE p = q
  <2> DEFINE b == p[1]
             r == p[2]
             c == q[1]
             k == q[2]
             n == dir[b][r].name
  <2>1. /\ b \in DOMAIN dir /\ r \in DOMAIN dir[b] /\ dir[b][r].ino # FreeIno
        /\ c \in DOMAIN dir /\ k \in DOMAIN dir[c] /\ dir[c][k].ino # FreeIno
        /\ p = <<b, r>> /\ q = <<c, k>>
    BY <1>2
  <2>2. dir[c][k].name = n  BY <1>5
  <2> HIDE DEF b, r, c, k, f
  <2>3. n \in EntryNames /\ Has(dir[b], n, dir[b][r].ino)  BY <2>1, LiveHas
  <2>4. Has(dir[c], n, dir[c][k].ino)
    <3>1. Has(dir[c], dir[c][k].name, dir[c][k].ino)  BY <2>1, LiveHas
    <3> QED  BY <2>2, <3>1
  <2>5. DirOnce(dir, n)  BY <2>3 DEF DirInv
  <2>6. b = c  BY <2>1, <2>3, <2>4, <2>5 DEF DirOnce
  <2>7. Once(dir[b], n)  BY <2>1, <2>5 DEF DirOnce
  <2>8. Live(dir[b][r], n) /\ Live(dir[b][k], n)  BY <2>1, <2>2, <2>6 DEF Live
  <2>9. r = k  BY <2>1, <2>6, <2>7, <2>8 DEF Once
  <2> QED  BY <2>1, <2>6, <2>9
<1>6. ASSUME NEW n \in T  PROVE \E p \in E : f[p] = n
  <2>1. \E j : DirHas(dir, n, j)
    <3>1. CASE n \in L  BY <3>1 DEF DirInv
    <3>2. CASE n \in {".", ".."}  BY <3>2 DEF DirInv
    <3> QED  BY <3>1, <3>2
  <2>2. PICK b \in DOMAIN dir : \E r \in DOMAIN dir[b] : Live(dir[b][r], n)
    BY <2>1 DEF DirHas, Has
  <2>3. PICK r \in DOMAIN dir[b] : Live(dir[b][r], n)  BY <2>2
  <2> DEFINE p == <<b, r>>
  <2>4. p \in E  BY <1>1, <2>3 DEF Live
  <2>5. f[p] = dir[b][r].name  BY <2>4
  <2> HIDE DEF f, p
  <2> QED  BY <2>3, <2>4, <2>5 DEF Live
<1>7. f \in [E -> T] /\ DOMAIN f = E
  <2> HIDE DEF T
  <2>1. \A p \in E : dir[p[1]][p[2]].name \in T  BY <1>4
  <2> QED  BY <2>1
<1> HIDE DEF T, f
<1>8. f \in Injection(E, T)  BY <1>5, <1>7 DEF Injection, IsInjective
<1>9. f \in Surjection(E, T)  BY <1>6, <1>7 DEF Surjection
<1>10. Cardinality(E) = Cardinality(T)  BY <1>3, <1>8, <1>9, FS_Injection
<1> QED  BY <1>3, <1>10 DEF E

\* Whatever was added, removed and rewritten before, in whatever order,
\* lookup_directory_entry finds every name in use with its inode and no name
\* out of use, and the listing has exactly these and "." and "..": reuse of
\* freed records and of slack never hides, resurrects or duplicates an entry.
THEOREM EntriesAreExact == Spec => []EntriesExact
<1>1. DirInv => EntriesExact  BY LookupExact, ListingExact DEF EntriesExact
<1> QED  BY <1>1, Inductive, PTL

============================================================================
