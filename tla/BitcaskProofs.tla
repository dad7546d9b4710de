----------------------------- MODULE BitcaskProofs -----------------------------
(***************************************************************************)
(* Proofs about the storage engine, its compaction and its backups, for    *)
(* every set of keys and values, all sizes, and any number of records and  *)
(* failures.                                                               *)
(***************************************************************************)
EXTENDS BitcaskCompact, BitcaskBackup, FiniteSetTheorems, WellFoundedInduction, TLAPS

\* Fragments lie one behind the other, none longer than its record, and each byte
\* of the file is of one.
Layout(f) ==
  /\ \A g \in f.frags : 1 <= g.len /\ g.len <= Size(g.rec) /\ g.off + g.len <= f.size
  /\ \A g, h \in f.frags : g = h \/ g.off + g.len <= h.off \/ h.off + h.len <= g.off
  /\ \A n \in 0 .. f.size - 1 : \E g \in f.frags : g.off <= n /\ n < g.off + g.len
  /\ f.synced <= f.size

IsDisk(d) == /\ DOMAIN d \subseteq Nat
             /\ \E b \in Nat : \A i \in DOMAIN d : i <= b
             /\ d = [i \in DOMAIN d |-> d[i]]
             /\ \A i \in DOMAIN d : d[i] \in File /\ Layout(d[i])

\* The last site of each key decides, in the files ...
Decides(d, k, s) == s.rec.key = k /\ IsLatest(d, s)

NoSite(d, k) == \A s \in Sites(d) : s.rec.key # k

\* ... what clients were told is stored, and what the key directory holds.
CommittedOK(d, c) ==
  \A k \in Keys : \/ NoSite(d, k) /\ c[k] = NoValue
                  \/ \E s \in Sites(d) : Decides(d, k, s) /\ c[k] = s.rec.val

IndexOK(d, x) ==
  \A k \in Keys : \/ NoSite(d, k) /\ x[k] = NoMeta
                  \/ \E s \in Sites(d) : Decides(d, k, s) /\ x[k] = MetaOf(s)

\* The inductive invariant.
IInv ==
  /\ TypeOK
  /\ IsDisk(disk)
  /\ CleanLog(disk) => CommittedOK(disk, committed)
  /\ status = "open" /\ CleanLog(disk) => IndexOK(disk, keyDir)
  /\ activeOpen => /\ status = "open"
                   /\ activeFileID \in DOMAIN disk
                   /\ \A i \in DOMAIN disk : i <= activeFileID
                   /\ \A i \in DOMAIN disk : i = activeFileID \/ i \in readFiles
                   /\ Torn(disk[activeFileID]) = {} => writeOffset = disk[activeFileID].size

\* Without compaction an engine that has lost its active descriptor keeps the others.
Held == status = "open" => \A i \in DOMAIN disk : i = activeFileID \/ i \in readFiles

--------------------------------------------------------------------------------
(* Numbers *)

\* The well-founded order of the numbers: a set of them has a least ...
LEMMA Least ==
  ASSUME NEW T \in SUBSET Nat, T # {}
  PROVE  \E x \in T : \A y \in T : x <= y
<1>1. IsWellFoundedOn(OpToRel(<, Nat), Nat)
  BY NatLessThanWellFounded
<1>2. \E x \in T : \A y \in T : ~ (<<y, x>> \in OpToRel(<, Nat))
  <2> HIDE DEF OpToRel
  <2> QED BY <1>1, WFMin
<1>3. PICK x \in T : \A y \in T : ~ (<<y, x>> \in OpToRel(<, Nat))
  BY <1>2
<1>4. ASSUME NEW y \in T PROVE ~ (y < x)
  BY <1>3, Zenon DEF OpToRel
<1> QED BY <1>4

\* ... and, if it is bounded, a greatest.
LEMMA Greatest ==
  ASSUME NEW T \in SUBSET Nat, T # {}, NEW b \in Nat, \A y \in T : y <= b
  PROVE  \E x \in T : \A y \in T : y <= x
<1>1. PICK U : U = {b - y : y \in T}
  OBVIOUS
<1>2. U \in SUBSET Nat /\ U # {}
  <2>1. ASSUME NEW y \in T PROVE b - y \in Nat
    OBVIOUS
  <2> QED BY <1>1, <2>1
<1>3. PICK u \in U : \A v \in U : u <= v
  BY <1>2, Least
<1>4. PICK x \in T : u = b - x
  BY <1>1, <1>3
<1>5. ASSUME NEW y \in T PROVE y <= x
  <2>1. u <= b - y
    BY <1>1, <1>3
  <2> QED BY <1>4, <2>1
<1> QED BY <1>4, <1>5

--------------------------------------------------------------------------------
(* Sums of sizes                                                            *)

Sizes(x, S) == MapThenSumSet(LAMBDA k : x[k].size, S)

\* The element a fold takes next, and the equation of the fold's recursion.
Taken(s) == CHOOSE y \in s : TRUE
Adds(x, S, h) ==
  h = [s \in SUBSET S |-> IF s = {} THEN 0 ELSE x[Taken(s)].size + h[s \ {Taken(s)}]]

\* What satisfies the equation is the sum, if some measure falls with each element.
LEMMA SizesAre ==
  ASSUME NEW x, NEW S, NEW h, Adds(x, S, h), NEW m,
         \A s \in SUBSET S : m[s] \in Nat /\ (s # {} => m[s \ {Taken(s)}] < m[s])
  PROVE  Sizes(x, S) = h[S]
<1>1. PICK j : j = CHOOSE g : Adds(x, S, g)
  OBVIOUS
<1>2. Sizes(x, S) = j[S]
  BY <1>1 DEF Sizes, MapThenSumSet, MapThenFoldSet, Adds, Taken
<1>3. Adds(x, S, j)
  BY <1>1
<1>4. PICK D : D = {s \in SUBSET S : j[s] # h[s]}
  OBVIOUS
<1>5. D = {}
  <2> SUFFICES ASSUME D # {} PROVE FALSE
    OBVIOUS
  <2>1. PICK M : M = {m[s] : s \in D}
    OBVIOUS
  <2>2. M \in SUBSET Nat /\ M # {}
    BY <1>4, <2>1
  <2>3. PICK l \in M : \A n \in M : l <= n
    BY <2>2, Least
  <2>4. PICK s \in D : l = m[s]
    BY <2>1
  <2>5. s \in SUBSET S /\ j[s] # h[s]
    BY <1>4
  <2>6. /\ j[s] = IF s = {} THEN 0 ELSE x[Taken(s)].size + j[s \ {Taken(s)}]
        /\ h[s] = IF s = {} THEN 0 ELSE x[Taken(s)].size + h[s \ {Taken(s)}]
    BY <1>3, <2>5, Zenon DEF Adds
  <2>7. s # {}
    BY <2>5, <2>6
  <2>8. s \ {Taken(s)} \in SUBSET S
    BY <2>5
  <2>9. m[s \ {Taken(s)}] < m[s] /\ m[s] \in Nat /\ m[s \ {Taken(s)}] \in Nat
    BY <2>5, <2>7, <2>8
  <2>10. s \ {Taken(s)} \notin D
    <3> SUFFICES ASSUME s \ {Taken(s)} \in D PROVE FALSE
      OBVIOUS
    <3>1. m[s \ {Taken(s)}] \in M
      BY <2>1
    <3>2. m[s] <= m[s \ {Taken(s)}]
      BY <2>3, <2>4, <3>1
    <3> QED BY <2>9, <3>2
  <2>11. j[s \ {Taken(s)}] = h[s \ {Taken(s)}]
    BY <1>4, <2>8, <2>10
  <2> QED BY <2>5, <2>6, <2>7, <2>11
<1> QED BY <1>2, <1>4, <1>5

LEMMA SizeOfOne ==
  ASSUME NEW x, NEW i, x[i].size \in Nat
  PROVE  Sizes(x, {i}) = x[i].size
<1> DEFINE h == [s \in SUBSET {i} |-> IF s = {} THEN 0 ELSE x[i].size]
           m == [s \in SUBSET {i} |-> IF s = {} THEN 0 ELSE 1]
<1>1. \A s \in SUBSET {i} : s # {} => s = {i} /\ Taken(s) = i /\ s \ {Taken(s)} = {}
  BY DEF Taken
<1>2. Adds(x, {i}, h)
  <2>1. ASSUME NEW s \in SUBSET {i}
        PROVE  h[s] = IF s = {} THEN 0 ELSE x[Taken(s)].size + h[s \ {Taken(s)}]
    BY <1>1
  <2> HIDE DEF h
  <2>2. h = [s \in SUBSET {i} |-> h[s]]
    BY DEF h
  <2> QED BY <2>1, <2>2 DEF Adds
<1>3. \A s \in SUBSET {i} : m[s] \in Nat /\ (s # {} => m[s \ {Taken(s)}] < m[s])
  BY <1>1
<1>4. h[{i}] = x[i].size
  OBVIOUS
<1> HIDE DEF h, m
<1> QED BY <1>2, <1>3, <1>4, SizesAre

\* Parts that do not overlap and leave no gap add up to the whole.
LEMMA SizesOfParts ==
  ASSUME NEW x, NEW S, NEW n \in Nat, NEW B,
         \A k \in S : /\ x[k].size \in Nat \ {0} /\ \A i \in B[k] : i \in 0 .. n - 1
                      /\ Cardinality(B[k]) = x[k].size,
         \A k, l \in S : k = l \/ B[k] \cap B[l] = {},
         \A i \in 0 .. n - 1 : \E k \in S : i \in B[k]
  PROVE  Sizes(x, S) = n
<1> DEFINE Covered(s) == {i \in 0 .. n - 1 : \E k \in s : i \in B[k]}
           h == [s \in SUBSET S |-> Cardinality(Covered(s))]
<1>1. IsFiniteSet(0 .. n - 1) /\ Cardinality(0 .. n - 1) = n
  BY FS_Interval
<1>2. ASSUME NEW s PROVE IsFiniteSet(Covered(s)) /\ Cardinality(Covered(s)) \in Nat
  <2>1. Covered(s) \in SUBSET (0 .. n - 1)
    OBVIOUS
  <2>2. IsFiniteSet(Covered(s))
    BY <1>1, <2>1, FS_Subset
  <2> QED BY <2>2, FS_CardinalityType
<1>3. ASSUME NEW s \in SUBSET S, s # {}
      PROVE  Cardinality(Covered(s)) = x[Taken(s)].size + Cardinality(Covered(s \ {Taken(s)}))
  <2>1. PICK k : k = Taken(s)
    OBVIOUS
  <2>2. k \in s
    BY <1>3, <2>1 DEF Taken
  <2>3. k \in S /\ s \ {k} \in SUBSET S
    BY <2>2
  <2>4. Covered(s) = B[k] \cup Covered(s \ {k})
    BY <2>2, <2>3
  <2>5. B[k] \cap Covered(s \ {k}) = {}
    BY <2>3
  <2>6. IsFiniteSet(B[k])
    <3>1. B[k] \in SUBSET (0 .. n - 1)
      BY <2>3
    <3> QED BY <1>1, <3>1, FS_Subset
  <2>7. PICK C : C = Covered(s \ {k})
    OBVIOUS
  <2>8. IsFiniteSet(C) /\ Cardinality(C) \in Nat
    BY <1>2, <2>7
  <2>9. Cardinality(B[k] \cup C) = Cardinality(B[k]) + Cardinality(C) - Cardinality(B[k] \cap C)
    BY <2>6, <2>8, FS_Union
  <2>10. Cardinality(B[k] \cap C) = 0
    BY <2>5, <2>7, FS_EmptySet
  <2>11. Cardinality(B[k]) = x[k].size /\ x[k].size \in Nat
    BY <2>3
  <2>12. Cardinality(B[k] \cup C) = x[k].size + Cardinality(C)
    BY <2>8, <2>9, <2>10, <2>11
  <2>13. Covered(s) = B[k] \cup C
    BY <2>4, <2>7
  <2> HIDE DEF Covered
  <2> QED BY <2>1, <2>7, <2>12, <2>13
<1>4. Covered({}) = {} /\ Covered(S) = 0 .. n - 1
  OBVIOUS
<1>5. ASSUME NEW s \in SUBSET S, s # {}
      PROVE  Taken(s) \in S /\ s \ {Taken(s)} \in SUBSET S /\ x[Taken(s)].size \in Nat \ {0}
  <2>1. Taken(s) \in s
    BY <1>5 DEF Taken
  <2> QED BY <2>1
<1> HIDE DEF Covered
<1>6. Adds(x, S, h)
  <2>1. ASSUME NEW s \in SUBSET S
        PROVE  h[s] = IF s = {} THEN 0 ELSE x[Taken(s)].size + h[s \ {Taken(s)}]
    <3>1. CASE s = {}
      BY <1>4, <3>1, FS_EmptySet
    <3>2. CASE s # {}
      BY <1>3, <1>5, <3>2
    <3> QED BY <3>1, <3>2
  <2> HIDE DEF h
  <2>2. h = [s \in SUBSET S |-> h[s]]
    BY DEF h
  <2> QED BY <2>1, <2>2 DEF Adds
<1>7. ASSUME NEW s \in SUBSET S
      PROVE  h[s] \in Nat /\ (s # {} => h[s \ {Taken(s)}] < h[s])
  <2>1. h[s] \in Nat
    BY <1>2
  <2>2. CASE s # {}
    <3>1. h[s \ {Taken(s)}] = Cardinality(Covered(s \ {Taken(s)})) /\ h[s] = Cardinality(Covered(s))
      BY <1>5, <2>2
    <3>2. Cardinality(Covered(s \ {Taken(s)})) \in Nat
      BY <1>2
    <3>3. x[Taken(s)].size \in Nat \ {0}
      BY <1>5, <2>2
    <3> QED BY <1>3, <2>1, <2>2, <3>1, <3>2, <3>3
  <2> QED BY <2>1, <2>2
<1>8. h[S] = n
  BY <1>1, <1>4
<1> HIDE DEF h
<1> QED BY <1>6, <1>7, <1>8, SizesAre

--------------------------------------------------------------------------------
(* Files *)

LEMMA SizeNat ==
  ASSUME NEW r \in Rec
  PROVE  Size(r) \in Nat /\ Size(r) >= 1
BY SizeAssumption DEF Rec, Size

LEMMA EmptyFileOK == EmptyFile \in File /\ Layout(EmptyFile) /\ Scanned(EmptyFile) = {}
BY DEF EmptyFile, File, Frag, Layout, Scanned

LEMMA SyncOK ==
  ASSUME NEW f \in File, Layout(f)
  PROVE  /\ Sync(f) \in File
         /\ Layout(Sync(f))
         /\ Sync(f).frags = f.frags /\ Sync(f).size = f.size
BY DEF File, Layout, Sync

\* A file after a non-empty write keeps its layout.
LEMMA AppendLayout ==
  ASSUME NEW f \in File, Layout(f), NEW r \in Rec, NEW n \in 1 .. Size(r)
  PROVE  AppendTo(f, r, n) \in File /\ Layout(AppendTo(f, r, n))
<1> DEFINE g == [off |-> f.size, len |-> n, rec |-> r]
           f2 == AppendTo(f, r, n)
<1>1. Size(r) \in Nat
  BY SizeNat
<1>2. /\ f.frags \subseteq Frag /\ f.size \in Nat /\ f.synced \in Nat
      /\ f = [frags |-> f.frags, size |-> f.size, synced |-> f.synced]
  BY DEF File
<1>3. f2 = [frags |-> f.frags \cup {g}, size |-> f.size + n, synced |-> f.synced]
  BY <1>1, <1>2 DEF AppendTo
<1>4. g \in Frag
  BY <1>1, <1>2 DEF Frag
<1>5. f2 \in File
  BY <1>1, <1>2, <1>3, <1>4 DEF File
<1>6. ASSUME NEW h \in f.frags
      PROVE  h.len \in Nat /\ h.off \in Nat /\ 1 <= h.len /\ h.len <= Size(h.rec)
             /\ h.off + h.len <= f.size
  BY <1>2, <1>6 DEF Layout, Frag
<1>7. \A h \in f2.frags : 1 <= h.len /\ h.len <= Size(h.rec) /\ h.off + h.len <= f2.size
  <2> SUFFICES ASSUME NEW h \in f2.frags
               PROVE  1 <= h.len /\ h.len <= Size(h.rec) /\ h.off + h.len <= f2.size
    OBVIOUS
  <2>0. f2.size = f.size + n
    BY <1>3
  <2>1. CASE h = g
    BY <1>1, <1>2, <2>0, <2>1
  <2>2. CASE h \in f.frags
    <3>1. f.size \in Nat /\ n \in Nat
      BY <1>1, <1>2
    <3> QED BY <1>6, <2>0, <2>2, <3>1
  <2> QED BY <1>3, <2>1, <2>2
<1>8. \A h, i \in f2.frags : h = i \/ h.off + h.len <= i.off \/ i.off + i.len <= h.off
  BY <1>3, <1>6 DEF Layout
<1>9. ASSUME NEW i \in 0 .. f2.size - 1
      PROVE  \E h \in f2.frags : h.off <= i /\ i < h.off + h.len
  <2>1. f2.size = f.size + n /\ f2.frags = f.frags \cup {g} /\ n \in Nat
    BY <1>1, <1>3
  <2>2. CASE i < f.size
    <3>1. i \in 0 .. f.size - 1
      BY <1>2, <2>1, <2>2
    <3> QED BY <2>1, <3>1 DEF Layout
  <2>3. CASE ~ (i < f.size)
    <3>1. g.off <= i /\ i < g.off + g.len
      BY <1>2, <2>1, <2>3
    <3> QED BY <2>1, <3>1
  <2> QED BY <2>2, <2>3
<1>10. f2.synced <= f2.size
  BY <1>1, <1>2, <1>3 DEF Layout
<1> QED BY <1>5, <1>7, <1>8, <1>9, <1>10 DEF Layout

\* The scan finds a record that was written whole behind a file without torn
\* fragments; whatever else is written changes nothing.
LEMMA AppendScanned ==
  ASSUME NEW f \in File, Layout(f), NEW r \in Rec, NEW n \in 1 .. Size(r)
  PROVE  LET g == [off |-> f.size, len |-> n, rec |-> r]
             f2 == AppendTo(f, r, n)
         IN /\ Torn(f) = {} /\ n = Size(r) => Scanned(f2) = Scanned(f) \cup {g}
            /\ Torn(f) # {} \/ n # Size(r) => Scanned(f2) = Scanned(f)
            /\ Torn(f2) = Torn(f) \cup (IF n = Size(r) THEN {} ELSE {g})
<1> DEFINE g == [off |-> f.size, len |-> n, rec |-> r]
           f2 == AppendTo(f, r, n)
<1>1. Size(r) \in Nat
  BY SizeNat
<1>2. f.frags \subseteq Frag /\ f.size \in Nat
  BY DEF File
<1>3. f2.frags = f.frags \cup {g}
  BY <1>1, <1>2 DEF AppendTo, File
<1>4. Intact(g) <=> n = Size(r)
  BY DEF Intact
<1>5. Torn(f2) = Torn(f) \cup (IF n = Size(r) THEN {} ELSE {g})
  BY <1>3, <1>4 DEF Torn
<1>6. \A h \in f.frags : h.off \in Nat /\ h.off < f.size
  BY <1>2 DEF Layout, Frag
<1>7. Torn(f) \subseteq f.frags
  BY DEF Torn
<1>8. ASSUME Torn(f) = {}, n = Size(r)
      PROVE  Scanned(f2) = Scanned(f) \cup {g}
  BY <1>3, <1>4, <1>5, <1>8 DEF Scanned
<1>9. ASSUME Torn(f) # {} \/ n # Size(r)
      PROVE  Scanned(f2) = Scanned(f)
  <2>1. g \notin Scanned(f2)
    <3>1. CASE n # Size(r)
      BY <1>4, <3>1 DEF Scanned
    <3>2. CASE Torn(f) # {}
      <4>1. PICK t \in Torn(f) : TRUE
        BY <3>2
      <4>2. t.off < f.size /\ t \in Torn(f2) /\ t.off \in Nat
        BY <1>5, <1>6, <1>7
      <4>3. ~ (g.off < t.off)
        BY <4>2, <1>2
      <4> QED BY <4>2, <4>3 DEF Scanned
    <3> QED BY <1>9, <3>1, <3>2
  <2>2. \A h \in f.frags : (\A t \in Torn(f2) : h.off < t.off) <=> (\A t \in Torn(f) : h.off < t.off)
    BY <1>5, <1>6
  <2>3. \A h : h \in Scanned(f2) => h \in Scanned(f)
    BY <1>3, <2>1, <2>2 DEF Scanned
  <2>4. \A h : h \in Scanned(f) => h \in Scanned(f2)
    BY <1>3, <2>2 DEF Scanned
  <2> QED BY <2>3, <2>4
<1> QED BY <1>5, <1>8, <1>9

--------------------------------------------------------------------------------
(* Disks *)

LEMMA SitesDef ==
  ASSUME NEW d, NEW s
  PROVE  s \in Sites(d) <=>
           \E i \in DOMAIN d : \E g \in Scanned(d[i]) : s = [file |-> i, off |-> g.off, rec |-> g.rec]
BY DEF Sites

LEMMA SiteType ==
  ASSUME NEW d, IsDisk(d), NEW s \in Sites(d)
  PROVE  /\ s.file \in DOMAIN d /\ s.file \in Nat /\ s.off \in Nat /\ s.rec \in Rec
         /\ s = [file |-> s.file, off |-> s.off, rec |-> s.rec]
         /\ \E g \in d[s.file].frags : /\ g = [off |-> s.off, len |-> Size(s.rec), rec |-> s.rec]
                                       /\ Intact(g)
<1>0. PICK i \in DOMAIN d : \E g \in Scanned(d[i]) : s = [file |-> i, off |-> g.off, rec |-> g.rec]
  BY SitesDef
<1>1. PICK g \in Scanned(d[i]) : s = [file |-> i, off |-> g.off, rec |-> g.rec]
  BY <1>0
<1>2. g \in d[i].frags /\ g.len = Size(g.rec)
  BY <1>1 DEF Scanned, Intact
<1>3. g \in Frag /\ i \in Nat
  BY <1>1, <1>2 DEF IsDisk, File
<1>4. g = [off |-> g.off, len |-> g.len, rec |-> g.rec] /\ g.off \in Nat /\ g.rec \in Rec
  BY <1>3 DEF Frag
<1> QED BY <1>1, <1>2, <1>3, <1>4 DEF Intact

\* No two sites are at one place.
LEMMA SiteUnique ==
  ASSUME NEW d, IsDisk(d), NEW s \in Sites(d), NEW t \in Sites(d), s.file = t.file, s.off = t.off
  PROVE  s = t
<1>1. /\ s.file \in DOMAIN d /\ s.off \in Nat /\ s.rec \in Rec /\ t.rec \in Rec
      /\ s = [file |-> s.file, off |-> s.off, rec |-> s.rec]
      /\ t = [file |-> t.file, off |-> t.off, rec |-> t.rec]
  BY SiteType
<1>2. PICK g \in d[s.file].frags : g = [off |-> s.off, len |-> Size(s.rec), rec |-> s.rec]
  BY SiteType
<1>3. PICK h \in d[s.file].frags : h = [off |-> s.off, len |-> Size(t.rec), rec |-> t.rec]
  BY SiteType
<1>4. Size(s.rec) \in Nat /\ Size(s.rec) >= 1 /\ Size(t.rec) \in Nat /\ Size(t.rec) >= 1
  BY <1>1, SizeNat
<1>5. g = h \/ g.off + g.len <= h.off \/ h.off + h.len <= g.off
  BY <1>1 DEF IsDisk, Layout
<1>6. g = h
  BY <1>1, <1>2, <1>3, <1>4, <1>5
<1> QED BY <1>1, <1>2, <1>3, <1>6

\* There is one last record of a key: the one CHOOSE picks.
LEMMA LatestUnique ==
  ASSUME NEW d, IsDisk(d), NEW k, NEW s, Decides(d, k, s)
  PROVE  (CHOOSE t \in Sites(d) : t.rec.key = k /\ IsLatest(d, t)) = s
<1>1. s \in Sites(d) /\ s.rec.key = k /\ IsLatest(d, s)
  BY DEF Decides, IsLatest
<1>2. ASSUME NEW t \in Sites(d), t.rec.key = k, IsLatest(d, t)
      PROVE  t = s
  <2>1. t = s \/ Before(t, s)
    BY <1>1, <1>2 DEF IsLatest
  <2>2. s = t \/ Before(s, t)
    BY <1>1, <1>2 DEF IsLatest
  <2>3. s.file \in Nat /\ s.off \in Nat /\ t.file \in Nat /\ t.off \in Nat
    BY <1>1, SiteType
  <2> QED BY <2>1, <2>2, <2>3 DEF Before
<1> QED BY <1>1, <1>2

\* What a restart computes, in terms of the deciding record.
LEMMA RestartOf ==
  ASSUME NEW d, IsDisk(d), NEW k \in Keys
  PROVE  /\ NoSite(d, k) => LoadDir(d)[k] = NoMeta /\ Recovered(d)[k] = NoValue
         /\ \A s : Decides(d, k, s) => LoadDir(d)[k] = MetaOf(s) /\ Recovered(d)[k] = s.rec.val
<1>1. ASSUME NoSite(d, k)
      PROVE  LoadDir(d)[k] = NoMeta /\ Recovered(d)[k] = NoValue
  BY <1>1 DEF NoSite, LoadDir, Recovered
<1>2. ASSUME NEW s, Decides(d, k, s)
      PROVE  LoadDir(d)[k] = MetaOf(s) /\ Recovered(d)[k] = s.rec.val
  <2>1. s \in Sites(d) /\ s.rec.key = k
    BY <1>2 DEF Decides, IsLatest
  <2>2. (CHOOSE t \in Sites(d) : t.rec.key = k /\ IsLatest(d, t)) = s
    BY <1>2, LatestUnique
  <2> QED BY <2>1, <2>2 DEF LoadDir, Recovered
<1> QED BY <1>1, <1>2

\* Every key has no site or a deciding one.
LEMMA Decided ==
  ASSUME NEW d, IsDisk(d), NEW k
  PROVE  NoSite(d, k) \/ \E s \in Sites(d) : Decides(d, k, s)
<1> SUFFICES ASSUME ~ NoSite(d, k) PROVE \E s \in Sites(d) : Decides(d, k, s)
  OBVIOUS
<1>1. PICK b \in Nat : \A i \in DOMAIN d : i <= b
  BY DEF IsDisk
<1>2. PICK F : F = {s.file : s \in {t \in Sites(d) : t.rec.key = k}}
  OBVIOUS
<1>3. F \in SUBSET Nat /\ F # {} /\ \A i \in F : i <= b
  BY <1>1, <1>2, SiteType DEF NoSite
<1>4. PICK i \in F : \A j \in F : j <= i
  BY <1>3, Greatest
<1>5. PICK O : O = {s.off : s \in {t \in Sites(d) : t.rec.key = k /\ t.file = i}}
  OBVIOUS
<1>6. i \in DOMAIN d /\ d[i].size \in Nat
  BY <1>2, <1>4, SiteType DEF IsDisk, File
<1>7. O \in SUBSET Nat /\ O # {} /\ \A o \in O : o <= d[i].size
  <2>1. O # {} /\ O \in SUBSET Nat
    BY <1>2, <1>4, <1>5, SiteType
  <2>2. ASSUME NEW o \in O PROVE o <= d[i].size
    <3>1. PICK s \in Sites(d) : s.file = i /\ s.off = o
      BY <1>5, <2>2
    <3>2. PICK g \in d[i].frags : g = [off |-> o, len |-> Size(s.rec), rec |-> s.rec]
      BY <3>1, SiteType
    <3>3. g.off \in Nat /\ g.len \in Nat /\ g.off + g.len <= d[i].size
      BY <1>6, <3>2 DEF IsDisk, File, Frag, Layout
    <3> QED BY <1>6, <3>2, <3>3
  <2> QED BY <2>1, <2>2
<1>8. PICK o \in O : \A p \in O : p <= o
  BY <1>6, <1>7, Greatest
<1>9. PICK s \in Sites(d) : s.rec.key = k /\ s.file = i /\ s.off = o
  BY <1>5, <1>8
<1>10. ASSUME NEW t \in Sites(d), t.rec.key = k PROVE t = s \/ Before(t, s)
  <2>1. /\ t.file \in Nat /\ t.off \in Nat /\ t = [file |-> t.file, off |-> t.off, rec |-> t.rec]
        /\ s.file \in Nat /\ s.off \in Nat /\ s = [file |-> s.file, off |-> s.off, rec |-> s.rec]
    BY SiteType
  <2>2. t.file \in F /\ t.file <= i
    BY <1>2, <1>4, <1>10
  <2>3. CASE t.file # i
    BY <1>9, <2>1, <2>2, <2>3 DEF Before
  <2>4. CASE t.file = i
    <3>1. t.off \in O /\ t.off <= o
      BY <1>5, <1>8, <1>10, <2>4
    <3>2. CASE t.off = o
      BY <1>9, <2>1, <2>4, <3>2, SiteUnique
    <3>3. CASE t.off # o
      BY <1>9, <2>1, <2>4, <3>1, <3>3 DEF Before
    <3> QED BY <3>2, <3>3
  <2> QED BY <2>3, <2>4
<1> QED BY <1>9, <1>10 DEF Decides, IsLatest


LEMMA LoadDirOK ==
  ASSUME NEW d, IsDisk(d)
  PROVE  LoadDir(d) \in [Keys -> Meta \cup {NoMeta}] /\ IndexOK(d, LoadDir(d))
<1>1. ASSUME NEW k \in Keys
      PROVE  /\ LoadDir(d)[k] \in Meta \cup {NoMeta}
             /\ \/ NoSite(d, k) /\ LoadDir(d)[k] = NoMeta
                \/ \E s \in Sites(d) : Decides(d, k, s) /\ LoadDir(d)[k] = MetaOf(s)
  <2>1. CASE NoSite(d, k)
    BY <2>1, RestartOf
  <2>2. CASE \E s \in Sites(d) : Decides(d, k, s)
    <3>1. PICK s \in Sites(d) : Decides(d, k, s)
      BY <2>2
    <3>2. LoadDir(d)[k] = MetaOf(s)
      BY <3>1, RestartOf
    <3>3. s.file \in Nat /\ s.off \in Nat /\ Size(s.rec) \in Nat
      BY SiteType, SizeNat
    <3>4. MetaOf(s) \in Meta \cup {NoMeta}
      BY <3>3 DEF MetaOf, Meta
    <3> QED BY <3>1, <3>2, <3>4
  <2> QED BY <2>1, <2>2, Decided
<1> QED BY <1>1 DEF IndexOK, LoadDir

--------------------------------------------------------------------------------
(* Steps that write no record: the restart sees the same log. *)

SameRecords(d, e) ==
  /\ DOMAIN d \subseteq DOMAIN e
  /\ \A i \in DOMAIN d : e[i].frags = d[i].frags
  /\ \A i \in DOMAIN e \ DOMAIN d : e[i].frags = {}

LEMMA SameRecordsSites ==
  ASSUME NEW d, NEW e, SameRecords(d, e)
  PROVE  Sites(e) = Sites(d) /\ (CleanLog(e) <=> CleanLog(d))
<1>1. \A i \in DOMAIN d : Scanned(e[i]) = Scanned(d[i]) /\ Torn(e[i]) = Torn(d[i])
  BY DEF SameRecords, Scanned, Torn
<1>2. \A i \in DOMAIN e \ DOMAIN d : Scanned(e[i]) = {} /\ Torn(e[i]) = {}
  BY DEF SameRecords, Scanned, Torn
<1>3. \A s : s \in Sites(e) <=> s \in Sites(d)
  BY <1>1, <1>2, SitesDef DEF SameRecords
<1>4. CleanLog(e) <=> CleanLog(d)
  BY <1>1, <1>2 DEF CleanLog, SameRecords
<1> QED BY <1>3, <1>4

LEMMA SameRecordsOK ==
  ASSUME NEW d, NEW e, SameRecords(d, e)
  PROVE  /\ \A c : CommittedOK(d, c) => CommittedOK(e, c)
         /\ \A x : IndexOK(d, x) => IndexOK(e, x)
         /\ CleanLog(e) <=> CleanLog(d)
<1>1. Sites(e) = Sites(d) /\ (CleanLog(e) <=> CleanLog(d))
  BY SameRecordsSites
<1>2. \A s : IsLatest(e, s) <=> IsLatest(d, s)
  BY <1>1 DEF IsLatest
<1>4. \A k : NoSite(e, k) <=> NoSite(d, k)
  BY <1>1 DEF NoSite
<1>5. \A k, s : Decides(e, k, s) <=> Decides(d, k, s)
  BY <1>2 DEF Decides
<1>6. \A c : CommittedOK(d, c) => CommittedOK(e, c)
  BY <1>1, <1>4, <1>5 DEF CommittedOK
<1>7. \A x : IndexOK(d, x) => IndexOK(e, x)
  BY <1>1, <1>4, <1>5 DEF IndexOK
<1> QED BY <1>1, <1>6, <1>7

LEMMA WithFileDisk ==
  ASSUME NEW d, IsDisk(d), NEW id \in Nat, NEW f \in File, Layout(f)
  PROVE  IsDisk(WithFile(d, id, f))
<1>1. PICK b \in Nat : \A i \in DOMAIN d : i <= b
  BY DEF IsDisk
<1>2. \E c \in Nat : b <= c /\ id <= c
  OBVIOUS
<1>3. PICK c \in Nat : b <= c /\ id <= c
  BY <1>2
<1>4. \A i \in DOMAIN WithFile(d, id, f) : i <= c
  BY <1>1, <1>3 DEF WithFile, IsDisk
<1> QED BY <1>4 DEF IsDisk, WithFile

LEMMA FileAtOK ==
  ASSUME NEW d, IsDisk(d), NEW id
  PROVE  FileAt(d, id) \in File /\ Layout(FileAt(d, id))
BY EmptyFileOK DEF IsDisk, FileAt

\* Replacing a file by one with the same fragments changes no record.
LEMMA WithFileSame ==
  ASSUME NEW d, NEW id, NEW f, f.frags = FileAt(d, id).frags
  PROVE  SameRecords(d, WithFile(d, id, f))
BY DEF SameRecords, WithFile, FileAt, EmptyFile

--------------------------------------------------------------------------------
(* Steps that write to the last file. *)

\* The site of r at the end of file id.
SiteAt(d, id, r) == [file |-> id, off |-> FileAt(d, id).size, rec |-> r]

Written(d, id, r, n) == WithFile(d, id, AppendTo(FileAt(d, id), r, n))

LEMMA WrittenClean ==
  ASSUME NEW d, IsDisk(d), NEW id \in Nat, NEW r \in Rec, NEW n \in 1 .. Size(r)
  PROVE  /\ IsDisk(Written(d, id, r, n))
         /\ CleanLog(Written(d, id, r, n)) => CleanLog(d) /\ Torn(FileAt(d, id)) = {}
<1> DEFINE f == FileAt(d, id)
           f2 == AppendTo(f, r, n)
           e == Written(d, id, r, n)
           g == [off |-> f.size, len |-> n, rec |-> r]
<1>1. f \in File /\ Layout(f)
  BY FileAtOK
<1>2. f2 \in File /\ Layout(f2)
  BY <1>1, AppendLayout
<1>3. IsDisk(e)
  BY <1>2, WithFileDisk DEF Written
<1>4. ASSUME CleanLog(e)
      PROVE  CleanLog(d) /\ Torn(f) = {}
  <2>1. e[id] = f2 /\ id \in DOMAIN e /\ (\A i \in DOMAIN d : i # id => e[i] = d[i] /\ i \in DOMAIN e)
    BY DEF Written, WithFile
  <2>2. Torn(f) \subseteq Torn(f2)
    BY <1>1, AppendScanned
  <2>3. f.frags \subseteq f2.frags /\ g \in f2.frags
    <3>1. Size(r) \in Nat
      BY SizeNat
    <3>2. n # 0
      BY <3>1
    <3> QED BY <3>2 DEF AppendTo
  <2>4. \A t \in Torn(f2), h \in f2.frags : h.off <= t.off
    BY <1>4, <2>1 DEF CleanLog
  <2>5. Torn(f) = {}
    <3>1. SUFFICES ASSUME NEW t \in Torn(f) PROVE FALSE
      OBVIOUS
    <3>2. t \in f.frags /\ t.off \in Nat /\ t.len \in Nat /\ f.size \in Nat
      BY <1>1 DEF Torn, File, Frag
    <3>3. 1 <= t.len /\ t.off + t.len <= f.size
      BY <1>1, <3>2 DEF Layout
    <3>4. f.size <= t.off
      BY <2>2, <2>3, <2>4
    <3> QED BY <3>2, <3>3, <3>4
  <2>6. CleanLog(d)
    <3>1. SUFFICES ASSUME NEW i \in DOMAIN d, NEW t \in Torn(d[i]), NEW h \in d[i].frags
                   PROVE  h.off <= t.off
      BY DEF CleanLog
    <3>2. CASE i = id
      BY <2>5, <3>2 DEF FileAt
    <3>3. CASE i # id
      BY <1>4, <2>1, <3>3 DEF CleanLog
    <3> QED BY <3>2, <3>3
  <2> QED BY <2>5, <2>6
<1> QED BY <1>3, <1>4

\* A record written whole behind intact ones becomes the last site of the log; any
\* other write leaves the sites as they are.
LEMMA WrittenSites ==
  ASSUME NEW d, IsDisk(d), NEW id \in Nat, NEW r \in Rec, NEW n \in 1 .. Size(r)
  PROVE  /\ Torn(FileAt(d, id)) = {} /\ n = Size(r) =>
              Sites(Written(d, id, r, n)) = Sites(d) \cup {SiteAt(d, id, r)}
         /\ Torn(FileAt(d, id)) # {} \/ n # Size(r) =>
              Sites(Written(d, id, r, n)) = Sites(d)
<1> DEFINE f == FileAt(d, id)
           f2 == AppendTo(f, r, n)
           e == Written(d, id, r, n)
           g == [off |-> f.size, len |-> n, rec |-> r]
<1>1. f \in File /\ Layout(f)
  BY FileAtOK
<1>2. DOMAIN e = DOMAIN d \cup {id} /\ e[id] = f2 /\ (\A i \in DOMAIN d : i # id => e[i] = d[i])
  BY DEF Written, WithFile
<1>3. Scanned(FileAt(d, id)) = IF id \in DOMAIN d THEN Scanned(d[id]) ELSE {}
  BY EmptyFileOK DEF FileAt
<1>4. \A s : s \in Sites(d) <=>
        \/ \E i \in DOMAIN d \ {id} : \E h \in Scanned(d[i]) : s = [file |-> i, off |-> h.off, rec |-> h.rec]
        \/ \E h \in Scanned(f) : s = [file |-> id, off |-> h.off, rec |-> h.rec]
  BY <1>3, SitesDef
<1>5. \A s : s \in Sites(e) <=>
        \/ \E i \in DOMAIN d \ {id} : \E h \in Scanned(d[i]) : s = [file |-> i, off |-> h.off, rec |-> h.rec]
        \/ \E h \in Scanned(f2) : s = [file |-> id, off |-> h.off, rec |-> h.rec]
  BY <1>2, SitesDef
<1>6. ASSUME Torn(f) = {}, n = Size(r)
      PROVE  Sites(e) = Sites(d) \cup {SiteAt(d, id, r)}
  <2>1. Scanned(f2) = Scanned(f) \cup {g}
    BY <1>1, <1>6, AppendScanned
  <2>2. SiteAt(d, id, r) = [file |-> id, off |-> g.off, rec |-> g.rec]
    BY DEF SiteAt
  <2>3. \A s : s \in Sites(e) <=> s \in Sites(d) \cup {SiteAt(d, id, r)}
    BY <1>4, <1>5, <2>1, <2>2
  <2> QED BY <2>3
<1>7. ASSUME Torn(f) # {} \/ n # Size(r)
      PROVE  Sites(e) = Sites(d)
  <2>1. Scanned(f2) = Scanned(f)
    BY <1>1, <1>7, AppendScanned
  <2>2. \A s : s \in Sites(e) <=> s \in Sites(d)
    BY <1>4, <1>5, <2>1
  <2> QED BY <2>2
<1> QED BY <1>6, <1>7

\* The new site decides its key, and the other keys are decided as before.
LEMMA WrittenDecides ==
  ASSUME NEW d, IsDisk(d), NEW id \in Nat, \A i \in DOMAIN d : i <= id,
         NEW r \in Rec, NEW e, Sites(e) = Sites(d) \cup {SiteAt(d, id, r)}
  PROVE  /\ Decides(e, r.key, SiteAt(d, id, r))
         /\ \A k, s : k # r.key /\ Decides(d, k, s) => Decides(e, k, s)
         /\ \A k : k # r.key /\ NoSite(d, k) => NoSite(e, k)
<1> DEFINE s0 == SiteAt(d, id, r)
<1>1. s0.rec = r /\ s0.file = id /\ s0.off = FileAt(d, id).size
  BY DEF SiteAt
<1>2. ASSUME NEW t \in Sites(d)
      PROVE  Before(t, s0)
  <2>1. t.file \in DOMAIN d /\ t.file \in Nat /\ t.off \in Nat
    BY SiteType
  <2>2. CASE t.file = id
    <3>1. PICK g \in d[id].frags : g = [off |-> t.off, len |-> Size(t.rec), rec |-> t.rec]
      BY <2>2, SiteType
    <3>2. g.len >= 1 /\ g.off + g.len <= d[id].size
      BY <2>1, <2>2, <3>1 DEF IsDisk, Layout
    <3>3. d[id].size \in Nat /\ g.len \in Nat
      BY <2>1, <2>2, <3>1 DEF IsDisk, File, Frag
    <3>4. FileAt(d, id).size = d[id].size
      BY <2>1, <2>2 DEF FileAt
    <3>5. t.off < s0.off
      BY <1>1, <2>1, <3>1, <3>2, <3>3, <3>4
    <3> QED BY <1>1, <2>2, <3>5 DEF Before
  <2>3. CASE t.file # id
    BY <1>1, <2>1, <2>3 DEF Before
  <2> QED BY <2>2, <2>3
<1>3. IsLatest(e, s0)
  BY <1>2 DEF IsLatest
<1>4. \A k, s : k # r.key /\ Decides(d, k, s) => Decides(e, k, s)
  BY <1>1 DEF Decides, IsLatest
<1>5. \A k : k # r.key /\ NoSite(d, k) => NoSite(e, k)
  BY <1>1 DEF NoSite
<1> QED BY <1>1, <1>3, <1>4, <1>5 DEF Decides

\* A whole record: the client's view and the key directory follow the log.
LEMMA WholeRecord ==
  ASSUME NEW d, IsDisk(d), NEW id \in Nat, \A i \in DOMAIN d : i <= id,
         NEW r \in Rec, Torn(FileAt(d, id)) = {}
  PROVE  LET e == Written(d, id, r, Size(r)) IN
         /\ \A c, c2 : /\ CommittedOK(d, c)
                       /\ c2[r.key] = r.val
                       /\ \A k \in Keys : k # r.key => c2[k] = c[k]
                       => CommittedOK(e, c2)
         /\ \A x, x2 : /\ IndexOK(d, x)
                       /\ x2[r.key] = MetaOf(SiteAt(d, id, r))
                       /\ \A k \in Keys : k # r.key => x2[k] = x[k]
                       => IndexOK(e, x2)
<1> DEFINE e == Written(d, id, r, Size(r))
           s0 == SiteAt(d, id, r)
<1>0. Size(r) \in 1 .. Size(r)
  BY SizeNat
<1>1. Sites(e) = Sites(d) \cup {s0}
  BY <1>0, WrittenSites
<1>2. /\ Decides(e, r.key, s0)
      /\ \A k, s : k # r.key /\ Decides(d, k, s) => Decides(e, k, s)
      /\ \A k : k # r.key /\ NoSite(d, k) => NoSite(e, k)
  BY <1>1, WrittenDecides
<1>3. s0.rec = r
  BY DEF SiteAt
<1>4. ASSUME NEW c, NEW c2, CommittedOK(d, c), c2[r.key] = r.val,
             \A k \in Keys : k # r.key => c2[k] = c[k]
      PROVE  CommittedOK(e, c2)
  BY <1>1, <1>2, <1>3, <1>4 DEF CommittedOK
<1>5. ASSUME NEW x, NEW x2, IndexOK(d, x), x2[r.key] = MetaOf(s0),
             \A k \in Keys : k # r.key => x2[k] = x[k]
      PROVE  IndexOK(e, x2)
  BY <1>1, <1>2, <1>3, <1>5 DEF IndexOK
<1> QED BY <1>4, <1>5

\* Some bytes of a record: neither changes.
LEMMA PartRecord ==
  ASSUME NEW d, IsDisk(d), NEW id \in Nat, NEW r \in Rec, NEW n \in TearLens(r)
  PROVE  LET e == Written(d, id, r, n) IN
         /\ \A c : CommittedOK(d, c) => CommittedOK(e, c)
         /\ \A x : IndexOK(d, x) => IndexOK(e, x)
<1> DEFINE e == Written(d, id, r, n)
<1>1. n \in 1 .. Size(r) /\ n # Size(r)
  BY SizeNat DEF TearLens
<1>2. Sites(e) = Sites(d)
  BY <1>1, WrittenSites
<1>3. \A k, s : Decides(e, k, s) <=> Decides(d, k, s)
  BY <1>2 DEF Decides, IsLatest
<1>4. \A k : NoSite(e, k) <=> NoSite(d, k)
  BY <1>2 DEF NoSite
<1> QED BY <1>2, <1>3, <1>4 DEF CommittedOK, IndexOK

--------------------------------------------------------------------------------
(* The invariant *)

\* e is d after some bytes of record number l reached its last file, or none did.
Extends(d, e, l) ==
  /\ DOMAIN d \subseteq DOMAIN e
  /\ \A i \in DOMAIN e : /\ FileAt(d, i).frags \subseteq e[i].frags
                         /\ FileAt(d, i).size <= e[i].size
  /\ \A i \in DOMAIN e : \A g \in e[i].frags \ FileAt(d, i).frags :
       g.rec.lsn = l /\ g.off = FileAt(d, i).size /\ \A j \in DOMAIN e : j <= i

\* The active file is the last one.
Placed == activeOpen => /\ status = "open" /\ activeFileID \in DOMAIN disk
                        /\ \A i \in DOMAIN disk : i <= activeFileID

LEMMA SyncedExtends ==
  ASSUME NEW d, IsDisk(d), NEW id \in DOMAIN d, NEW l
  PROVE  /\ IsDisk(WithFile(d, id, Sync(FileAt(d, id))))
         /\ DOMAIN WithFile(d, id, Sync(FileAt(d, id))) = DOMAIN d
         /\ Extends(d, WithFile(d, id, Sync(FileAt(d, id))), l)
<1> DEFINE e == WithFile(d, id, Sync(FileAt(d, id)))
<1>1. id \in Nat /\ FileAt(d, id) = d[id] /\ d[id] \in File /\ Layout(d[id])
  BY DEF IsDisk, FileAt
<1>2. /\ Sync(d[id]) \in File /\ Layout(Sync(d[id]))
      /\ Sync(d[id]).frags = d[id].frags /\ Sync(d[id]).size = d[id].size
  BY <1>1, SyncOK
<1>3. IsDisk(e) /\ DOMAIN e = DOMAIN d
  BY <1>1, <1>2, WithFileDisk DEF WithFile
<1>4. ASSUME NEW i \in DOMAIN e
      PROVE  e[i].frags = FileAt(d, i).frags /\ e[i].size = FileAt(d, i).size /\ e[i].size \in Nat
  BY <1>1, <1>2, <1>3 DEF WithFile, FileAt, IsDisk, File
<1>5. ASSUME NEW i \in DOMAIN e PROVE FileAt(d, i).size <= e[i].size
  BY <1>4
<1> QED BY <1>3, <1>4, <1>5 DEF Extends

\* rotateActiveFile writes no record, and the file it leaves active is the last one.
LEMMA PreparedExtends ==
  ASSUME IsDisk(disk), Placed, CanWrite, NEW r
  PROVE  /\ IsDisk(Prepared(r)) /\ Extends(disk, Prepared(r), r.lsn) /\ SameRecords(disk, Prepared(r))
         /\ \A i \in DOMAIN Prepared(r) : Prepared(r)[i].size = FileAt(disk, i).size
         /\ Target(r) \in DOMAIN Prepared(r) /\ \A i \in DOMAIN Prepared(r) : i <= Target(r)
         /\ DOMAIN Prepared(r) = DOMAIN disk \cup {Target(r)}
<1>1. /\ IsDisk(disk) /\ activeFileID \in DOMAIN disk /\ activeFileID \in Nat
      /\ \A i \in DOMAIN disk : i <= activeFileID /\ i \in Nat
  BY DEF Placed, CanWrite, IsDisk
<1>2. /\ IsDisk(SyncedActive) /\ DOMAIN SyncedActive = DOMAIN disk
      /\ \A i \in DOMAIN disk : /\ SyncedActive[i].frags = disk[i].frags
                                /\ SyncedActive[i].size = disk[i].size
  <2>1. IsDisk(SyncedActive) /\ DOMAIN SyncedActive = DOMAIN disk
    BY <1>1, SyncedExtends DEF SyncedActive
  <2> QED BY <1>1, <2>1 DEF SyncedActive, WithFile, FileAt, Sync
<1>3. CASE NeedsRotation(r)
  <2>1. activeFileID + 1 \notin DOMAIN disk /\ activeFileID + 1 \in Nat
    BY <1>1
  <2>2. FileAt(disk, activeFileID + 1) = EmptyFile
    BY <2>1 DEF FileAt
  <2>3. PICK p : p = WithFile(SyncedActive, activeFileID + 1, EmptyFile) /\ p = Prepared(r)
    BY <1>3, <2>2 DEF Prepared
  <2>4. IsDisk(p)
    BY <1>2, <2>1, <2>3, EmptyFileOK, WithFileDisk
  <2>5. DOMAIN p = DOMAIN disk \cup {activeFileID + 1}
    BY <1>2, <2>3 DEF WithFile
  <2>6. ASSUME NEW i \in DOMAIN p
        PROVE  p[i].frags = FileAt(disk, i).frags /\ p[i].size = FileAt(disk, i).size /\ p[i].size \in Nat
    <3>1. CASE i = activeFileID + 1
      BY <2>2, <2>3, <2>5, <3>1 DEF WithFile, EmptyFile
    <3>2. CASE i # activeFileID + 1
      BY <1>1, <1>2, <2>3, <2>5, <3>2 DEF WithFile, FileAt, IsDisk, File
    <3> QED BY <3>1, <3>2
  <2>7. \A i \in DOMAIN p : FileAt(disk, i).size <= p[i].size
    BY <2>6
  <2>8. Extends(disk, p, r.lsn) /\ SameRecords(disk, p)
    BY <2>5, <2>6, <2>7 DEF Extends, SameRecords, FileAt, EmptyFile
  <2>9. \A i \in DOMAIN p : i <= activeFileID + 1
    BY <1>1, <2>5
  <2> QED BY <1>3, <2>3, <2>4, <2>5, <2>6, <2>8, <2>9 DEF Target
<1>4. CASE ~ NeedsRotation(r)
  <2>1. Prepared(r) = disk /\ Target(r) = activeFileID
    BY <1>4 DEF Prepared, Target
  <2>2. \A i \in DOMAIN disk : disk[i] = FileAt(disk, i) /\ disk[i].size <= disk[i].size
    BY <1>1 DEF FileAt, IsDisk, File
  <2>3. SameRecords(disk, disk) /\ Extends(disk, disk, r.lsn)
    BY <2>2 DEF SameRecords, Extends
  <2> QED BY <1>1, <2>1, <2>2, <2>3
<1> QED BY <1>3, <1>4

\* What rotation leaves for the write that follows it.
LEMMA PreparedOK ==
  ASSUME IInv, CanWrite, NEW r \in Rec
  PROVE  /\ IsDisk(Prepared(r)) /\ SameRecords(disk, Prepared(r))
         /\ Target(r) \in Nat /\ \A i \in DOMAIN Prepared(r) : i <= Target(r)
         /\ DOMAIN Prepared(r) = DOMAIN disk \cup {Target(r)}
         /\ BaseOffset(r) \in Nat
         /\ Torn(FileAt(Prepared(r), Target(r))) = {} =>
              BaseOffset(r) = FileAt(Prepared(r), Target(r)).size
         /\ IsDisk(SyncedActive) /\ SameRecords(disk, SyncedActive)
         /\ DOMAIN SyncedActive = DOMAIN disk
<1>1. /\ IsDisk(disk) /\ Placed /\ writeOffset \in Nat /\ DOMAIN disk \subseteq Nat
      /\ activeFileID \in DOMAIN disk /\ activeFileID \in Nat
      /\ \A i \in DOMAIN disk : i <= activeFileID
      /\ Torn(disk[activeFileID]) = {} => writeOffset = disk[activeFileID].size
  BY DEF IInv, CanWrite, TypeOK, Placed
<1>2. /\ IsDisk(Prepared(r)) /\ SameRecords(disk, Prepared(r))
      /\ \A i \in DOMAIN Prepared(r) : Prepared(r)[i].size = FileAt(disk, i).size
      /\ Target(r) \in DOMAIN Prepared(r) /\ \A i \in DOMAIN Prepared(r) : i <= Target(r)
      /\ DOMAIN Prepared(r) = DOMAIN disk \cup {Target(r)}
  BY <1>1, PreparedExtends
<1>3. IsDisk(SyncedActive) /\ DOMAIN SyncedActive = DOMAIN disk /\ SameRecords(disk, SyncedActive)
  <2>1. SameRecords(disk, SyncedActive)
    BY <1>1 DEF SameRecords, SyncedActive, WithFile, FileAt, Sync
  <2> QED BY <1>1, <2>1, SyncedExtends DEF SyncedActive
<1>4. CASE NeedsRotation(r)
  <2>1. Target(r) = activeFileID + 1 /\ BaseOffset(r) = 0 /\ activeFileID + 1 \notin DOMAIN disk
    BY <1>1, <1>4 DEF Target, BaseOffset
  <2>2. FileAt(Prepared(r), Target(r)).size = 0
    BY <1>2, <2>1 DEF FileAt, EmptyFile
  <2> QED BY <1>1, <1>2, <1>3, <2>1, <2>2
<1>5. CASE ~ NeedsRotation(r)
  <2>1. Prepared(r) = disk /\ Target(r) = activeFileID /\ BaseOffset(r) = writeOffset
    BY <1>5 DEF Prepared, Target, BaseOffset
  <2>2. FileAt(Prepared(r), Target(r)) = disk[activeFileID]
    BY <1>1, <2>1 DEF FileAt
  <2> QED BY <1>1, <1>2, <1>3, <2>1, <2>2
<1> QED BY <1>4, <1>5

\* After n bytes of r (none, some or all) the disk is well formed, and what it says
\* about torn records it said before.
LEMMA LandedOK ==
  ASSUME IInv, CanWrite, NEW r \in Rec, NEW n \in 0 .. Size(r)
  PROVE  /\ IsDisk(Landed(r, n))
         /\ CleanLog(Landed(r, n)) => CleanLog(disk)
         /\ DOMAIN Landed(r, n) = DOMAIN disk \cup {Target(r)}
         /\ \A i \in DOMAIN Landed(r, n) : i <= Target(r)
         /\ n = 0 => SameRecords(disk, Landed(r, n))
         /\ n # 0 => Landed(r, n) = Written(Prepared(r), Target(r), r, n)
<1> DEFINE p == Prepared(r)
           f == FileAt(p, Target(r))
<1>1. /\ IsDisk(p) /\ SameRecords(disk, p) /\ Target(r) \in Nat
      /\ \A i \in DOMAIN p : i <= Target(r)
      /\ DOMAIN p = DOMAIN disk \cup {Target(r)}
  BY PreparedOK
<1>2. CleanLog(p) <=> CleanLog(disk)
  BY <1>1, SameRecordsOK DEF IInv
<1>3. Landed(r, n) = Written(p, Target(r), r, n)
  BY DEF Landed, Written
<1>4. DOMAIN Landed(r, n) = DOMAIN disk \cup {Target(r)} /\ \A i \in DOMAIN Landed(r, n) : i <= Target(r)
  BY <1>1, <1>3 DEF Written, WithFile
<1>5. Size(r) \in Nat
  BY SizeNat
<1>6. CASE n = 0
  <2>1. Landed(r, n) = WithFile(p, Target(r), f)
    BY <1>3, <1>6 DEF Written, AppendTo
  <2>2. IsDisk(Landed(r, n))
    BY <1>1, <2>1, FileAtOK, WithFileDisk
  <2>3. SameRecords(p, Landed(r, n))
    BY <2>1, WithFileSame
  <2>4. SameRecords(disk, Landed(r, n))
    BY <1>1, <2>3 DEF SameRecords
  <2> QED BY <1>4, <1>6, <2>2, <2>4, SameRecordsOK DEF IInv
<1>7. CASE n # 0
  <2>1. n \in 1 .. Size(r)
    BY <1>5, <1>7
  <2> QED BY <1>1, <1>2, <1>3, <1>4, <1>7, <2>1, WrittenClean
<1> QED BY <1>6, <1>7

--------------------------------------------------------------------------------
(* Each action keeps the invariant *)

LEMMA InitIInv == Init => IInv
<1> SUFFICES ASSUME Init PROVE IInv
  OBVIOUS
<1>1. DOMAIN disk = {} /\ disk = [i \in DOMAIN disk |-> disk[i]]
  BY DEF Init, EmptyDisk
<1>2. Sites(disk) = {}
  BY <1>1 DEF Sites
<1>3. TypeOK
  BY <1>1 DEF Init, TypeOK
<1>4. CommittedOK(disk, committed)
  BY <1>2 DEF Init, CommittedOK, NoSite
<1> QED BY <1>1, <1>2, <1>3, <1>4 DEF Init, IInv, IsDisk

\* Opening the files of a directory, by a new engine or by one that reloads.
LEMMA OpenedIInv ==
  ASSUME IInv,
         NEW id \in IF DOMAIN disk = {} THEN {0}
                    ELSE {i \in DOMAIN disk : \A j \in DOMAIN disk : j <= i},
         disk' = WithFile(disk, id, FileAt(disk, id)), activeFileID' = id,
         writeOffset' = FileAt(disk, id).size, readFiles' = DOMAIN disk \ {id},
         keyDir' = LoadDir(disk), activeOpen' = TRUE, status' = "open",
         UNCHANGED <<deleting, lsn, committed, faults>>
  PROVE  IInv' /\ SameRecords(disk, disk')
<1>1. IsDisk(disk) /\ DOMAIN disk \subseteq Nat
  BY DEF IInv, IsDisk
<1>2. id \in Nat /\ \A j \in DOMAIN disk : j <= id
  BY <1>1
<1>3. FileAt(disk, id) \in File /\ Layout(FileAt(disk, id))
  BY <1>1, FileAtOK
<1>4. IsDisk(disk') /\ SameRecords(disk, disk')
  BY <1>1, <1>2, <1>3, WithFileDisk, WithFileSame
<1>5. DOMAIN disk' = DOMAIN disk \cup {id} /\ disk'[id] = FileAt(disk, id)
  BY DEF WithFile
<1>6. LoadDir(disk) \in [Keys -> Meta \cup {NoMeta}] /\ IndexOK(disk, LoadDir(disk))
  BY <1>1, LoadDirOK
<1>7. TypeOK'
  <2>1. DOMAIN disk' \subseteq Nat /\ \A i \in DOMAIN disk' : disk'[i] \in File
    BY <1>4 DEF IsDisk
  <2>2. activeFileID' \in Nat /\ writeOffset' \in Nat /\ readFiles' \subseteq Nat
    BY <1>1, <1>2, <1>3 DEF File
  <2> QED BY <1>6, <2>1, <2>2 DEF IInv, TypeOK
<1>8. CleanLog(disk') => CommittedOK(disk', committed')
  BY <1>4, SameRecordsOK DEF IInv
<1>9. IndexOK(disk', keyDir')
  BY <1>4, <1>6, SameRecordsOK
<1>10. \A i \in DOMAIN disk' : i = activeFileID' \/ i \in readFiles'
  BY <1>5
<1>11. \A i \in DOMAIN disk' : i <= activeFileID'
  BY <1>2, <1>5
<1>12. writeOffset' = disk'[activeFileID'].size /\ activeFileID' \in DOMAIN disk'
  BY <1>5
<1> QED BY <1>4, <1>7, <1>8, <1>9, <1>10, <1>11, <1>12 DEF IInv

LEMMA OpenIInv == IInv /\ Open => IInv'
<1> SUFFICES ASSUME IInv, Open PROVE IInv'
  OBVIOUS
<1>1. PICK id \in IF DOMAIN disk = {} THEN {0}
                  ELSE {i \in DOMAIN disk : \A j \in DOMAIN disk : j <= i} :
        /\ disk' = WithFile(disk, id, FileAt(disk, id))
        /\ activeFileID' = id
        /\ writeOffset' = FileAt(disk, id).size
        /\ readFiles' = DOMAIN disk \ {id}
  BY DEF Open
<1>2. /\ keyDir' = LoadDir(disk) /\ activeOpen' = TRUE /\ status' = "open"
      /\ UNCHANGED <<deleting, lsn, committed, faults>>
  BY DEF Open
<1> QED BY <1>1, <1>2, OpenedIInv

\* Steps that leave the process without an engine.
LEMMA DownIInv ==
  ASSUME IInv, TypeOK', IsDisk(disk'),
         CleanLog(disk') => CommittedOK(disk', committed'),
         status' # "open", activeOpen' = FALSE
  PROVE  IInv'
BY DEF IInv

LEMMA CloseIInv == IInv /\ Close => IInv'
<1> SUFFICES ASSUME IInv, Close PROVE IInv'
  OBVIOUS
<1>1. IsDisk(disk) /\ activeFileID \in Nat
  BY DEF IInv, TypeOK
<1>2. IsDisk(disk') /\ SameRecords(disk, disk')
  <2>1. LET f == Sync(FileAt(disk, activeFileID)) IN
        f \in File /\ Layout(f) /\ f.frags = FileAt(disk, activeFileID).frags
    BY <1>1, FileAtOK, SyncOK
  <2>2. SameRecords(disk, disk)
    BY DEF SameRecords
  <2> QED BY <1>1, <2>1, <2>2, WithFileDisk, WithFileSame DEF Close
<1>3. TypeOK'
  BY <1>2 DEF IInv, TypeOK, Close, IsDisk
<1>4. CleanLog(disk') => CommittedOK(disk', committed')
  BY <1>2, SameRecordsOK DEF IInv, Close
<1> QED BY <1>2, <1>3, <1>4, DownIInv DEF Close

LEMMA CrashTyped == TypeOK /\ Crashed => /\ keyDir' \in [Keys -> Meta \cup {NoMeta}]
                                         /\ activeFileID' \in Nat /\ writeOffset' \in Nat
                                         /\ activeOpen' \in BOOLEAN /\ readFiles' \subseteq Nat
                                         /\ deleting' \subseteq Keys
                                         /\ status' = "down" /\ activeOpen' = FALSE
<1> SUFFICES ASSUME TypeOK, Crashed
             PROVE  /\ keyDir' \in [Keys -> Meta \cup {NoMeta}]
                    /\ activeFileID' \in Nat /\ writeOffset' \in Nat
                    /\ activeOpen' \in BOOLEAN /\ readFiles' \subseteq Nat
                    /\ deleting' \subseteq Keys
                    /\ status' = "down" /\ activeOpen' = FALSE
  OBVIOUS
<1>1. keyDir' \in [Keys -> Meta \cup {NoMeta}]
  BY DEF Crashed
<1>2. activeFileID' \in Nat /\ writeOffset' \in Nat
  BY DEF Crashed
<1>3. activeOpen' \in BOOLEAN /\ status' = "down" /\ activeOpen' = FALSE
  BY DEF Crashed
<1>4. readFiles' \subseteq Nat /\ deleting' \subseteq Keys
  BY DEF Crashed
<1> QED BY <1>1, <1>2, <1>3, <1>4

LEMMA ProcessCrashIInv == IInv /\ ProcessCrash => IInv'
<1> SUFFICES ASSUME IInv, ProcessCrash PROVE IInv'
  OBVIOUS
<1>1. TypeOK' /\ status' = "down" /\ activeOpen' = FALSE
  BY CrashTyped DEF IInv, TypeOK, ProcessCrash
<1> QED BY <1>1, DownIInv DEF IInv, ProcessCrash

LEMMA CrashInWriteIInv ==
  ASSUME IInv, NEW k \in Keys, NEW v \in Values \cup {NoValue},
         NEW n \in {0} \cup TearLens(NewRecord(k, v)), CrashInWrite(k, v, n)
  PROVE  IInv'
<1> DEFINE r == NewRecord(k, v)
<1>1. r \in Rec /\ lsn \in Nat
  BY DEF NewRecord, Rec, IInv, TypeOK
<1>2. Size(r) \in Nat /\ n \in 0 .. Size(r)
  BY <1>1, SizeNat DEF TearLens
<1>3. CanWrite /\ disk' = Landed(r, n)
  BY DEF CrashInWrite
<1>4. IsDisk(disk') /\ (CleanLog(disk') => CleanLog(disk))
  BY <1>1, <1>2, <1>3, LandedOK
<1>5. CommittedOK(disk, committed) => CommittedOK(disk', committed)
  <2>1. CASE n = 0
    BY <1>1, <1>2, <1>3, <2>1, LandedOK, SameRecordsOK
  <2>2. CASE n # 0
    <3>1. disk' = Written(Prepared(r), Target(r), r, n) /\ n \in TearLens(r)
      BY <1>1, <1>2, <1>3, <2>2, LandedOK
    <3>2. IsDisk(Prepared(r)) /\ SameRecords(disk, Prepared(r)) /\ Target(r) \in Nat
      BY <1>1, <1>3, PreparedOK
    <3> QED BY <1>1, <3>1, <3>2, SameRecordsOK, PartRecord
  <2> QED BY <2>1, <2>2
<1>6. faults' \in Nat /\ lsn' \in Nat
  BY <1>1 DEF CrashInWrite, Fault, IInv, TypeOK
<1>7. TypeOK' /\ status' = "down" /\ activeOpen' = FALSE
  BY <1>4, <1>6, CrashTyped DEF IInv, TypeOK, CrashInWrite, IsDisk
<1> QED BY <1>4, <1>5, <1>7, DownIInv DEF IInv, CrashInWrite

LEMMA WriteEntryIInv ==
  ASSUME IInv, NEW k \in Keys, NEW v \in Values \cup {NoValue},
         WriteEntry(k, v), deleting' \subseteq Keys
  PROVE  IInv'
<1> DEFINE r == NewRecord(k, v)
           p == Prepared(r)
<1>1. r \in Rec /\ lsn \in Nat /\ r.key = k /\ r.val = v
  BY DEF NewRecord, Rec, IInv, TypeOK
<1>2. Size(r) \in Nat /\ Size(r) >= 1 /\ Size(r) \in 0 .. Size(r) /\ Size(r) # 0
  BY <1>1, SizeNat
<1>3. /\ CanWrite /\ disk' = Landed(r, Size(r)) /\ activeFileID' = Target(r)
      /\ writeOffset' = BaseOffset(r) + Size(r) /\ readFiles' = KeptOpen(r)
      /\ keyDir' = [keyDir EXCEPT ![k] = NewMeta(r)]
      /\ committed' = [committed EXCEPT ![k] = v]
      /\ lsn' = lsn + 1 /\ UNCHANGED <<status, activeOpen, faults>>
  BY DEF WriteEntry
<1>4. /\ IsDisk(disk') /\ (CleanLog(disk') => CleanLog(disk))
      /\ DOMAIN disk' = DOMAIN disk \cup {Target(r)}
      /\ \A i \in DOMAIN disk' : i <= Target(r)
      /\ disk' = Written(p, Target(r), r, Size(r))
  BY <1>1, <1>2, <1>3, LandedOK
<1>5. /\ IsDisk(p) /\ SameRecords(disk, p) /\ Target(r) \in Nat /\ BaseOffset(r) \in Nat
      /\ \A i \in DOMAIN p : i <= Target(r)
      /\ Torn(FileAt(p, Target(r))) = {} => BaseOffset(r) = FileAt(p, Target(r)).size
  BY <1>1, <1>3, PreparedOK
<1>6. NewMeta(r) \in Meta \cup {NoMeta}
  BY <1>2, <1>5 DEF NewMeta, Meta
<1>7. activeOpen = TRUE /\ status = "open" /\ activeFileID \in Nat /\ activeFileID \in DOMAIN disk
  BY <1>3 DEF CanWrite, IInv, TypeOK
<1>8. TypeOK'
  <2>1. disk' \in [DOMAIN disk' -> File] /\ DOMAIN disk' \subseteq Nat
    BY <1>4 DEF IsDisk
  <2>2. keyDir' \in [Keys -> Meta \cup {NoMeta}] /\ committed' \in [Keys -> Values \cup {NoValue}]
    BY <1>3, <1>6 DEF IInv, TypeOK
  <2>3. readFiles' \subseteq Nat
    BY <1>3, <1>7 DEF IInv, TypeOK, KeptOpen
  <2>4. writeOffset' \in Nat /\ activeFileID' \in Nat /\ lsn' \in Nat
    BY <1>1, <1>2, <1>3, <1>5
  <2> QED BY <1>3, <2>1, <2>2, <2>3, <2>4 DEF IInv, TypeOK
<1>9. ASSUME CleanLog(disk')
      PROVE  CommittedOK(disk', committed') /\ IndexOK(disk', keyDir')
  <2>1. Size(r) \in 1 .. Size(r)
    BY <1>2
  <2>2. Torn(FileAt(p, Target(r))) = {} /\ CleanLog(disk)
    BY <1>1, <1>4, <1>5, <1>9, <2>1, WrittenClean
  <2>3. CommittedOK(p, committed) /\ IndexOK(p, keyDir)
    BY <1>5, <1>7, <2>2, SameRecordsOK DEF IInv
  <2>4. committed'[r.key] = r.val /\ \A j \in Keys : j # r.key => committed'[j] = committed[j]
    BY <1>1, <1>3 DEF IInv, TypeOK
  <2>5. keyDir'[r.key] = NewMeta(r) /\ \A j \in Keys : j # r.key => keyDir'[j] = keyDir[j]
    BY <1>1, <1>3 DEF IInv, TypeOK
  <2>6. NewMeta(r) = MetaOf(SiteAt(p, Target(r), r))
    BY <1>5, <2>2 DEF NewMeta, MetaOf, SiteAt
  <2> QED BY <1>1, <1>4, <1>5, <2>2, <2>3, <2>4, <2>5, <2>6, WholeRecord
<1>10. \A i \in DOMAIN disk' : i = activeFileID' \/ i \in readFiles'
  BY <1>3, <1>4, <1>7 DEF KeptOpen, IInv, Target
<1>11. ASSUME Torn(disk'[activeFileID']) = {}
       PROVE  writeOffset' = disk'[activeFileID'].size
  <2>1. disk'[activeFileID'] = AppendTo(FileAt(p, Target(r)), r, Size(r))
    BY <1>3, <1>4 DEF Written, WithFile
  <2>2. Torn(FileAt(p, Target(r))) = {}
    <3>1. FileAt(p, Target(r)) \in File /\ Layout(FileAt(p, Target(r)))
      BY <1>5, FileAtOK
    <3>2. Size(r) \in 1 .. Size(r)
      BY <1>2
    <3> QED BY <1>1, <1>11, <2>1, <3>1, <3>2, AppendScanned
  <2> QED BY <1>2, <1>3, <1>5, <2>1, <2>2 DEF AppendTo
<1>12. activeFileID' \in DOMAIN disk' /\ \A i \in DOMAIN disk' : i <= activeFileID'
  BY <1>3, <1>4
<1>13. status' = "open"
  BY <1>3, <1>7
<1> QED BY <1>4, <1>8, <1>9, <1>10, <1>11, <1>12, <1>13 DEF IInv

LEMMA WriteFailsIInv ==
  ASSUME IInv, NEW k \in Keys, NEW v \in Values \cup {NoValue},
         NEW n \in {0} \cup TearLens(NewRecord(k, v)), WriteFails(k, v, n)
  PROVE  IInv'
<1> DEFINE r == NewRecord(k, v)
           p == Prepared(r)
<1>1. r \in Rec /\ lsn \in Nat
  BY DEF NewRecord, Rec, IInv, TypeOK
<1>2. Size(r) \in Nat /\ n \in 0 .. Size(r)
  BY <1>1, SizeNat DEF TearLens
<1>3. /\ CanWrite /\ disk' = Landed(r, n) /\ activeFileID' = Target(r)
      /\ writeOffset' = BaseOffset(r) /\ readFiles' = KeptOpen(r)
      /\ UNCHANGED <<status, keyDir, activeOpen, committed>>
  BY DEF WriteFails
<1>4. /\ IsDisk(disk') /\ (CleanLog(disk') => CleanLog(disk))
      /\ DOMAIN disk' = DOMAIN disk \cup {Target(r)}
      /\ \A i \in DOMAIN disk' : i <= Target(r)
      /\ n = 0 => SameRecords(disk, disk')
      /\ n # 0 => disk' = Written(p, Target(r), r, n)
  BY <1>1, <1>2, <1>3, LandedOK
<1>5. /\ IsDisk(p) /\ SameRecords(disk, p) /\ Target(r) \in Nat /\ BaseOffset(r) \in Nat
      /\ Torn(FileAt(p, Target(r))) = {} => BaseOffset(r) = FileAt(p, Target(r)).size
  BY <1>1, <1>3, PreparedOK
<1>6. activeOpen = TRUE /\ status = "open" /\ activeFileID \in Nat /\ activeFileID \in DOMAIN disk
  BY <1>3 DEF CanWrite, IInv, TypeOK
<1>7. TypeOK'
  <2>1. disk' \in [DOMAIN disk' -> File] /\ DOMAIN disk' \subseteq Nat
    BY <1>4 DEF IsDisk
  <2>2. readFiles' \subseteq Nat
    BY <1>3, <1>6 DEF IInv, TypeOK, KeptOpen
  <2>3. faults' \in Nat /\ lsn' \in Nat /\ deleting' \subseteq Keys
    BY <1>1 DEF WriteFails, Fault, LeftBy, IInv, TypeOK
  <2> QED BY <1>3, <1>5, <2>1, <2>2, <2>3 DEF IInv, TypeOK
<1>8. CleanLog(disk') => CommittedOK(disk', committed') /\ IndexOK(disk', keyDir')
  <2>1. CASE n = 0
    BY <1>3, <1>4, <1>6, <2>1, SameRecordsOK DEF IInv
  <2>2. CASE n # 0
    <3>1. n \in TearLens(r)
      BY <2>2
    <3>2. CleanLog(disk) => CommittedOK(p, committed) /\ IndexOK(p, keyDir)
      BY <1>5, <1>6, SameRecordsOK DEF IInv
    <3> QED BY <1>1, <1>3, <1>4, <1>5, <2>2, <3>1, <3>2, PartRecord
  <2> QED BY <2>1, <2>2
<1>9. \A i \in DOMAIN disk' : i = activeFileID' \/ i \in readFiles'
  BY <1>3, <1>4, <1>6 DEF KeptOpen, IInv, Target
<1>10. ASSUME Torn(disk'[activeFileID']) = {}
       PROVE  writeOffset' = disk'[activeFileID'].size
  <2>1. disk'[activeFileID'] = AppendTo(FileAt(p, Target(r)), r, n)
    BY <1>3 DEF Landed, WithFile
  <2>2. FileAt(p, Target(r)) \in File /\ Layout(FileAt(p, Target(r)))
    BY <1>5, FileAtOK
  <2>3. CASE n = 0
    BY <1>3, <1>5, <1>10, <2>1, <2>3 DEF AppendTo
  <2>4. CASE n # 0
    <3>1. n \in 1 .. Size(r) /\ n # Size(r)
      BY <1>2, <2>4 DEF TearLens
    <3>2. Torn(disk'[activeFileID']) =
            Torn(FileAt(p, Target(r))) \cup {[off |-> FileAt(p, Target(r)).size, len |-> n, rec |-> r]}
      BY <1>1, <2>1, <2>2, <3>1, AppendScanned
    <3> QED BY <1>10, <3>2
  <2> QED BY <2>3, <2>4
<1>11. activeFileID' \in DOMAIN disk' /\ \A i \in DOMAIN disk' : i <= activeFileID'
  BY <1>3, <1>4
<1> QED BY <1>3, <1>4, <1>6, <1>7, <1>8, <1>9, <1>10, <1>11 DEF IInv

\* A rotation that fails leaves an engine without a descriptor to write to.
LEMMA RotateFailsIInv ==
  ASSUME IInv, NEW k \in Keys, NEW v \in Values \cup {NoValue},
         RotateReopenFails(k, v) \/ RotateCreateFails(k, v)
  PROVE  IInv'
<1> DEFINE r == NewRecord(k, v)
<1>1. r \in Rec /\ lsn \in Nat
  BY DEF NewRecord, Rec, IInv, TypeOK
<1>2. /\ CanWrite /\ disk' = SyncedActive /\ activeOpen' = FALSE
      /\ UNCHANGED <<status, keyDir, writeOffset, lsn, committed>>
      /\ faults' = faults + 1
      /\ deleting' \subseteq deleting
      /\ \/ UNCHANGED <<activeFileID, readFiles>>
         \/ activeFileID' = activeFileID + 1 /\ readFiles' = readFiles \cup {activeFileID}
  BY DEF RotateReopenFails, RotateCreateFails, Fault, LeftBy
<1>3. IsDisk(disk') /\ SameRecords(disk, disk') /\ DOMAIN disk' = DOMAIN disk
  BY <1>1, <1>2, PreparedOK
<1>4. activeFileID \in Nat /\ status = "open"
  BY <1>2 DEF CanWrite, IInv, TypeOK
<1>5. TypeOK'
  <2>1. activeOpen' \in BOOLEAN
    BY <1>2
  <2>2. readFiles' \subseteq Nat /\ activeFileID' \in Nat
    <3>1. readFiles \subseteq Nat
      BY DEF IInv, TypeOK
    <3>2. CASE UNCHANGED <<activeFileID, readFiles>>
      BY <1>4, <3>1, <3>2
    <3>3. CASE activeFileID' = activeFileID + 1 /\ readFiles' = readFiles \cup {activeFileID}
      BY <1>4, <3>1, <3>3
    <3> QED BY <1>2, <3>2, <3>3
  <2>3. disk' \in [DOMAIN disk' -> File] /\ DOMAIN disk' \subseteq Nat
    BY <1>3 DEF IsDisk
  <2> QED BY <1>2, <2>1, <2>2, <2>3 DEF IInv, TypeOK
<1>6. /\ CleanLog(disk') => CommittedOK(disk', committed')
      /\ CleanLog(disk') => IndexOK(disk', keyDir')
  BY <1>2, <1>3, <1>4, SameRecordsOK DEF IInv
<1> QED BY <1>2, <1>3, <1>5, <1>6 DEF IInv

\* What is left of a file after power loss.
LEMMA CutOK ==
  ASSUME NEW f \in File, Layout(f), NEW n \in Nat, n <= f.size
  PROVE  Cut(f, n) \in File /\ Layout(Cut(f, n))
<1> DEFINE left(g) == [g EXCEPT !.len = IF g.off + g.len <= n THEN g.len ELSE n - g.off]
           f2 == Cut(f, n)
<1>1. f2 = [frags |-> {left(g) : g \in {h \in f.frags : h.off < n}}, size |-> n, synced |-> n]
  BY DEF Cut
<1>2. f.size \in Nat /\ f.frags \subseteq Frag
  BY DEF File
<1>3. ASSUME NEW g \in f.frags, g.off < n
      PROVE  /\ left(g) \in Frag /\ left(g).off = g.off /\ left(g).rec = g.rec
             /\ left(g).len = (IF g.off + g.len <= n THEN g.len ELSE n - g.off)
             /\ left(g).len \in Nat /\ 1 <= left(g).len /\ left(g).len <= g.len
             /\ left(g).off + left(g).len <= n
             /\ g.off \in Nat /\ g.len \in Nat /\ g.len <= Size(g.rec) /\ Size(g.rec) \in Nat
  <2>1. /\ g \in Frag /\ g.off \in Nat /\ g.len \in Nat /\ g.rec \in Rec /\ 1 <= g.len
        /\ g.len <= Size(g.rec) /\ Size(g.rec) \in Nat
    BY <1>2, SizeNat DEF Frag, Layout
  <2>2. PICK m : m = IF g.off + g.len <= n THEN g.len ELSE n - g.off
    OBVIOUS
  <2>3. m \in Nat /\ 1 <= m /\ m <= g.len /\ g.off + m <= n
    BY <1>3, <2>1, <2>2
  <2>4. left(g) = [g EXCEPT !.len = m]
    BY <2>2
  <2>5. left(g) = [off |-> g.off, len |-> m, rec |-> g.rec]
    BY <2>1, <2>4 DEF Frag
  <2>6. left(g) \in Frag
    BY <2>1, <2>3, <2>5 DEF Frag
  <2> HIDE DEF left
  <2> QED BY <2>1, <2>2, <2>3, <2>5, <2>6
<1> HIDE DEF left, f2
<1>4. f2 \in File
  BY <1>1, <1>3 DEF File
<1>5. ASSUME NEW g \in f2.frags
      PROVE  1 <= g.len /\ g.len <= Size(g.rec) /\ g.off + g.len <= f2.size
  <2>1. PICK h \in f.frags : h.off < n /\ g = left(h)
    BY <1>1, <1>5
  <2>2. Size(g.rec) = Size(h.rec)
    BY <1>3, <2>1
  <2> QED BY <1>1, <1>3, <2>1, <2>2
<1>6. ASSUME NEW g \in f2.frags, NEW h \in f2.frags
      PROVE  g = h \/ g.off + g.len <= h.off \/ h.off + h.len <= g.off
  <2>1. PICK a \in f.frags : a.off < n /\ g = left(a)
    BY <1>1, <1>6
  <2>2. PICK b \in f.frags : b.off < n /\ h = left(b)
    BY <1>1, <1>6
  <2>3. a = b \/ a.off + a.len <= b.off \/ b.off + b.len <= a.off
    BY DEF Layout
  <2>4. /\ g.off = a.off /\ g.len <= a.len /\ g.len \in Nat /\ a.len \in Nat /\ a.off \in Nat
        /\ h.off = b.off /\ h.len <= b.len /\ h.len \in Nat /\ b.len \in Nat /\ b.off \in Nat
    BY <1>3, <2>1, <2>2
  <2> QED BY <2>1, <2>2, <2>3, <2>4
<1>7. ASSUME NEW i \in 0 .. f2.size - 1
      PROVE  \E g \in f2.frags : g.off <= i /\ i < g.off + g.len
  <2>1. i \in Nat /\ i < n /\ i \in 0 .. f.size - 1
    BY <1>1, <1>2
  <2>2. PICK h \in f.frags : h.off <= i /\ i < h.off + h.len
    BY <2>1 DEF Layout
  <2>3. h.off \in Nat /\ h.len \in Nat
    BY <1>2 DEF Frag
  <2>4. h.off < n
    BY <2>1, <2>2, <2>3
  <2>5. left(h) \in f2.frags
    BY <1>1, <2>4
  <2>6. left(h).off <= i /\ i < left(h).off + left(h).len
    BY <1>3, <2>1, <2>2, <2>3, <2>4
  <2> QED BY <2>5, <2>6
<1>8. f2.synced <= f2.size
  BY <1>1
<1>9. f2 \in File /\ Layout(f2)
  BY <1>4, <1>5, <1>6, <1>7, <1>8 DEF Layout
<1> QED BY <1>9 DEF f2

\* The lengths at which power loss cuts lie within the file.
LEMMA CutPointsOK ==
  ASSUME NEW f \in File, Layout(f), NEW n \in CutPoints(f)
  PROVE  n \in Nat /\ f.synced <= n /\ n <= f.size
BY DEF CutPoints, File, Layout

\* Clients take what the reopened database says for what is stored.
LEMMA RecoveredOK ==
  ASSUME NEW d, IsDisk(d)
  PROVE  Recovered(d) \in [Keys -> Values \cup {NoValue}] /\ CommittedOK(d, Recovered(d))
<1>1. ASSUME NEW k \in Keys
      PROVE  /\ Recovered(d)[k] \in Values \cup {NoValue}
             /\ \/ NoSite(d, k) /\ Recovered(d)[k] = NoValue
                \/ \E s \in Sites(d) : Decides(d, k, s) /\ Recovered(d)[k] = s.rec.val
  <2>1. CASE NoSite(d, k)
    BY <2>1, RestartOf
  <2>2. CASE \E s \in Sites(d) : Decides(d, k, s)
    <3>1. PICK s \in Sites(d) : Decides(d, k, s)
      BY <2>2
    <3>2. Recovered(d)[k] = s.rec.val
      BY <3>1, RestartOf
    <3>3. s.rec.val \in Values \cup {NoValue}
      BY SiteType DEF Rec
    <3> QED BY <3>1, <3>2, <3>3
  <2> QED BY <2>1, <2>2, Decided
<1> QED BY <1>1 DEF CommittedOK, Recovered

LEMMA PowerLossIInv == IInv /\ PowerLoss => IInv'
<1> SUFFICES ASSUME IInv, PowerLoss PROVE IInv'
  OBVIOUS
<1>1. PICK cut : /\ \A i \in DOMAIN disk : cut[i] \in CutPoints(disk[i])
                 /\ disk' = [i \in DOMAIN disk |-> Cut(disk[i], cut[i])]
  BY DEF PowerLoss
<1>2. committed' = Recovered(disk') /\ Crashed /\ UNCHANGED lsn /\ faults' = faults + 1
  BY DEF PowerLoss, Fault
<1>3. IsDisk(disk)
  BY DEF IInv
<1>4. ASSUME NEW i \in DOMAIN disk' PROVE disk'[i] \in File /\ Layout(disk'[i])
  <2>1. disk[i] \in File /\ Layout(disk[i]) /\ cut[i] \in CutPoints(disk[i])
    BY <1>1, <1>3, <1>4 DEF IsDisk
  <2>2. disk'[i] = Cut(disk[i], cut[i])
    BY <1>1, <1>4
  <2> QED BY <2>1, <2>2, CutPointsOK, CutOK
<1>5. IsDisk(disk')
  BY <1>1, <1>3, <1>4 DEF IsDisk
<1>6. committed' \in [Keys -> Values \cup {NoValue}] /\ CommittedOK(disk', committed')
  BY <1>2, <1>5, RecoveredOK
<1>7. TypeOK' /\ status' = "down" /\ activeOpen' = FALSE
  BY <1>2, <1>5, <1>6, CrashTyped DEF IInv, TypeOK, IsDisk
<1> QED BY <1>5, <1>6, <1>7, DownIInv

LEMMA NextIInv == IInv /\ [Next]_vars => IInv'
<1> SUFFICES ASSUME IInv, [Next]_vars PROVE IInv'
  OBVIOUS
<1>1. CASE Open
  BY <1>1, OpenIInv
<1>2. CASE OpenRefused
  <2>1. UNCHANGED <<disk, engine, deleting, lsn, committed, faults>> /\ status' = "refused"
    BY <1>2 DEF OpenRefused
  <2>2. status # "open" /\ ~ activeOpen
    BY <1>2 DEF OpenRefused, IInv
  <2>3. TypeOK'
    BY <2>1 DEF IInv, TypeOK, engine
  <2> QED BY <2>1, <2>2, <2>3 DEF IInv, engine
<1>3. CASE Close
  BY <1>3, CloseIInv
<1>4. CASE ProcessCrash
  BY <1>4, ProcessCrashIInv
<1>5. CASE PowerLoss
  BY <1>5, PowerLossIInv
<1>6. ASSUME NEW k \in Keys, NEW v \in Values, Put(k, v)
      PROVE  IInv'
  BY <1>6, WriteEntryIInv DEF Put, IInv, TypeOK
<1>7. ASSUME NEW k \in Keys, DeleteCheck(k)
      PROVE  IInv'
  <2>1. UNCHANGED <<disk, status, engine, lsn, committed, faults>> /\ deleting' \subseteq Keys
    BY <1>7 DEF DeleteCheck, IInv, TypeOK
  <2>2. TypeOK'
    BY <2>1 DEF IInv, TypeOK, engine
  <2> QED BY <2>1, <2>2 DEF IInv, engine
<1>8. ASSUME NEW k \in Keys, DeleteWrite(k)
      PROVE  IInv'
  BY <1>8, WriteEntryIInv DEF DeleteWrite, LeftBy, IInv, TypeOK
<1>9. ASSUME NEW k \in Keys, NEW v \in Values \cup {NoValue},
             RotateReopenFails(k, v) \/ RotateCreateFails(k, v)
      PROVE  IInv'
  BY <1>9, RotateFailsIInv
<1>10. ASSUME NEW k \in Keys, NEW v \in Values \cup {NoValue},
              NEW n \in {0} \cup TearLens(NewRecord(k, v)), WriteFails(k, v, n) \/ CrashInWrite(k, v, n)
       PROVE  IInv'
  BY <1>10, WriteFailsIInv, CrashInWriteIInv
<1>11. CASE UNCHANGED vars
  <2>1. UNCHANGED <<disk, status, engine, deleting, lsn, committed, faults>>
    BY <1>11 DEF vars
  <2>2. TypeOK'
    BY <2>1 DEF IInv, TypeOK, engine
  <2> QED BY <2>1, <2>2 DEF IInv, engine
<1> QED BY <1>1, <1>2, <1>3, <1>4, <1>5, <1>6, <1>7, <1>8, <1>9, <1>10, <1>11 DEF Next

\* An engine stays without descriptors only where a rotation has failed.
LEMMA NextHeld == IInv /\ Held /\ [Next]_vars => Held'
<1> SUFFICES ASSUME IInv, Held, [Next]_vars PROVE Held'
  OBVIOUS
<1>1. IInv'
  BY NextIInv
<1>2. CASE activeOpen'
  BY <1>1, <1>2 DEF IInv, Held
<1>3. CASE status' # "open"
  BY <1>3 DEF Held
<1>4. CASE UNCHANGED <<disk, status, engine>>
  BY <1>4 DEF Held, engine
<1>5. ASSUME NEW k \in Keys, NEW v \in Values \cup {NoValue},
             RotateReopenFails(k, v) \/ RotateCreateFails(k, v)
      PROVE  Held'
  <2>1. /\ CanWrite /\ disk' = SyncedActive /\ UNCHANGED status
        /\ \/ UNCHANGED <<activeFileID, readFiles>>
           \/ activeFileID' = activeFileID + 1 /\ readFiles' = readFiles \cup {activeFileID}
    BY <1>5 DEF RotateReopenFails, RotateCreateFails
  <2>2. DOMAIN disk' = DOMAIN disk
    <3>1. NewRecord(k, v) \in Rec
      BY DEF NewRecord, Rec, IInv, TypeOK
    <3> QED BY <2>1, <3>1, PreparedOK
  <2> QED BY <2>1, <2>2 DEF Held, CanWrite
<1>6. ASSUME NEW k \in Keys, NEW v \in Values \cup {NoValue}, WriteEntry(k, v)
      PROVE  activeOpen'
  BY <1>6 DEF WriteEntry, CanWrite
<1>7. ASSUME NEW k \in Keys, NEW v \in Values \cup {NoValue},
             NEW n \in {0} \cup TearLens(NewRecord(k, v)), WriteFails(k, v, n) \/ CrashInWrite(k, v, n)
      PROVE  activeOpen' \/ status' # "open"
  BY <1>7 DEF WriteFails, CanWrite, CrashInWrite, Crashed
<1>8. Open => activeOpen'
  BY DEF Open
<1>9. OpenRefused \/ Close \/ ProcessCrash \/ PowerLoss => status' # "open"
  BY DEF OpenRefused, Close, ProcessCrash, PowerLoss, Crashed
<1>10. \A k \in Keys : DeleteCheck(k) => UNCHANGED <<disk, status, engine>>
  BY DEF DeleteCheck
<1>11. UNCHANGED vars => UNCHANGED <<disk, status, engine>>
  BY DEF vars
<1>12. \A k \in Keys, v \in Values : Put(k, v) => WriteEntry(k, v)
  BY DEF Put
<1>13. \A k \in Keys : DeleteWrite(k) => WriteEntry(k, NoValue)
  BY DEF DeleteWrite
<1> QED BY <1>2, <1>3, <1>4, <1>5, <1>6, <1>7, <1>8, <1>9, <1>10, <1>11, <1>12, <1>13 DEF Next

\* The invariant holds in every state of every behaviour, whatever fails
\* (bitcask.go: NewEngine, writeEntry, rotateActiveFile, Delete, Close).
THEOREM InvariantHolds == Spec => []IInv
<1>1. Init => IInv
  BY InitIInv
<1>2. IInv /\ [Next]_vars => IInv'
  BY NextIInv
<1> QED BY <1>1, <1>2, PTL DEF Spec

\* Every variable of the engine has its type.
THEOREM TypeCorrect == Spec => []TypeOK
<1>1. IInv => TypeOK
  BY DEF IInv
<1> QED BY <1>1, InvariantHolds, PTL

--------------------------------------------------------------------------------
(* What the invariant means for clients *)

\* While the log is clean the key directory in memory is the one a restart would
\* build from the files (writeEntry against loadFilesAndBuildIndex).
THEOREM IndexIsRestartIndex == Spec => []IndexMatchesLog
<1>1. ASSUME IInv PROVE IndexMatchesLog
  <2> SUFFICES ASSUME status = "open", CleanLog(disk) PROVE keyDir = LoadDir(disk)
    BY DEF IndexMatchesLog
  <2>1. IndexOK(disk, keyDir) /\ IsDisk(disk) /\ keyDir \in [Keys -> Meta \cup {NoMeta}]
    BY <1>1 DEF IInv, TypeOK
  <2>2. ASSUME NEW k \in Keys PROVE keyDir[k] = LoadDir(disk)[k]
    BY <2>1, RestartOf DEF IndexOK
  <2> QED BY <2>1, <2>2 DEF LoadDir
<1> QED BY <1>1, InvariantHolds, PTL

\* A torn record at the end of a clean file ends with the file.
LEMMA CleanTear ==
  ASSUME NEW f \in File, Layout(f), \A t \in Torn(f), g \in f.frags : g.off <= t.off
  PROVE  ~ MustRefuse(f) /\ ~ MayRefuse(f)
<1> SUFFICES ASSUME NEW t \in Torn(f) PROVE t.off + t.len = f.size /\ t.len < Size(t.rec)
                                              /\ t.off \in Nat /\ t.len \in Nat /\ Size(t.rec) \in Nat
  <2>1. FirstTorn(f) \subseteq Torn(f)
    BY DEF FirstTorn
  <2>2. HeaderSize \in Nat
    BY SizeAssumption
  <2> QED BY <2>1, <2>2 DEF MustRefuse, MayRefuse
<1>1. t \in f.frags /\ t.len # Size(t.rec)
  BY DEF Torn, Intact
<1>2. f.frags \subseteq Frag /\ f.size \in Nat
  BY DEF File
<1>3. t.off \in Nat /\ t.len \in Nat /\ t.rec \in Rec
  BY <1>1, <1>2 DEF Frag
<1>4. Size(t.rec) \in Nat
  BY <1>3, SizeNat
<1>5. t.len < Size(t.rec) /\ 1 <= t.len /\ t.off + t.len <= f.size
  BY <1>1, <1>3, <1>4 DEF Layout
<1>6. PICK g \in f.frags : g.off + g.len = f.size
  <2>1. f.size - 1 \in 0 .. f.size - 1
    BY <1>2, <1>3, <1>5
  <2>2. PICK g \in f.frags : g.off <= f.size - 1 /\ f.size - 1 < g.off + g.len
    BY <2>1 DEF Layout
  <2>3. g.off \in Nat /\ g.len \in Nat /\ g.off + g.len <= f.size
    BY <1>2, <2>2 DEF Frag, Layout
  <2>4. g.off + g.len = f.size
    BY <1>2, <2>2, <2>3
  <2> QED BY <2>4
<1>7. g.off \in Nat /\ g.len \in Nat /\ g.off <= t.off /\ 1 <= g.len
  BY <1>2, <1>6 DEF Frag, Layout
<1>8. g = t \/ g.off + g.len <= t.off \/ t.off + t.len <= g.off
  BY <1>1 DEF Layout
<1>9. t.off + t.len = f.size
  BY <1>2, <1>3, <1>5, <1>6, <1>7, <1>8
<1> QED BY <1>3, <1>4, <1>5, <1>9

\* While the log is clean, a restart at any moment opens the database and recovers
\* exactly what clients were told is stored.
THEOREM RestartRecovers == Spec => []Recoverable
<1>1. ASSUME IInv PROVE Recoverable
  <2> SUFFICES ASSUME CleanLog(disk)
               PROVE  /\ \A i \in DOMAIN disk : ~ MustRefuse(disk[i]) /\ ~ MayRefuse(disk[i])
                      /\ Recovered(disk) = committed
    BY DEF Recoverable
  <2>1. IsDisk(disk) /\ CommittedOK(disk, committed) /\ committed \in [Keys -> Values \cup {NoValue}]
    BY <1>1 DEF IInv, TypeOK
  <2>2. ASSUME NEW i \in DOMAIN disk PROVE ~ MustRefuse(disk[i]) /\ ~ MayRefuse(disk[i])
    BY <2>1, CleanTear DEF IsDisk, CleanLog
  <2>3. ASSUME NEW k \in Keys PROVE Recovered(disk)[k] = committed[k]
    BY <2>1, RestartOf DEF CommittedOK
  <2> QED BY <2>1, <2>2, <2>3 DEF Recovered
<1> QED BY <1>1, InvariantHolds, PTL

\* The record a site stands for is what a read at its place returns.
LEMMA SiteRead ==
  ASSUME NEW d, IsDisk(d), NEW s \in Sites(d)
  PROVE  \E g : /\ ReadsWhole(FileAt(d, s.file), s.off, Size(s.rec)) = {g}
                /\ g.rec = s.rec
<1> DEFINE f == d[s.file]
<1>1. /\ s.file \in DOMAIN d /\ s.off \in Nat /\ s.rec \in Rec
  BY SiteType
<1>2. PICK g \in f.frags : g = [off |-> s.off, len |-> Size(s.rec), rec |-> s.rec] /\ Intact(g)
  BY SiteType
<1>3. FileAt(d, s.file) = f /\ Layout(f) /\ f \in File
  BY <1>1 DEF FileAt, IsDisk
<1>4. g \in ReadsWhole(f, s.off, Size(s.rec))
  BY <1>2 DEF ReadsWhole
<1>5. ASSUME NEW h \in ReadsWhole(f, s.off, Size(s.rec)) PROVE h = g
  <2>1. h \in f.frags /\ h.off = s.off /\ h.len = Size(s.rec)
    BY <1>5 DEF ReadsWhole
  <2>2. Size(s.rec) \in Nat /\ Size(s.rec) >= 1
    BY <1>1, SizeNat
  <2> QED BY <1>1, <1>2, <1>3, <2>1, <2>2 DEF Layout
<1> QED BY <1>2, <1>3, <1>4, <1>5

\* What Get answers, given the invariant.
LEMMA GetIs ==
  ASSUME IInv, status = "open", CleanLog(disk), NEW k \in Keys
  PROVE  \/ Get(k) = committed[k]
         \/ /\ Get(k) = ReadError
            /\ keyDir[k].file \in DOMAIN disk /\ ~ HasHandle(keyDir[k].file)
<1>1. IsDisk(disk) /\ CommittedOK(disk, committed) /\ IndexOK(disk, keyDir)
  BY DEF IInv
<1>2. CASE NoSite(disk, k)
  BY <1>1, <1>2 DEF CommittedOK, IndexOK, Get, NoSite, Decides
<1>3. CASE ~ NoSite(disk, k)
  <2>1. PICK s \in Sites(disk) : Decides(disk, k, s) /\ keyDir[k] = MetaOf(s)
    BY <1>1, <1>3 DEF IndexOK
  <2>2. PICK u \in Sites(disk) : Decides(disk, k, u) /\ committed[k] = u.rec.val
    BY <1>1, <1>3 DEF CommittedOK
  <2>3. u = s
    BY <1>1, <2>1, <2>2, LatestUnique
  <2>4. CASE s.rec.val = NoValue
    BY <2>1, <2>2, <2>3, <2>4 DEF Get, MetaOf
  <2>5. CASE s.rec.val # NoValue
    <3>1. keyDir[k] = [file |-> s.file, off |-> s.off, size |-> Size(s.rec)]
      BY <2>1, <2>5 DEF MetaOf
    <3>2. s.file \in DOMAIN disk /\ s.file \in Nat /\ s.off \in Nat /\ Size(s.rec) \in Nat
      BY <1>1, SiteType, SizeNat
    <3>3. keyDir[k] # NoMeta
      BY <3>1, <3>2, NoMetaAssumption DEF Meta
    <3>4. CASE HasHandle(s.file)
      <4>1. PICK g : /\ ReadsWhole(FileAt(disk, s.file), s.off, Size(s.rec)) = {g}
                     /\ g.rec = s.rec
        BY <1>1, SiteRead
      <4>2. Get(k) = ValuePart(k, g)
        BY <3>1, <3>3, <3>4, <4>1 DEF Get
      <4>3. ValuePart(k, g) = s.rec.val
        BY <2>1, <2>5, <4>1 DEF ValuePart, Decides
      <4> QED BY <2>2, <2>3, <4>2, <4>3
    <3>5. CASE ~ HasHandle(s.file)
      <4>1. Get(k) = ReadError
        BY <3>1, <3>3, <3>5 DEF Get
      <4> QED BY <3>1, <3>2, <3>5, <4>1
    <3> QED BY <3>4, <3>5
  <2> QED BY <2>4, <2>5
<1> QED BY <1>2, <1>3

\* While the log is clean, an open engine answers every Get with the value clients
\* were told is stored, or with an error for a file whose descriptor a failed
\* rotation has lost.
THEOREM GetServesCommitted == Spec => []ServesCommitted
<1>1. ASSUME IInv, Held PROVE ServesCommitted
  <2> SUFFICES ASSUME status = "open", CleanLog(disk), NEW k \in Keys
               PROVE  \/ Get(k) = committed[k]
                      \/ /\ Get(k) = ReadError
                         /\ ~ activeOpen /\ keyDir[k].file = activeFileID
    BY DEF ServesCommitted
  <2>1. \A i \in DOMAIN disk : ~ HasHandle(i) => ~ activeOpen /\ i = activeFileID
    BY <1>1 DEF Held, HasHandle
  <2> QED BY <1>1, <2>1, GetIs
<1>2. Init => IInv /\ Held
  BY InitIInv DEF Init, Held
<1>3. IInv /\ Held /\ [Next]_vars => (IInv /\ Held)'
  BY NextIInv, NextHeld
<1> QED BY <1>1, <1>2, <1>3, PTL DEF Spec

--------------------------------------------------------------------------------
(* Refinement: without torn records the engine is the abstract map. *)

NoTorn == \A i \in DOMAIN disk : Torn(disk[i]) = {}

LEMMA SameRecordsNoTorn ==
  ASSUME NEW e, NoTorn, SameRecords(disk, e)
  PROVE  \A i \in DOMAIN e : Torn(e[i]) = {}
BY DEF NoTorn, SameRecords, Torn

LEMMA LandedNoTorn ==
  ASSUME IInv, NoTorn, CanWrite, NEW r \in Rec
  PROVE  /\ \A i \in DOMAIN Landed(r, Size(r)) : Torn(Landed(r, Size(r))[i]) = {}
         /\ \A i \in DOMAIN Landed(r, 0) : Torn(Landed(r, 0)[i]) = {}
<1> DEFINE p == Prepared(r)
           f == FileAt(p, Target(r))
<1>1. IsDisk(p) /\ SameRecords(disk, p)
  BY PreparedOK
<1>2. \A i \in DOMAIN p : Torn(p[i]) = {}
  BY <1>1, SameRecordsNoTorn
<1>3. f \in File /\ Layout(f) /\ Torn(f) = {}
  BY <1>1, <1>2, FileAtOK DEF FileAt, EmptyFile, Torn
<1>4. Size(r) \in 1 .. Size(r) /\ 0 \in 0 .. Size(r)
  BY SizeNat
<1>5. Torn(AppendTo(f, r, Size(r))) = {}
  BY <1>3, <1>4, AppendScanned
<1>6. \A i \in DOMAIN Landed(r, Size(r)) : Torn(Landed(r, Size(r))[i]) = {}
  BY <1>2, <1>5 DEF Landed, WithFile
<1>7. SameRecords(disk, Landed(r, 0))
  BY <1>4, LandedOK
<1> QED BY <1>6, <1>7, SameRecordsNoTorn

LEMMA NoTornStep ==
  ASSUME Faults \cap {"tear", "shortWrite", "powerLoss"} = {}
  PROVE  IInv /\ NoTorn /\ [Next]_vars => NoTorn'
<1> SUFFICES ASSUME IInv, NoTorn, [Next]_vars PROVE NoTorn'
  OBVIOUS
<1>1. CASE Open
  <2>1. PICK id : disk' = WithFile(disk, id, FileAt(disk, id))
    BY <1>1 DEF Open
  <2> QED BY <2>1, WithFileSame, SameRecordsNoTorn DEF NoTorn
<1>2. CASE Close
  <2>1. Sync(FileAt(disk, activeFileID)).frags = FileAt(disk, activeFileID).frags
    BY DEF Sync
  <2>2. SameRecords(disk, disk)
    BY DEF SameRecords
  <2>3. SameRecords(disk, disk')
    BY <1>2, <2>1, <2>2, WithFileSame DEF Close
  <2> QED BY <2>3, SameRecordsNoTorn DEF NoTorn
<1>3. CASE UNCHANGED disk
  BY <1>3 DEF NoTorn
<1>4. ASSUME NEW k \in Keys, NEW v \in Values \cup {NoValue}, WriteEntry(k, v)
      PROVE  NoTorn'
  <2>1. NewRecord(k, v) \in Rec
    BY DEF NewRecord, Rec, IInv, TypeOK
  <2> QED BY <1>4, <2>1, LandedNoTorn DEF WriteEntry, NoTorn
<1>5. ASSUME NEW k \in Keys, NEW v \in Values \cup {NoValue},
             RotateReopenFails(k, v) \/ RotateCreateFails(k, v)
      PROVE  NoTorn'
  <2>1. NewRecord(k, v) \in Rec
    BY DEF NewRecord, Rec, IInv, TypeOK
  <2>2. CanWrite /\ disk' = SyncedActive
    BY <1>5 DEF RotateReopenFails, RotateCreateFails
  <2> QED BY <2>1, <2>2, PreparedOK, SameRecordsNoTorn DEF NoTorn
<1>6. ASSUME NEW k \in Keys, NEW v \in Values \cup {NoValue},
             NEW n \in {0} \cup TearLens(NewRecord(k, v)), WriteFails(k, v, n) \/ CrashInWrite(k, v, n)
      PROVE  NoTorn'
  <2>1. NewRecord(k, v) \in Rec
    BY DEF NewRecord, Rec, IInv, TypeOK
  <2>2. n = 0 /\ CanWrite /\ disk' = Landed(NewRecord(k, v), n)
    BY <1>6 DEF WriteFails, CrashInWrite, Fault
  <2> QED BY <2>1, <2>2, LandedNoTorn DEF NoTorn
<1>7. CASE PowerLoss
  BY <1>7 DEF PowerLoss, Fault
<1>8. OpenRefused \/ ProcessCrash \/ (\E k \in Keys : DeleteCheck(k)) \/ UNCHANGED vars => UNCHANGED disk
  BY DEF OpenRefused, ProcessCrash, DeleteCheck, vars
<1> QED BY <1>1, <1>2, <1>3, <1>4, <1>5, <1>6, <1>7, <1>8 DEF Next, Put, DeleteWrite

\* A step changes what clients were told is stored by one Put or one Delete.
LEMMA CommittedStep ==
  ASSUME Faults \cap {"tear", "shortWrite", "powerLoss"} = {}
  PROVE  [Next]_vars =>
           \/ UNCHANGED committed
           \/ \E k \in Keys, v \in Values \cup {NoValue} : committed' = [committed EXCEPT ![k] = v]
<1> SUFFICES ASSUME [Next]_vars
             PROVE  \/ UNCHANGED committed
                    \/ \E k \in Keys, v \in Values \cup {NoValue} :
                         committed' = [committed EXCEPT ![k] = v]
  OBVIOUS
<1>1. CASE Open \/ OpenRefused \/ Close \/ ProcessCrash \/ UNCHANGED vars
  BY <1>1 DEF Open, OpenRefused, Close, ProcessCrash, vars
<1>2. CASE PowerLoss
  BY <1>2 DEF PowerLoss, Fault
<1>3. ASSUME NEW k \in Keys, NEW v \in Values, Put(k, v)
      PROVE  \E w \in Values \cup {NoValue} : committed' = [committed EXCEPT ![k] = w]
  BY <1>3 DEF Put, WriteEntry
<1>4. ASSUME NEW k \in Keys, DeleteWrite(k)
      PROVE  \E w \in Values \cup {NoValue} : committed' = [committed EXCEPT ![k] = w]
  BY <1>4 DEF DeleteWrite, WriteEntry
<1>5. ASSUME NEW k \in Keys, DeleteCheck(k)
      PROVE  UNCHANGED committed
  BY <1>5 DEF DeleteCheck
<1>6. ASSUME NEW k \in Keys, NEW v \in Values \cup {NoValue},
             \/ RotateReopenFails(k, v) \/ RotateCreateFails(k, v)
             \/ \E n \in {0} \cup TearLens(NewRecord(k, v)) : WriteFails(k, v, n) \/ CrashInWrite(k, v, n)
      PROVE  UNCHANGED committed
  BY <1>6 DEF RotateReopenFails, RotateCreateFails, WriteFails, CrashInWrite
<1> QED BY <1>1, <1>2, <1>3, <1>4, <1>5, <1>6 DEF Next

\* Without torn records and power loss the files, as a restart would read them,
\* implement the abstract map at every step: rotation, failed rotations and
\* writes, Close, crashes and restarts are all invisible (engine.go, bitcask.go).
THEOREM EngineImplementsMap ==
  ASSUME Faults \cap {"tear", "shortWrite", "powerLoss"} = {}
  PROVE  Spec => ImplementsMap
<1>1. Spec => []IInv
  BY InvariantHolds
<1>2. Init => NoTorn
  BY DEF Init, EmptyDisk, NoTorn
<1>3. IInv /\ NoTorn /\ [Next]_vars => NoTorn'
  BY NoTornStep
<1>4. Spec => []NoTorn
  BY <1>1, <1>2, <1>3, PTL DEF Spec
<1>5. ASSUME NoTorn PROVE CleanLog(disk)
  BY <1>5 DEF NoTorn, CleanLog
<1>6. Spec => []Recoverable
  BY RestartRecovers
<1>7. Init => Map!Init
  <2> SUFFICES ASSUME Init PROVE Recovered(disk) = [k \in Keys |-> NoValue]
    BY DEF Map!Init
  <2>1. Sites(disk) = {}
    BY DEF Init, EmptyDisk, Sites
  <2> QED BY <2>1 DEF Recovered
<1>8. ASSUME NoTorn, Recoverable, NoTorn', Recoverable', [Next]_vars
      PROVE  [Map!Next]_(Recovered(disk))
  <2>1. Recovered(disk) = committed /\ Recovered(disk)' = committed'
    BY <1>5, <1>8 DEF Recoverable, NoTorn, CleanLog
  <2>2. CASE UNCHANGED committed
    BY <2>1, <2>2
  <2>3. CASE \E k \in Keys, v \in Values \cup {NoValue} : committed' = [committed EXCEPT ![k] = v]
    <3>1. PICK k \in Keys, v \in Values \cup {NoValue} : committed' = [committed EXCEPT ![k] = v]
      BY <2>3
    <3>2. CASE v = NoValue
      BY <2>1, <3>1, <3>2 DEF Map!Next, Map!Delete
    <3>3. CASE v \in Values
      BY <2>1, <3>1, <3>3 DEF Map!Next, Map!Put
    <3> QED BY <3>2, <3>3
  <2> QED BY <1>8, <2>2, <2>3, CommittedStep
<1> QED BY <1>4, <1>6, <1>7, <1>8, PTL DEF Spec, ImplementsMap, Map!Spec

--------------------------------------------------------------------------------
(* Refinement: the files are a log with a durable prefix. *)

\* The records are in the order in which they were given to Write ...
Ordered(d, l) ==
  /\ \A i \in DOMAIN d : \A g \in d[i].frags : 1 <= g.rec.lsn /\ g.rec.lsn <= l
  /\ \A i, j \in DOMAIN d : \A g \in d[i].frags, h \in d[j].frags :
       i < j \/ (i = j /\ g.off < h.off) => g.rec.lsn < h.rec.lsn

\* ... and only the last file has bytes that are not synced.
OnlyLastUnsynced(d) == \A i, j \in DOMAIN d : i < j => d[i].synced = d[i].size

LogInv == Ordered(disk, lsn) /\ OnlyLastUnsynced(disk) /\ lsn <= MaxLsn

DurableOf(d) == {s.rec : s \in {t \in Sites(d) : t.off + Size(t.rec) <= d[t.file].synced}}

LEMMA SiteEnds ==
  ASSUME NEW d, IsDisk(d), NEW s \in Sites(d)
  PROVE  /\ s.file \in DOMAIN d /\ d[s.file].size \in Nat /\ d[s.file].synced \in Nat
         /\ s.off \in Nat /\ Size(s.rec) \in Nat /\ Size(s.rec) >= 1
         /\ s.off + Size(s.rec) <= d[s.file].size
<1>1. s.file \in DOMAIN d /\ s.off \in Nat /\ s.rec \in Rec
  BY SiteType
<1>2. PICK g \in d[s.file].frags : g = [off |-> s.off, len |-> Size(s.rec), rec |-> s.rec]
  BY SiteType
<1>3. Size(s.rec) \in Nat /\ Size(s.rec) >= 1
  BY <1>1, SizeNat
<1>4. d[s.file] \in File /\ Layout(d[s.file])
  BY <1>1 DEF IsDisk
<1>5. g.off + g.len <= d[s.file].size
  BY <1>2, <1>4 DEF Layout
<1> QED BY <1>1, <1>2, <1>3, <1>4, <1>5 DEF File

\* A disk whose sites and synced lengths are those of another.
LEMMA SameDurable ==
  ASSUME NEW d, NEW e, Sites(e) = Sites(d), \A s \in Sites(d) : e[s.file].synced = d[s.file].synced
  PROVE  DurableOf(e) = DurableOf(d)
BY DEF DurableOf

\* Where all files are synced, all records are durable.
LEMMA AllDurable ==
  ASSUME NEW d, IsDisk(d), \A i \in DOMAIN d : d[i].synced = d[i].size
  PROVE  DurableOf(d) = Logged(d)
<1>1. ASSUME NEW s \in Sites(d) PROVE s.off + Size(s.rec) <= d[s.file].synced
  BY SiteEnds
<1> QED BY <1>1 DEF DurableOf, Logged

LEMMA SameRecordsOrdered ==
  ASSUME NEW d, NEW e, SameRecords(d, e), NEW l, Ordered(d, l)
  PROVE  Ordered(e, l)
BY DEF SameRecords, Ordered

LEMMA WithFileSelf ==
  ASSUME NEW d, IsDisk(d), NEW id \in DOMAIN d
  PROVE  WithFile(d, id, FileAt(d, id)) = d
BY DEF IsDisk, WithFile, FileAt

\* Syncing the last file makes all records durable.
LEMMA SyncLast ==
  ASSUME NEW d, IsDisk(d), OnlyLastUnsynced(d), NEW id \in DOMAIN d, \A i \in DOMAIN d : i <= id,
         NEW e, e = WithFile(d, id, Sync(FileAt(d, id)))
  PROVE  /\ IsDisk(e) /\ DOMAIN e = DOMAIN d /\ Sites(e) = Sites(d)
         /\ \A i \in DOMAIN e : e[i].synced = e[i].size
         /\ DurableOf(e) = Logged(d)
<1>1. FileAt(d, id) = d[id] /\ d[id] \in File /\ Layout(d[id]) /\ id \in Nat
  BY DEF FileAt, IsDisk
<1>2. /\ Sync(d[id]) \in File /\ Layout(Sync(d[id])) /\ Sync(d[id]).frags = d[id].frags
      /\ Sync(d[id]).synced = Sync(d[id]).size
  BY <1>1, SyncOK DEF Sync
<1>3. IsDisk(e) /\ DOMAIN e = DOMAIN d /\ Sites(e) = Sites(d)
  <2>1. e = WithFile(d, id, Sync(d[id])) /\ Sync(d[id]).frags = FileAt(d, id).frags
    BY <1>1, <1>2
  <2>2. SameRecords(d, e)
    BY <2>1, WithFileSame
  <2>3. IsDisk(e)
    BY <1>1, <1>2, <2>1, WithFileDisk
  <2>4. DOMAIN e = DOMAIN d
    BY <2>1 DEF WithFile
  <2> QED BY <2>2, <2>3, <2>4, SameRecordsSites
<1>4. ASSUME NEW i \in DOMAIN e PROVE e[i].synced = e[i].size
  <2>1. CASE i = id
    BY <1>1, <1>2, <2>1 DEF WithFile
  <2>2. CASE i # id
    <3>1. i \in DOMAIN d /\ i \in Nat /\ i < id
      BY <1>1, <1>3, <2>2 DEF IsDisk
    <3>2. e[i] = d[i]
      BY <2>2, <3>1 DEF WithFile
    <3> QED BY <3>1, <3>2 DEF OnlyLastUnsynced
  <2> QED BY <2>1, <2>2
<1> QED BY <1>3, <1>4, AllDurable DEF Logged

\* Rotation syncs the file that it leaves.
LEMMA PreparedLog ==
  ASSUME IInv, LogInv, CanWrite, NEW r \in Rec
  PROVE  /\ OnlyLastUnsynced(Prepared(r)) /\ OnlyLastUnsynced(SyncedActive)
         /\ DurableOf(Prepared(r)) \in {DurableOf(disk), Logged(disk)}
         /\ DurableOf(SyncedActive) = Logged(disk)
<1>1. /\ activeFileID \in DOMAIN disk /\ activeFileID \in Nat /\ DOMAIN disk \subseteq Nat
      /\ \A i \in DOMAIN disk : i <= activeFileID
      /\ IsDisk(disk) /\ OnlyLastUnsynced(disk)
  BY DEF IInv, CanWrite, TypeOK, LogInv
<1>2. /\ IsDisk(SyncedActive) /\ DOMAIN SyncedActive = DOMAIN disk /\ Sites(SyncedActive) = Sites(disk)
      /\ \A i \in DOMAIN SyncedActive : SyncedActive[i].synced = SyncedActive[i].size
      /\ DurableOf(SyncedActive) = Logged(disk)
  BY <1>1, SyncLast DEF SyncedActive
<1>3. OnlyLastUnsynced(SyncedActive)
  BY <1>2 DEF OnlyLastUnsynced
<1>4. CASE NeedsRotation(r)
  <2>1. activeFileID + 1 \notin DOMAIN disk /\ activeFileID + 1 \in Nat
    BY <1>1
  <2>2. Prepared(r) = WithFile(SyncedActive, activeFileID + 1, EmptyFile)
    BY <1>4, <2>1 DEF Prepared, FileAt
  <2>3. \A i \in DOMAIN Prepared(r) : Prepared(r)[i].synced = Prepared(r)[i].size
    BY <1>2, <2>2 DEF WithFile, EmptyFile
  <2>4. OnlyLastUnsynced(Prepared(r))
    BY <2>3 DEF OnlyLastUnsynced
  <2>5. IsDisk(Prepared(r)) /\ Sites(Prepared(r)) = Sites(disk)
    BY PreparedOK, SameRecordsSites
  <2>6. DurableOf(Prepared(r)) = Logged(disk)
    BY <2>3, <2>5, AllDurable DEF Logged
  <2> QED BY <1>2, <1>3, <2>4, <2>6
<1>5. CASE ~ NeedsRotation(r)
  BY <1>1, <1>2, <1>3, <1>5 DEF Prepared
<1> QED BY <1>4, <1>5

\* What is written is behind all else, and not durable.
LEMMA WrittenLog ==
  ASSUME NEW d, IsDisk(d), OnlyLastUnsynced(d), NEW id \in DOMAIN d, \A i \in DOMAIN d : i <= id,
         NEW r \in Rec, NEW n \in 1 .. Size(r), NEW e, e = Written(d, id, r, n)
  PROVE  /\ OnlyLastUnsynced(e) /\ DurableOf(e) = DurableOf(d)
         /\ \A l \in Nat : Ordered(d, l) /\ r.lsn = l + 1 => Ordered(e, l + 1)
<1> DEFINE f == d[id]
           f2 == AppendTo(f, r, n)
           g0 == [off |-> f.size, len |-> n, rec |-> r]
<1>1. f \in File /\ Layout(f) /\ id \in Nat /\ FileAt(d, id) = f /\ Size(r) \in Nat /\ Size(r) >= 1
  BY SizeNat DEF IsDisk, FileAt
<1>2. f.size \in Nat /\ f.synced \in Nat /\ f.synced <= f.size /\ f.frags \subseteq Frag
  BY <1>1 DEF File, Layout
<1>3. f2.frags = f.frags \cup {g0} /\ f2.synced = f.synced
  BY <1>1 DEF AppendTo
<1>4. DOMAIN e = DOMAIN d /\ e[id] = f2 /\ \A i \in DOMAIN d : i # id => e[i] = d[i]
  BY <1>1 DEF Written, WithFile
<1>5. DOMAIN d \subseteq Nat
  BY DEF IsDisk
<1>6. OnlyLastUnsynced(e)
  <2>1. SUFFICES ASSUME NEW i \in DOMAIN d, NEW j \in DOMAIN d, i < j PROVE e[i].synced = e[i].size
    BY <1>4 DEF OnlyLastUnsynced
  <2>2. i # id
    BY <1>1, <1>5, <2>1
  <2> QED BY <1>4, <2>1, <2>2 DEF OnlyLastUnsynced
<1>7. \A i \in DOMAIN d : e[i].synced = d[i].synced
  BY <1>3, <1>4
<1>8. DurableOf(e) = DurableOf(d)
  <2>1. CASE Sites(e) = Sites(d)
    BY <1>7, <2>1, SiteType, SameDurable
  <2>2. CASE Sites(e) = Sites(d) \cup {SiteAt(d, id, r)}
    <3>1. PICK s0 : s0 = SiteAt(d, id, r)
      OBVIOUS
    <3>2. s0.rec = r /\ s0.off = f.size /\ s0.file = id
      BY <1>1, <3>1 DEF SiteAt
    <3>3. ~ (s0.off + Size(s0.rec) <= e[s0.file].synced)
      BY <1>1, <1>2, <1>7, <3>2
    <3>4. \A s \in Sites(d) : e[s.file].synced = d[s.file].synced
      BY <1>7, SiteType
    <3>5. {t \in Sites(e) : t.off + Size(t.rec) <= e[t.file].synced} =
            {t \in Sites(d) : t.off + Size(t.rec) <= d[t.file].synced}
      BY <2>2, <3>1, <3>3, <3>4
    <3> QED BY <3>5 DEF DurableOf
  <2> QED BY <1>1, <2>1, <2>2, WrittenSites
<1>9. ASSUME NEW l \in Nat, Ordered(d, l), r.lsn = l + 1 PROVE Ordered(e, l + 1)
  <2>1. \A i \in DOMAIN d : \A g \in d[i].frags : g.rec.lsn \in Nat /\ 1 <= g.rec.lsn /\ g.rec.lsn <= l
    BY <1>9 DEF Ordered, IsDisk, File, Frag, Rec
  <2>2. \A g \in f.frags : g.off \in Nat /\ g.off < f.size
    BY <1>1, <1>2 DEF Layout, Frag
  <2>3. g0.rec.lsn = l + 1 /\ g0.off = f.size
    BY <1>9
  <2>4. ASSUME NEW i \in DOMAIN e, NEW g \in e[i].frags
        PROVE  /\ g.rec.lsn \in Nat /\ 1 <= g.rec.lsn /\ g.rec.lsn <= l + 1
               /\ g \in d[i].frags \/ (i = id /\ g = g0)
    BY <1>3, <1>4, <1>9, <2>1, <2>3
  <2>5. ASSUME NEW i \in DOMAIN e, NEW j \in DOMAIN e, NEW g \in e[i].frags, NEW h \in e[j].frags,
               i < j \/ (i = j /\ g.off < h.off)
        PROVE  g.rec.lsn < h.rec.lsn
    <3>1. CASE h \in d[j].frags
      <4>1. i \in DOMAIN d /\ j \in DOMAIN d /\ i \in Nat /\ j \in Nat /\ j <= id
        BY <1>4, <1>5
      <4>2. g \in d[i].frags
        <5>1. SUFFICES ASSUME i = id, g = g0 PROVE FALSE
          BY <2>4
        <5>2. i = j /\ h.off < f.size /\ h.off \in Nat
          BY <1>1, <2>2, <2>5, <3>1, <4>1, <5>1
        <5>3. g.off = f.size
          BY <2>3, <5>1
        <5> QED BY <1>2, <2>5, <4>1, <5>2, <5>3
      <4> QED BY <1>9, <2>5, <3>1, <4>1, <4>2 DEF Ordered
    <3>2. CASE j = id /\ h = g0
      <4>1. g \in d[i].frags
        <5>1. SUFFICES ASSUME i = id, g = g0 PROVE FALSE
          BY <2>4
        <5>2. g.off = f.size /\ h.off = f.size /\ i = j
          BY <2>3, <3>2, <5>1
        <5> QED BY <1>1, <1>2, <2>5, <5>1, <5>2
      <4>2. i \in DOMAIN d
        BY <1>4
      <4>3. g.rec.lsn \in Nat /\ g.rec.lsn <= l
        BY <2>1, <4>1, <4>2
      <4> QED BY <1>9, <2>3, <3>2, <4>3
    <3> QED BY <2>4, <3>1, <3>2
  <2> QED BY <2>4, <2>5 DEF Ordered
<1> QED BY <1>6, <1>8, <1>9

\* A write, whole, in part or not at all: the log grows by one record or not at all,
\* and is flushed or not.
LEMMA LandedLog ==
  ASSUME IInv, LogInv, CanWrite, NEW r \in Rec, r.lsn = lsn + 1, NEW n \in 0 .. Size(r)
  PROVE  /\ OnlyLastUnsynced(Landed(r, n))
         /\ Ordered(Landed(r, n), IF n = 0 THEN lsn ELSE lsn + 1)
         /\ Logged(Landed(r, n)) \in {Logged(disk), Logged(disk) \cup {r}}
         /\ n = 0 => Logged(Landed(r, n)) = Logged(disk)
         /\ DurableOf(Landed(r, n)) \in {DurableOf(disk), Logged(disk)}
<1> DEFINE p == Prepared(r)
<1>1. /\ IsDisk(p) /\ SameRecords(disk, p) /\ Target(r) \in DOMAIN p /\ \A i \in DOMAIN p : i <= Target(r)
      /\ Sites(p) = Sites(disk)
  BY PreparedOK, SameRecordsSites
<1>2. OnlyLastUnsynced(p) /\ DurableOf(p) \in {DurableOf(disk), Logged(disk)}
  BY PreparedLog
<1>3. Ordered(p, lsn) /\ lsn \in Nat
  BY <1>1, SameRecordsOrdered DEF LogInv, IInv, TypeOK
<1>4. Landed(r, n) = Written(p, Target(r), r, n)
  BY DEF Landed, Written
<1>5. Size(r) \in Nat
  BY SizeNat
<1>6. CASE n = 0
  <2>1. Landed(r, n) = WithFile(p, Target(r), FileAt(p, Target(r)))
    BY <1>4, <1>6 DEF Written, AppendTo
  <2>2. Landed(r, n) = p
    BY <1>1, <2>1, WithFileSelf
  <2> QED BY <1>1, <1>2, <1>3, <1>6, <2>2 DEF Logged
<1>7. CASE n # 0
  <2>1. n \in 1 .. Size(r)
    BY <1>5, <1>7
  <2>2. /\ OnlyLastUnsynced(Landed(r, n)) /\ DurableOf(Landed(r, n)) = DurableOf(p)
        /\ Ordered(Landed(r, n), lsn + 1)
    BY <1>1, <1>2, <1>3, <1>4, <2>1, WrittenLog
  <2>3. Target(r) \in Nat
    BY <1>1 DEF IsDisk
  <2>4. \/ Sites(Landed(r, n)) = Sites(disk)
        \/ Sites(Landed(r, n)) = Sites(disk) \cup {SiteAt(p, Target(r), r)}
    BY <1>1, <1>4, <2>1, <2>3, WrittenSites
  <2>5. SiteAt(p, Target(r), r).rec = r
    BY DEF SiteAt
  <2>6. Logged(Landed(r, n)) \in {Logged(disk), Logged(disk) \cup {r}}
    BY <2>4, <2>5 DEF Logged
  <2> QED BY <1>2, <1>7, <2>2, <2>6
<1> QED BY <1>6, <1>7

\* A step of the log.
Records == [key : Keys, val : Values \cup {NoValue}, lsn : 1 .. MaxLsn]

Grows(r) ==
  /\ r \in Records
  /\ \A s \in Logged(disk) : s.lsn < r.lsn
  /\ Logged(disk') = Logged(disk) \cup {r}
  /\ DurableOf(disk') \in {DurableOf(disk), Logged(disk)}

Flushes == DurableOf(disk') = Logged(disk) /\ Logged(disk') = Logged(disk)

LosesEnd ==
  /\ Logged(disk') \subseteq Logged(disk)
  /\ \A r \in Logged(disk), s \in Logged(disk') : r.lsn <= s.lsn => r \in Logged(disk')
  /\ DurableOf(disk) \subseteq Logged(disk')
  /\ DurableOf(disk') = Logged(disk')

LogStep ==
  \/ Flushes
  \/ LosesEnd
  \/ \E r \in Records : Grows(r)
  \/ Logged(disk') = Logged(disk) /\ DurableOf(disk') = DurableOf(disk)

LEMMA LogDefs ==
  /\ Durable = DurableOf(disk)
  /\ Log!Init <=> Logged(disk) = {} /\ DurableOf(disk) = {}
  /\ LogStep <=> [Log!Next]_<<Logged(disk), Durable>>
<1>1. Durable = DurableOf(disk)
  BY DEF Durable, DurableOf
<1>2. Log!Init <=> Logged(disk) = {} /\ DurableOf(disk) = {}
  BY <1>1 DEF Log!Init
<1>3. Durable' = DurableOf(disk')
  BY DEF Durable, DurableOf
<1>4. \A r : Grows(r) <=> Log!Append(r)
  BY <1>1, <1>3 DEF Grows, Records, Log!Append
<1>5. Flushes <=> Log!Flush
  BY <1>1, <1>3 DEF Flushes, Log!Flush
<1>6. LosesEnd <=> Log!LosePower
  BY <1>1, <1>3 DEF LosesEnd, Log!LosePower, Log!Prefixes
<1>7. Log!Next <=> Log!Flush \/ Log!LosePower \/ \E r \in Records : Log!Append(r)
  BY DEF Log!Next, Records
<1>8. UNCHANGED <<Logged(disk), Durable>> <=> Logged(disk') = Logged(disk) /\ DurableOf(disk') = DurableOf(disk)
  BY <1>1, <1>3
<1> QED BY <1>1, <1>2, <1>4, <1>5, <1>6, <1>7, <1>8 DEF LogStep

LEMMA WriteIsLogStep ==
  ASSUME IInv, LogInv, CanWrite, NEW k \in Keys, NEW v \in Values \cup {NoValue},
         NEW n \in 0 .. Size(NewRecord(k, v)), disk' = Landed(NewRecord(k, v), n),
         lsn' = IF n = 0 THEN lsn ELSE lsn + 1
  PROVE  LogInv' /\ LogStep /\ Logged(disk) \subseteq Logged(disk')
<1>1. PICK r : r = NewRecord(k, v)
  OBVIOUS
<1>2. lsn \in Nat /\ lsn < MaxLsn /\ MaxLsn \in Nat
  BY BoundsAssumption DEF IInv, TypeOK, CanWrite
<1>3. r \in Rec /\ r \in Records /\ r.lsn = lsn + 1
  BY <1>1, <1>2 DEF NewRecord, Rec, Records
<1>4. /\ OnlyLastUnsynced(disk') /\ Ordered(disk', lsn')
      /\ Logged(disk') \in {Logged(disk), Logged(disk) \cup {r}}
      /\ DurableOf(disk') \in {DurableOf(disk), Logged(disk)}
  BY <1>1, <1>3, LandedLog
<1>5. LogInv'
  BY <1>2, <1>4 DEF LogInv
<1>6. ASSUME NEW s \in Logged(disk) PROVE s.lsn < r.lsn
  <2>1. PICK t \in Sites(disk) : s = t.rec
    BY <1>6 DEF Logged
  <2>2. IsDisk(disk) /\ Ordered(disk, lsn)
    BY DEF IInv, LogInv
  <2>3. t.file \in DOMAIN disk /\ t.rec \in Rec
    BY <2>2, SiteType
  <2>4. PICK g \in disk[t.file].frags : g = [off |-> t.off, len |-> Size(t.rec), rec |-> t.rec]
    BY <2>2, SiteType
  <2>5. s.lsn <= lsn /\ s.lsn \in Nat
    BY <2>1, <2>2, <2>3, <2>4 DEF Ordered, Rec
  <2> QED BY <1>2, <1>3, <2>5
<1>7. LogStep
  <2>1. CASE Logged(disk') = Logged(disk)
    BY <1>4, <2>1 DEF LogStep, Flushes
  <2>2. CASE Logged(disk') = Logged(disk) \cup {r}
    BY <1>3, <1>4, <1>6, <2>2 DEF LogStep, Grows
  <2> QED BY <1>4, <2>1, <2>2
<1> QED BY <1>4, <1>5, <1>7

LEMMA SyncIsLogStep ==
  ASSUME IInv, LogInv, activeOpen, disk' = SyncedActive, UNCHANGED lsn
  PROVE  LogInv' /\ LogStep /\ Logged(disk') = Logged(disk)
<1>1. /\ IsDisk(disk) /\ OnlyLastUnsynced(disk) /\ activeFileID \in DOMAIN disk
      /\ \A i \in DOMAIN disk : i <= activeFileID
  BY DEF IInv, LogInv
<1>2. /\ DOMAIN disk' = DOMAIN disk /\ Sites(disk') = Sites(disk) /\ DurableOf(disk') = Logged(disk)
      /\ \A i \in DOMAIN disk' : disk'[i].synced = disk'[i].size
  BY <1>1, SyncLast DEF SyncedActive
<1>3. FileAt(disk, activeFileID).frags = Sync(FileAt(disk, activeFileID)).frags
  BY DEF Sync
<1>4. Ordered(disk', lsn)
  BY <1>3, WithFileSame, SameRecordsOrdered DEF SyncedActive, LogInv
<1> QED BY <1>2, <1>4 DEF LogInv, OnlyLastUnsynced, LogStep, Flushes, Logged

LEMMA OpenIsLogStep ==
  ASSUME IInv, LogInv, Open
  PROVE  LogInv' /\ LogStep /\ Logged(disk') = Logged(disk)
<1>1. PICK id \in IF DOMAIN disk = {} THEN {0}
                  ELSE {i \in DOMAIN disk : \A j \in DOMAIN disk : j <= i} :
        disk' = WithFile(disk, id, FileAt(disk, id))
  BY DEF Open
<1>2. IsDisk(disk) /\ UNCHANGED lsn
  BY DEF IInv, Open
<1>3. SameRecords(disk, disk')
  BY <1>1, WithFileSame
<1>4. Sites(disk') = Sites(disk) /\ Ordered(disk', lsn)
  BY <1>3, SameRecordsSites, SameRecordsOrdered DEF LogInv
<1>5. \A i \in DOMAIN disk : disk'[i] = disk[i]
  BY <1>1 DEF WithFile, FileAt
<1>6. DurableOf(disk') = DurableOf(disk)
  BY <1>2, <1>4, <1>5, SiteType, SameDurable
<1>7. OnlyLastUnsynced(disk')
  <2>1. CASE DOMAIN disk = {}
    <3>1. DOMAIN disk' = {0}
      BY <1>1, <2>1 DEF WithFile
    <3> QED BY <3>1 DEF OnlyLastUnsynced
  <2>2. CASE DOMAIN disk # {}
    <3>1. id \in DOMAIN disk
      BY <1>1, <2>2
    <3>2. disk' = disk
      BY <1>1, <1>2, <3>1, WithFileSelf
    <3> QED BY <3>2 DEF LogInv
  <2> QED BY <2>1, <2>2
<1> QED BY <1>2, <1>4, <1>6, <1>7 DEF LogInv, LogStep, Logged

\* The scan of a file that was cut finds the records that end before the cut.
LEMMA CutScanned ==
  ASSUME NEW f \in File, Layout(f), NEW n \in Nat, n <= f.size
  PROVE  /\ Scanned(Cut(f, n)) = {g \in Scanned(f) : g.off + g.len <= n}
         /\ \A g \in Cut(f, n).frags : \E h \in f.frags : g.off = h.off /\ g.rec = h.rec
<1> DEFINE left(g) == [g EXCEPT !.len = IF g.off + g.len <= n THEN g.len ELSE n - g.off]
<1>1. PICK f2 : f2 = Cut(f, n)
  OBVIOUS
<1>2. f2.frags = {left(g) : g \in {h \in f.frags : h.off < n}}
  BY <1>1 DEF Cut
<1>3. ASSUME NEW g \in f.frags
      PROVE  /\ g.off \in Nat /\ g.len \in Nat /\ g.rec \in Rec /\ Size(g.rec) \in Nat
             /\ 1 <= g.len /\ g.len <= Size(g.rec)
             /\ g = [off |-> g.off, len |-> g.len, rec |-> g.rec]
  <2>1. g \in Frag
    BY DEF File
  <2> QED BY <2>1, SizeNat DEF Frag, Layout
<1>4. ASSUME NEW g \in f.frags
      PROVE  left(g) = [off |-> g.off, len |-> IF g.off + g.len <= n THEN g.len ELSE n - g.off, rec |-> g.rec]
  BY <1>3
<1>5. ASSUME NEW g \in f.frags
      PROVE  left(g).off = g.off /\ left(g).rec = g.rec
             /\ left(g).len = IF g.off + g.len <= n THEN g.len ELSE n - g.off
  BY <1>4
<1>6. ASSUME NEW g \in f.frags, g.off + g.len <= n PROVE left(g) = g
  BY <1>3, <1>4, <1>6
<1> HIDE DEF left
<1>7. ASSUME NEW g \in f.frags, g.off < n, Intact(left(g))
      PROVE  left(g) = g /\ Intact(g) /\ g.off + g.len <= n
  <2>1. left(g).len = Size(g.rec)
    BY <1>5, <1>7 DEF Intact
  <2>2. g.off + g.len <= n
    BY <1>3, <1>5, <1>7, <2>1
  <2>3. left(g) = g
    BY <1>6, <2>2
  <2> QED BY <1>7, <2>2, <2>3
<1>8. ASSUME NEW g \in Scanned(f2) PROVE g \in Scanned(f) /\ g.off + g.len <= n
  <2>1. g \in f2.frags /\ Intact(g) /\ \A t \in Torn(f2) : g.off < t.off
    BY <1>8 DEF Scanned
  <2>2. PICK h \in f.frags : h.off < n /\ g = left(h)
    BY <1>2, <2>1
  <2>3. g = h /\ Intact(h) /\ h.off + h.len <= n
    BY <1>7, <2>1, <2>2
  <2>4. ASSUME NEW t \in Torn(f) PROVE g.off < t.off
    <3>1. t \in f.frags /\ ~ Intact(t)
      BY <2>4 DEF Torn
    <3>2. CASE t.off < n
      <4>1. left(t) \in f2.frags /\ ~ Intact(left(t))
        BY <1>2, <1>7, <3>1, <3>2
      <4> QED BY <1>5, <2>1, <3>1, <4>1 DEF Torn
    <3>3. CASE ~ (t.off < n)
      BY <1>3, <2>2, <2>3, <3>1, <3>3
    <3> QED BY <3>2, <3>3
  <2> QED BY <2>3, <2>4 DEF Scanned
<1>9. ASSUME NEW g \in Scanned(f), g.off + g.len <= n PROVE g \in Scanned(f2)
  <2>1. g \in f.frags /\ Intact(g) /\ \A t \in Torn(f) : g.off < t.off
    BY <1>9 DEF Scanned
  <2>2. g.off < n /\ left(g) = g
    BY <1>3, <1>6, <1>9, <2>1
  <2>3. g \in f2.frags
    BY <1>2, <2>1, <2>2
  <2>4. ASSUME NEW t \in Torn(f2) PROVE g.off < t.off
    <3>1. t \in f2.frags /\ ~ Intact(t)
      BY <2>4 DEF Torn
    <3>2. PICK h \in f.frags : h.off < n /\ t = left(h)
      BY <1>2, <3>1
    <3>3. t.off = h.off
      BY <1>5, <3>2
    <3>4. CASE h.off + h.len <= n
      <4>1. h \in Torn(f)
        BY <1>6, <3>1, <3>2, <3>4 DEF Torn
      <4> QED BY <2>1, <3>3, <4>1
    <3>5. CASE ~ (h.off + h.len <= n)
      <4>1. g = h \/ g.off + g.len <= h.off \/ h.off + h.len <= g.off
        BY <2>1 DEF Layout
      <4> QED BY <1>3, <1>9, <2>1, <3>3, <3>5, <4>1
    <3> QED BY <3>4, <3>5
  <2> QED BY <2>1, <2>3, <2>4 DEF Scanned
<1>10. ASSUME NEW g \in f2.frags PROVE \E h \in f.frags : g.off = h.off /\ g.rec = h.rec
  BY <1>2, <1>5
<1> QED BY <1>1, <1>8, <1>9, <1>10

\* The order of the sites is the order of the records.
LEMMA SiteOrder ==
  ASSUME NEW d, IsDisk(d), NEW l, Ordered(d, l), NEW s \in Sites(d), NEW t \in Sites(d),
         s.rec.lsn <= t.rec.lsn
  PROVE  s = t \/ Before(s, t)
<1>1. /\ s.file \in DOMAIN d /\ s.file \in Nat /\ s.off \in Nat /\ s.rec.lsn \in Nat
      /\ t.file \in DOMAIN d /\ t.file \in Nat /\ t.off \in Nat /\ t.rec.lsn \in Nat
  BY SiteType DEF Rec
<1>2. PICK g \in d[s.file].frags : g = [off |-> s.off, len |-> Size(s.rec), rec |-> s.rec]
  BY SiteType
<1>3. PICK h \in d[t.file].frags : h = [off |-> t.off, len |-> Size(t.rec), rec |-> t.rec]
  BY SiteType
<1>4. g.off = s.off /\ g.rec = s.rec /\ h.off = t.off /\ h.rec = t.rec
  BY <1>2, <1>3
<1>5. t.file < s.file \/ (t.file = s.file /\ t.off < s.off) => t.rec.lsn < s.rec.lsn
  BY <1>1, <1>4 DEF Ordered
<1>6. ~ Before(t, s)
  BY <1>1, <1>5 DEF Before
<1>7. CASE s.file = t.file /\ s.off = t.off
  BY <1>7, SiteUnique
<1> QED BY <1>1, <1>6, <1>7 DEF Before

\* Power loss takes the end of the log, and nothing that was synced.
LEMMA PowerLossIsLogStep ==
  ASSUME IInv, LogInv, PowerLoss
  PROVE  LogInv' /\ LogStep
<1>1. PICK cut : /\ \A i \in DOMAIN disk : cut[i] \in CutPoints(disk[i])
                 /\ disk' = [i \in DOMAIN disk |-> Cut(disk[i], cut[i])]
  BY DEF PowerLoss
<1>2. IsDisk(disk) /\ IsDisk(disk') /\ UNCHANGED lsn /\ Ordered(disk, lsn) /\ OnlyLastUnsynced(disk)
  BY PowerLossIInv DEF IInv, PowerLoss, LogInv
<1>3. ASSUME NEW i \in DOMAIN disk
      PROVE  /\ disk[i] \in File /\ Layout(disk[i]) /\ disk'[i] = Cut(disk[i], cut[i])
             /\ cut[i] \in Nat /\ disk[i].synced <= cut[i] /\ cut[i] <= disk[i].size
             /\ disk[i].synced \in Nat /\ disk[i].size \in Nat
             /\ disk'[i].synced = cut[i] /\ disk'[i].size = cut[i]
  <2>1. disk[i] \in File /\ Layout(disk[i]) /\ disk'[i] = Cut(disk[i], cut[i])
    BY <1>1, <1>2 DEF IsDisk
  <2>2. cut[i] \in CutPoints(disk[i])
    BY <1>1
  <2>3. cut[i] \in Nat /\ disk[i].synced <= cut[i] /\ cut[i] <= disk[i].size
    BY <2>1, <2>2, CutPointsOK
  <2> QED BY <2>1, <2>3 DEF File, Cut
<1>4. DOMAIN disk' = DOMAIN disk
  BY <1>1
<1>5. Ordered(disk', lsn)
  <2>1. ASSUME NEW i \in DOMAIN disk', NEW g \in disk'[i].frags
        PROVE  \E h \in disk[i].frags : g.off = h.off /\ g.rec = h.rec
    BY <1>3, <1>4, CutScanned
  <2>2. ASSUME NEW i \in DOMAIN disk', NEW g \in disk'[i].frags
        PROVE  1 <= g.rec.lsn /\ g.rec.lsn <= lsn
    BY <1>2, <1>4, <2>1 DEF Ordered
  <2>3. ASSUME NEW i \in DOMAIN disk', NEW j \in DOMAIN disk', NEW g \in disk'[i].frags,
               NEW h \in disk'[j].frags, i < j \/ (i = j /\ g.off < h.off)
        PROVE  g.rec.lsn < h.rec.lsn
    <3>1. PICK a \in disk[i].frags : g.off = a.off /\ g.rec = a.rec
      BY <2>1
    <3>2. PICK b \in disk[j].frags : h.off = b.off /\ h.rec = b.rec
      BY <2>1
    <3> QED BY <1>2, <1>4, <2>3, <3>1, <3>2 DEF Ordered
  <2> QED BY <2>2, <2>3 DEF Ordered
<1>6. OnlyLastUnsynced(disk') /\ DurableOf(disk') = Logged(disk')
  BY <1>2, <1>3, <1>4, AllDurable DEF OnlyLastUnsynced
<1>7. LogInv'
  BY <1>2, <1>5, <1>6 DEF LogInv
<1>8. ASSUME NEW s
      PROVE  s \in Sites(disk') <=> s \in Sites(disk) /\ s.off + Size(s.rec) <= cut[s.file]
  <2>1. ASSUME NEW i \in DOMAIN disk
        PROVE  Scanned(disk'[i]) = {g \in Scanned(disk[i]) : g.off + g.len <= cut[i]}
    BY <1>3, CutScanned
  <2>2. ASSUME NEW i \in DOMAIN disk, NEW g \in Scanned(disk[i]) PROVE g.len = Size(g.rec)
    BY DEF Scanned, Intact
  <2>3. ASSUME s \in Sites(disk')
        PROVE  s \in Sites(disk) /\ s.off + Size(s.rec) <= cut[s.file]
    <3>1. PICK i \in DOMAIN disk : \E g \in Scanned(disk'[i]) :
                 s = [file |-> i, off |-> g.off, rec |-> g.rec]
      BY <1>4, <2>3, SitesDef
    <3>2. PICK g \in Scanned(disk'[i]) : s = [file |-> i, off |-> g.off, rec |-> g.rec]
      BY <3>1
    <3>3. g \in Scanned(disk[i]) /\ g.off + g.len <= cut[i] /\ g.len = Size(g.rec)
      BY <2>1, <2>2, <3>2
    <3> QED BY <3>2, <3>3, SitesDef
  <2>4. ASSUME s \in Sites(disk), s.off + Size(s.rec) <= cut[s.file]
        PROVE  s \in Sites(disk')
    <3>1. PICK i \in DOMAIN disk : \E g \in Scanned(disk[i]) :
                 s = [file |-> i, off |-> g.off, rec |-> g.rec]
      BY <2>4, SitesDef
    <3>2. PICK g \in Scanned(disk[i]) : s = [file |-> i, off |-> g.off, rec |-> g.rec]
      BY <3>1
    <3>3. g \in Scanned(disk'[i])
      BY <2>1, <2>2, <2>4, <3>2
    <3> QED BY <1>4, <3>2, <3>3, SitesDef
  <2> QED BY <2>3, <2>4
<1>9. ASSUME NEW s \in Sites(disk), NEW t \in Sites(disk'), s.rec.lsn <= t.rec.lsn
      PROVE  s \in Sites(disk')
  <2>1. t \in Sites(disk) /\ t.off + Size(t.rec) <= cut[t.file]
    BY <1>8
  <2>2. s = t \/ Before(s, t)
    BY <1>2, <1>9, <2>1, SiteOrder
  <2>3. /\ s.file \in DOMAIN disk /\ s.off \in Nat /\ Size(s.rec) \in Nat /\ Size(s.rec) >= 1
        /\ s.off + Size(s.rec) <= disk[s.file].size
    BY <1>2, SiteEnds
  <2>4. t.file \in DOMAIN disk /\ t.off \in Nat /\ Size(t.rec) \in Nat /\ Size(t.rec) >= 1
    BY <1>2, <2>1, SiteEnds
  <2>5. CASE s.file < t.file
    <3>1. disk[s.file].synced = disk[s.file].size
      BY <1>2, <2>3, <2>4, <2>5 DEF OnlyLastUnsynced
    <3>2. cut[s.file] = disk[s.file].size
      BY <1>3, <2>3, <3>1
    <3> QED BY <1>8, <2>3, <3>2
  <2>6. CASE s.file = t.file /\ s.off < t.off
    <3>1. PICK g \in disk[s.file].frags : g = [off |-> s.off, len |-> Size(s.rec), rec |-> s.rec]
      BY <1>2, SiteType
    <3>2. PICK h \in disk[s.file].frags : h = [off |-> t.off, len |-> Size(t.rec), rec |-> t.rec]
      BY <1>2, <2>1, <2>6, SiteType
    <3>3. g = h \/ g.off + g.len <= h.off \/ h.off + h.len <= g.off
      BY <1>3, <2>3 DEF Layout
    <3>4. s.off + Size(s.rec) <= t.off
      BY <2>3, <2>4, <2>6, <3>1, <3>2, <3>3
    <3>5. cut[s.file] \in Nat
      BY <1>3, <2>3
    <3>6. s.off + Size(s.rec) <= cut[s.file]
      BY <2>1, <2>3, <2>4, <2>6, <3>4, <3>5
    <3> QED BY <1>8, <3>6
  <2>7. CASE s = t
    BY <2>7
  <2> QED BY <2>2, <2>5, <2>6, <2>7 DEF Before
<1>10. ASSUME NEW s \in Sites(disk), s.off + Size(s.rec) <= disk[s.file].synced
       PROVE  s \in Sites(disk')
  <2>1. s.file \in DOMAIN disk /\ s.off \in Nat /\ Size(s.rec) \in Nat
    BY <1>2, SiteEnds
  <2>2. s.off + Size(s.rec) <= cut[s.file]
    BY <1>3, <1>10, <2>1
  <2> QED BY <1>8, <2>2
<1>11. Logged(disk') \subseteq Logged(disk)
  BY <1>8 DEF Logged
<1>12. ASSUME NEW r \in Logged(disk), NEW s \in Logged(disk'), r.lsn <= s.lsn
       PROVE  r \in Logged(disk')
  BY <1>9, <1>12 DEF Logged
<1>13. DurableOf(disk) \subseteq Logged(disk')
  BY <1>10 DEF DurableOf, Logged
<1> QED BY <1>6, <1>7, <1>11, <1>12, <1>13 DEF LogStep, LosesEnd

LEMMA StayIsLogStep ==
  ASSUME LogInv, UNCHANGED <<disk, lsn>>
  PROVE  LogInv' /\ LogStep /\ Logged(disk') = Logged(disk)
BY DEF LogInv, LogStep

\* Every step of the engine is one of the log, and only power loss shortens it.
LEMMA NextLog ==
  ASSUME IInv, LogInv, [Next]_vars
  PROVE  LogInv' /\ LogStep /\ (PowerLoss \/ Logged(disk) \subseteq Logged(disk'))
<1>1. CASE Open
  BY <1>1, OpenIsLogStep
<1>2. CASE OpenRefused
  BY <1>2, StayIsLogStep DEF OpenRefused
<1>3. CASE Close
  <2>1. CASE activeOpen
    BY <1>3, <2>1, SyncIsLogStep DEF Close, SyncedActive
  <2>2. CASE ~ activeOpen
    BY <1>3, <2>2, StayIsLogStep DEF Close
  <2> QED BY <2>1, <2>2
<1>4. CASE ProcessCrash
  BY <1>4, StayIsLogStep DEF ProcessCrash
<1>5. CASE PowerLoss
  BY <1>5, PowerLossIsLogStep
<1>6. ASSUME NEW k \in Keys, NEW v \in Values \cup {NoValue}, WriteEntry(k, v)
      PROVE  LogInv' /\ LogStep /\ Logged(disk) \subseteq Logged(disk')
  <2>1. PICK n : n = Size(NewRecord(k, v))
    OBVIOUS
  <2>2. NewRecord(k, v) \in Rec
    BY DEF NewRecord, Rec, IInv, TypeOK
  <2>3. n \in 0 .. Size(NewRecord(k, v)) /\ n # 0
    BY <2>1, <2>2, SizeNat
  <2>4. /\ CanWrite /\ disk' = Landed(NewRecord(k, v), n)
        /\ lsn' = IF n = 0 THEN lsn ELSE lsn + 1
    BY <1>6, <2>1, <2>3 DEF WriteEntry
  <2> QED BY <2>3, <2>4, WriteIsLogStep
<1>7. ASSUME NEW k \in Keys, DeleteCheck(k)
      PROVE  LogInv' /\ LogStep /\ Logged(disk) \subseteq Logged(disk')
  BY <1>7, StayIsLogStep DEF DeleteCheck
<1>8. ASSUME NEW k \in Keys, NEW v \in Values \cup {NoValue},
             RotateReopenFails(k, v) \/ RotateCreateFails(k, v)
      PROVE  LogInv' /\ LogStep /\ Logged(disk) \subseteq Logged(disk')
  <2>1. activeOpen /\ disk' = SyncedActive /\ UNCHANGED lsn
    BY <1>8 DEF RotateReopenFails, RotateCreateFails, CanWrite
  <2> QED BY <2>1, SyncIsLogStep
<1>9. ASSUME NEW k \in Keys, NEW v \in Values \cup {NoValue},
             NEW n \in {0} \cup TearLens(NewRecord(k, v)), WriteFails(k, v, n) \/ CrashInWrite(k, v, n)
      PROVE  LogInv' /\ LogStep /\ Logged(disk) \subseteq Logged(disk')
  <2>1. NewRecord(k, v) \in Rec
    BY DEF NewRecord, Rec, IInv, TypeOK
  <2>2. n \in 0 .. Size(NewRecord(k, v))
    BY <2>1, SizeNat DEF TearLens
  <2>3. /\ CanWrite /\ disk' = Landed(NewRecord(k, v), n)
        /\ lsn' = IF n = 0 THEN lsn ELSE lsn + 1
    BY <1>9 DEF WriteFails, CrashInWrite
  <2> QED BY <2>2, <2>3, WriteIsLogStep
<1>10. CASE UNCHANGED vars
  BY <1>10, StayIsLogStep DEF vars
<1>11. \A k \in Keys, v \in Values : Put(k, v) => WriteEntry(k, v)
  BY DEF Put
<1>12. \A k \in Keys : DeleteWrite(k) => WriteEntry(k, NoValue)
  BY DEF DeleteWrite
<1> QED BY <1>1, <1>2, <1>3, <1>4, <1>5, <1>6, <1>7, <1>8, <1>9, <1>10, <1>11, <1>12 DEF Next

LEMMA InitLog == Init => LogInv /\ Log!Init
<1> SUFFICES ASSUME Init PROVE LogInv /\ Log!Init
  OBVIOUS
<1>1. DOMAIN disk = {} /\ lsn = 0
  BY DEF Init, EmptyDisk
<1>2. LogInv
  BY <1>1, BoundsAssumption DEF LogInv, Ordered, OnlyLastUnsynced
<1>3. Sites(disk) = {}
  BY <1>1 DEF Sites
<1>4. Logged(disk) = {} /\ DurableOf(disk) = {}
  BY <1>3 DEF Logged, DurableOf
<1> QED BY <1>2, <1>4, LogDefs

\* No step but power loss makes a record invisible to the next start, wherever a
\* write broke off and whatever was written behind it (writeEntry, the break at a
\* partial write in loadFilesAndBuildIndex).
THEOREM RecordsStay == Spec => NothingForgotten
<1>1. Init => IInv /\ LogInv
  BY InitIInv, InitLog
<1>2. IInv /\ LogInv /\ [Next]_vars => (IInv /\ LogInv)'
  BY NextIInv, NextLog
<1>3. IInv /\ LogInv /\ [Next]_vars => [~ PowerLoss => Logged(disk) \subseteq Logged(disk')]_vars
  BY NextLog
<1> QED BY <1>1, <1>2, <1>3, PTL DEF Spec, NothingForgotten

\* The data files implement the abstract log: Write appends to it, rotation and
\* Close make all of it durable, and power loss takes an end of it that was not
\* durable, so that what is left is again a log (writeEntry, rotateActiveFile,
\* Close, loadFilesAndBuildIndex).
THEOREM FilesImplementLog == Spec => ImplementsLog
<1>1. Init => IInv /\ LogInv /\ Log!Init
  BY InitIInv, InitLog
<1>2. IInv /\ LogInv /\ [Next]_vars => (IInv /\ LogInv)'
  BY NextIInv, NextLog
<1>3. IInv /\ LogInv /\ [Next]_vars => [Log!Next]_<<Logged(disk), Durable>>
  BY NextLog, LogDefs
<1> QED BY <1>1, <1>2, <1>3, PTL DEF Spec, ImplementsLog, Log!Spec

--------------------------------------------------------------------------------
(* The scan loop *)

\* What the loop answers when it begins at o: the records up to the first torn one
\* from there on, and how it meets that one.
TornFrom(f, o) == {t \in Torn(f) : t.off >= o}

FirstFrom(f, o) == {t \in TornFrom(f, o) : \A u \in TornFrom(f, o) : t.off <= u.off}

FoundFrom(f, o) == {g \in f.frags : Intact(g) /\ g.off >= o /\ \A t \in TornFrom(f, o) : g.off < t.off}

EndAt(f, t) == IF t.off + HeaderSize > f.size THEN "eof" ELSE Ending(f, t)

EndFrom(f, o) == IF FirstFrom(f, o) = {} THEN "eof" ELSE EndAt(f, CHOOSE u \in FirstFrom(f, o) : TRUE)

ScanFrom(f) == [o \in Arrivals(f) |-> [found |-> FoundFrom(f, o), ends |-> EndFrom(f, o)]]

LEMMA FragType ==
  ASSUME NEW f \in File, Layout(f), NEW g \in f.frags
  PROVE  /\ g.off \in Nat /\ g.len \in Nat /\ g.rec \in Rec /\ f.size \in Nat
         /\ 1 <= g.len /\ g.len <= Size(g.rec) /\ g.off + g.len <= f.size
         /\ Size(g.rec) \in Nat /\ Size(g.rec) >= HeaderSize /\ HeaderSize \in Nat /\ HeaderSize >= 1
<1>1. g \in Frag
  BY DEF File
<1>2. g.rec \in Rec /\ g.rec.key \in Keys /\ g.rec.val \in Values \cup {NoValue}
  BY <1>1 DEF Frag, Rec
<1>3. Size(g.rec) \in Nat /\ Size(g.rec) >= HeaderSize /\ HeaderSize \in Nat /\ HeaderSize >= 1
  BY <1>2, SizeAssumption DEF Size
<1> QED BY <1>1, <1>2, <1>3 DEF Frag, File, Layout

\* Fragments at different offsets do not overlap, and no two begin at one.
LEMMA FragsApart ==
  ASSUME NEW f \in File, Layout(f), NEW g \in f.frags, NEW h \in f.frags
  PROVE  g = h \/ (g.off < h.off /\ g.off + g.len <= h.off) \/ (h.off < g.off /\ h.off + h.len <= g.off)
<1>1. g = h \/ g.off + g.len <= h.off \/ h.off + h.len <= g.off
  BY DEF Layout
<1> QED BY <1>1, FragType

\* Behind a record there is the next one, or the end of the file.
LEMMA NextArrival ==
  ASSUME NEW f \in File, Layout(f)
  PROVE  /\ 0 \in Arrivals(f)
         /\ \A g \in f.frags : g.off + g.len \in Arrivals(f)
         /\ Arrivals(f) \subseteq 0 .. f.size
<1>1. f.size \in Nat
  BY DEF File
<1>2. ASSUME NEW o \in 0 .. f.size, \A g \in f.frags : o <= g.off \/ g.off + g.len <= o
      PROVE  o \in Arrivals(f)
  <2>1. CASE o = f.size
    BY <2>1 DEF Arrivals
  <2>2. CASE o # f.size
    <3>1. PICK g \in f.frags : g.off <= o /\ o < g.off + g.len
      BY <1>1, <2>2 DEF Layout
    <3>2. g.off = o
      BY <1>2, <3>1, FragType
    <3> QED BY <3>2 DEF Arrivals
  <2> QED BY <2>1, <2>2
<1>3. 0 \in Arrivals(f)
  <2>1. \A g \in f.frags : 0 <= g.off
    BY FragType
  <2> QED BY <1>1, <1>2, <2>1
<1>4. ASSUME NEW g \in f.frags PROVE g.off + g.len \in Arrivals(f)
  <2>1. g.off + g.len \in 0 .. f.size
    BY FragType
  <2>2. ASSUME NEW h \in f.frags PROVE g.off + g.len <= h.off \/ h.off + h.len <= g.off + g.len
    BY FragsApart, FragType
  <2> QED BY <1>2, <2>1, <2>2
<1>5. Arrivals(f) \subseteq 0 .. f.size
  <2>1. \A g \in f.frags : g.off \in 0 .. f.size
    BY FragType
  <2> QED BY <1>1, <2>1 DEF Arrivals
<1> QED BY <1>3, <1>4, <1>5

\* ScanFrom is what the iterations compute ...
LEMMA ScanFromIterates ==
  ASSUME NEW f \in File, Layout(f), NEW o \in Arrivals(f)
  PROVE  ScanFrom(f)[o] = Iteration(f, ScanFrom(f), o)
<1>1. f.size \in Nat /\ o \in Nat /\ o <= f.size /\ HeaderSize \in Nat /\ HeaderSize >= 1
  BY NextArrival, SizeAssumption DEF File
<1>0. \A h \in f.frags : /\ h.off \in Nat /\ h.len \in Nat /\ 1 <= h.len /\ h.off + h.len <= f.size
                         /\ h.len <= Size(h.rec) /\ Size(h.rec) \in Nat /\ Size(h.rec) >= HeaderSize
  BY FragType
<1>2. ScanFrom(f)[o] = [found |-> FoundFrom(f, o), ends |-> EndFrom(f, o)]
  BY DEF ScanFrom
<1>3. CASE o = f.size
  <2>1. \A g \in f.frags : ~ (g.off >= o)
    BY <1>0, <1>1, <1>3
  <2>2. FoundFrom(f, o) = {} /\ FirstFrom(f, o) = {}
    BY <2>1 DEF FoundFrom, FirstFrom, TornFrom, Torn
  <2>3. EndFrom(f, o) = "eof"
    BY <2>2 DEF EndFrom
  <2>4. o + HeaderSize > f.size
    BY <1>1, <1>3
  <2> QED BY <1>2, <2>2, <2>3, <2>4 DEF Iteration
<1>4. CASE o # f.size
  <2>1. PICK g \in f.frags : g.off = o
    BY <1>4 DEF Arrivals
  <2>2. /\ g.len \in Nat /\ 1 <= g.len /\ g.len <= Size(g.rec) /\ o + g.len <= f.size
        /\ Size(g.rec) \in Nat /\ Size(g.rec) >= HeaderSize
    BY <1>0, <2>1
  <2>3. \A h \in f.frags : h.off = o => h = g
    BY <1>1, <2>1, FragsApart
  <2>4. (CHOOSE x \in f.frags : x.off = o) = g
    BY <2>1, <2>3
  <2>5. ASSUME NEW h \in f.frags
        PROVE  /\ h.off \in Nat
               /\ h.off >= o <=> h = g \/ h.off >= o + g.len
               /\ h.off >= o + g.len => g.off < h.off /\ h # g
    <3>1. h.off \in Nat /\ h.len \in Nat /\ 1 <= h.len
      BY <1>0
    <3>2. h = g \/ (g.off < h.off /\ g.off + g.len <= h.off) \/ (h.off < g.off /\ h.off + h.len <= g.off)
      BY FragsApart
    <3> QED BY <1>1, <2>1, <2>2, <3>1, <3>2
  <2>6. CASE Intact(g)
    <3>1. o + HeaderSize <= f.size
      BY <1>1, <2>2, <2>6 DEF Intact
    <3>2. o + g.len \in Arrivals(f)
      BY <2>1, NextArrival
    <3>3. TornFrom(f, o) = TornFrom(f, o + g.len)
      <4>1. ASSUME NEW h \in f.frags, ~ Intact(h) PROVE h.off >= o <=> h.off >= o + g.len
        <5>1. h # g
          BY <2>6, <4>1
        <5> QED BY <2>5, <5>1
      <4> QED BY <4>1 DEF TornFrom, Torn
    <3>4. FoundFrom(f, o) = FoundFrom(f, o + g.len) \cup {g}
      <4>1. \A t \in TornFrom(f, o) : g.off < t.off
        BY <2>5, <3>3 DEF TornFrom, Torn
      <4>2. g.off >= o
        BY <1>1, <2>1
      <4>3. ASSUME NEW h PROVE h \in FoundFrom(f, o) <=> h \in FoundFrom(f, o + g.len) \/ h = g
        BY <2>1, <2>5, <2>6, <3>3, <4>1, <4>2 DEF FoundFrom
      <4> QED BY <4>3
    <3>5. EndFrom(f, o) = EndFrom(f, o + g.len)
      BY <3>3 DEF EndFrom, FirstFrom
    <3>6. /\ ScanFrom(f)[o + g.len].found = FoundFrom(f, o + g.len)
          /\ ScanFrom(f)[o + g.len].ends = EndFrom(f, o + g.len)
      BY <3>2 DEF ScanFrom
    <3>7. Iteration(f, ScanFrom(f), o) =
            [found |-> ScanFrom(f)[o + g.len].found \cup {g}, ends |-> ScanFrom(f)[o + g.len].ends]
      <4>1. ~ (o + HeaderSize > f.size)
        BY <1>1, <3>1
      <4> QED BY <2>4, <2>6, <4>1 DEF Iteration
    <3> QED BY <1>2, <3>4, <3>5, <3>6, <3>7
  <2>7. CASE ~ Intact(g)
    <3>1. g \in TornFrom(f, o) /\ g \in Torn(f)
      BY <1>1, <2>1, <2>7 DEF TornFrom, Torn
    <3>2. FirstFrom(f, o) = {g}
      <4>1. ASSUME NEW u \in TornFrom(f, o) PROVE u.off \in Nat /\ (u = g \/ g.off < u.off)
        <5>1. u \in f.frags /\ u.off >= o
          BY DEF TornFrom, Torn
        <5> QED BY <2>5, <5>1
      <4>2. \A u \in TornFrom(f, o) : g.off <= u.off /\ (u.off <= g.off => u = g)
        BY <1>1, <2>1, <4>1
      <4> QED BY <3>1, <4>2 DEF FirstFrom
    <3>3. FoundFrom(f, o) = {}
      <4>1. ASSUME NEW h \in f.frags, Intact(h), h.off >= o, h.off < g.off PROVE FALSE
        BY <1>0, <1>1, <2>1, <4>1
      <4> QED BY <3>1, <4>1 DEF FoundFrom
    <3>4. EndFrom(f, o) = EndAt(f, g)
      BY <3>2 DEF EndFrom
    <3>5. Iteration(f, ScanFrom(f), o) = [found |-> {}, ends |-> EndAt(f, g)]
      BY <2>1, <2>4, <2>7 DEF EndAt, Iteration
    <3> QED BY <1>2, <3>3, <3>4, <3>5
  <2> QED BY <2>6, <2>7
<1> QED BY <1>3, <1>4

\* ... and nothing else is: two such functions would differ at a last offset.
LEMMA ScanLoopIs ==
  ASSUME NEW f \in File, Layout(f)
  PROVE  ScanLoop(f) = ScanFrom(f)[0]
<1> DEFINE Solves(h) == h = [o \in Arrivals(f) |-> Iteration(f, h, o)]
<1>1. Solves(ScanFrom(f))
  <2>1. ScanFrom(f) = [o \in Arrivals(f) |-> ScanFrom(f)[o]]
    BY DEF ScanFrom
  <2> QED BY <2>1, ScanFromIterates
<1>2. ASSUME NEW h, Solves(h) PROVE h = ScanFrom(f)
  <2>1. PICK D : D = {o \in Arrivals(f) : h[o] # ScanFrom(f)[o]}
    OBVIOUS
  <2>2. D = {}
    <3> SUFFICES ASSUME D # {} PROVE FALSE
      OBVIOUS
    <3>1. D \in SUBSET Nat /\ f.size \in Nat /\ \A o \in D : o <= f.size
      BY <2>1, NextArrival DEF File
    <3>2. PICK o \in D : \A p \in D : p <= o
      BY <3>1, Greatest
    <3>3. o \in Arrivals(f) /\ h[o] # ScanFrom(f)[o] /\ o \in Nat
      BY <2>1, <3>1, <3>2
    <3>4. h[o] = Iteration(f, h, o)
      BY <1>2, <3>3
    <3>5. ScanFrom(f)[o] = Iteration(f, ScanFrom(f), o)
      BY <3>3, ScanFromIterates
    <3>6. PICK g : g = CHOOSE x \in f.frags : x.off = o
      OBVIOUS
    <3>7. CASE ~ (o + HeaderSize > f.size) /\ Intact(g)
      <4>1. PICK b \in f.frags : b.off = o
        BY <3>1, <3>3, <3>7, SizeAssumption DEF Arrivals
      <4>2. g \in f.frags /\ g.off = o
        BY <3>6, <4>1
      <4>3. o + g.len \in Arrivals(f) /\ o + g.len \in Nat /\ ~ (o + g.len <= o)
        BY <3>3, <4>2, FragType, NextArrival
      <4>4. h[o + g.len] = ScanFrom(f)[o + g.len]
        BY <2>1, <3>2, <4>3
      <4>5. Iteration(f, h, o) = Iteration(f, ScanFrom(f), o)
        BY <3>6, <4>4 DEF Iteration
      <4> QED BY <3>3, <3>4, <3>5, <4>5
    <3>8. CASE ~ (~ (o + HeaderSize > f.size) /\ Intact(g))
      <4>1. Iteration(f, h, o) = Iteration(f, ScanFrom(f), o)
        BY <3>6, <3>8 DEF Iteration
      <4> QED BY <3>3, <3>4, <3>5, <4>1
    <3> QED BY <3>7, <3>8
  <2>3. \A o \in Arrivals(f) : h[o] = ScanFrom(f)[o]
    BY <2>1, <2>2
  <2>4. h = [o \in Arrivals(f) |-> h[o]]
    BY <1>2
  <2>5. ScanFrom(f) = [o \in Arrivals(f) |-> ScanFrom(f)[o]]
    BY DEF ScanFrom
  <2> QED BY <2>3, <2>4, <2>5
<1>3. (CHOOSE h : Solves(h)) = ScanFrom(f)
  <2> HIDE DEF Solves
  <2> QED BY <1>1, <1>2
<1>4. ScanLoop(f) = (CHOOSE h : h = [o \in Arrivals(f) |-> Iteration(f, h, o)])[0]
  BY DEF ScanLoop
<1> QED BY <1>3, <1>4

\* The loop of loadFilesAndBuildIndex finds the records before the first torn one
\* and fails exactly as MustRefuse and MayRefuse say, on every file that writes,
\* failed writes, crashes and power loss leave behind.
THEOREM ScanLoopFinds == Spec => []ScanLoopAgrees
<1>1. ASSUME NEW f \in File, Layout(f)
      PROVE  /\ ScanLoop(f).found = Scanned(f)
             /\ MustRefuse(f) <=> ScanLoop(f).ends = "integrity"
             /\ MayRefuse(f) => ScanLoop(f).ends = "garbage"
  <2>1. ScanLoop(f) = [found |-> FoundFrom(f, 0), ends |-> EndFrom(f, 0)]
    <3>1. 0 \in Arrivals(f)
      BY <1>1, NextArrival
    <3>2. ScanLoop(f) = ScanFrom(f)[0]
      BY <1>1, ScanLoopIs
    <3> QED BY <3>1, <3>2 DEF ScanFrom
  <2>0. \A g \in f.frags : g.off >= 0
    BY <1>1, FragType
  <2>2. TornFrom(f, 0) = Torn(f)
    BY <2>0 DEF TornFrom, Torn
  <2>3. FoundFrom(f, 0) = Scanned(f)
    BY <2>0, <2>2 DEF FoundFrom, Scanned
  <2>4. FirstFrom(f, 0) = FirstTorn(f)
    BY <2>2 DEF FirstFrom, FirstTorn
  <2>5. CASE FirstTorn(f) = {}
    BY <2>1, <2>3, <2>4, <2>5 DEF EndFrom, MustRefuse, MayRefuse
  <2>6. CASE FirstTorn(f) # {}
    <3>1. PICK t \in FirstTorn(f) : TRUE
      BY <2>6
    <3>2. t \in f.frags /\ \A u \in FirstTorn(f) : u \in f.frags /\ t.off <= u.off /\ u.off <= t.off
      BY <3>1 DEF FirstTorn, Torn
    <3>3. \A u \in FirstTorn(f) : u = t
      <4>1. t.off \in Nat /\ \A u \in FirstTorn(f) : u.off \in Nat
        BY <1>1, <3>2, FragType
      <4> QED BY <1>1, <3>2, <4>1, FragsApart
    <3>4. (CHOOSE u \in FirstTorn(f) : TRUE) = t
      BY <3>1, <3>3
    <3>5. ScanLoop(f).ends = EndAt(f, t)
      <4>1. FirstFrom(f, 0) # {} /\ (CHOOSE u \in FirstFrom(f, 0) : TRUE) = t
        BY <2>4, <2>6, <3>4
      <4>2. EndFrom(f, 0) = EndAt(f, t)
        BY <4>1, Zenon DEF EndFrom
      <4> QED BY <2>1, <4>2
    <3>6. /\ MustRefuse(f) <=> t.len >= HeaderSize /\ t.off + Size(t.rec) <= f.size
          /\ MayRefuse(f) <=> t.len < HeaderSize /\ t.off + HeaderSize <= f.size
      BY <3>1, <3>3 DEF MustRefuse, MayRefuse
    <3>7. /\ t.off \in Nat /\ t.len \in Nat /\ f.size \in Nat /\ Size(t.rec) \in Nat
          /\ Size(t.rec) >= HeaderSize /\ HeaderSize \in Nat
      BY <1>1, <3>2, FragType
    <3>8. EndAt(f, t) = "integrity" <=> t.len >= HeaderSize /\ t.off + Size(t.rec) <= f.size
      BY <3>7 DEF EndAt, Ending
    <3>9. t.len < HeaderSize /\ t.off + HeaderSize <= f.size => EndAt(f, t) = "garbage"
      BY <3>7 DEF EndAt, Ending
    <3> QED BY <2>1, <2>3, <3>5, <3>6, <3>8, <3>9
  <2> QED BY <2>5, <2>6
<1>2. IInv => ScanLoopAgrees
  BY <1>1 DEF IInv, IsDisk, ScanLoopAgrees
<1> QED BY <1>2, InvariantHolds, PTL

--------------------------------------------------------------------------------
(* Compaction.  A crash inside Compact is the process's, not the machine's. *)

\* The directory that the temporary file becomes.
Copy == WithFile(EmptyDisk, 0, temp)

\* What clients were told of the keys that are copied.
Copied == [k \in Keys |-> IF k \in todo THEN NoValue ELSE committed[k]]

\* The record of each key that is copied, and no other.
OnlyLive(d, x) == \A s \in Sites(d) : s.rec.val # NoValue /\ x[s.rec.key] = MetaOf(s)

\* The copy holds them, and the new key directory is its index.
CopyInv ==
  /\ temp \in File /\ IsDisk(Copy) /\ Torn(temp) = {}
  /\ newDir \in [Keys -> Meta \cup {NoMeta}]
  /\ CommittedOK(Copy, Copied) /\ IndexOK(Copy, newDir) /\ OnlyLive(Copy, newDir)
  /\ \A s \in Sites(Copy) : s.rec.key \notin todo

\* The inductive invariant, as long as no damage is done: until the copy is complete
\* the engine is as it was, and from then on the copy stands for it.
CInv ==
  damage = "none" =>
    /\ TypeOK
    /\ phase \in {"idle", "copying", "removing", "renaming"}
    /\ phase \in {"idle", "copying"} => IInv /\ CleanLog(disk)
    /\ phase # "idle" => status = "open" /\ activeOpen = FALSE /\ CopyInv
    /\ phase = "copying" => \A k \in todo : k \in Keys /\ keyDir[k] # NoMeta
    /\ phase \in {"removing", "renaming"} => todo = {}

LEMMA CopyAt ==
  ASSUME temp \in File
  PROVE  /\ DOMAIN Copy = {0} /\ Copy[0] = temp /\ FileAt(Copy, 0) = temp
         /\ DOMAIN Copy' = {0} /\ Copy'[0] = temp' /\ FileAt(Copy', 0) = temp'
BY DEF Copy, WithFile, EmptyDisk, FileAt

\* The disk reopens as it is: a clean log is not refused.
LEMMA CleanOpens ==
  ASSUME NEW d, IsDisk(d), CleanLog(d), NEW i \in DOMAIN d
  PROVE  ~ MustRefuse(d[i]) /\ ~ MayRefuse(d[i])
BY CleanTear DEF IsDisk, CleanLog

LEMMA ReloadIInv ==
  ASSUME IInv, CleanLog(disk), status = "open", Reload, UNCHANGED <<status, deleting, lsn, committed, faults>>
  PROVE  IInv' /\ CleanLog(disk')
<1>1. /\ IsDisk(disk) /\ {i \in DOMAIN disk : MustRefuse(disk[i])} = {}
      /\ {i \in DOMAIN disk : MayRefuse(disk[i])} = {}
  BY CleanOpens DEF IInv
<1>0. ReloadWithout({})
  <2>1. PICK mayBe \in SUBSET {i \in DOMAIN disk : MayRefuse(disk[i])} :
          ReloadWithout(mayBe \cup {i \in DOMAIN disk : MustRefuse(disk[i])})
    BY DEF Reload
  <2>2. mayBe \cup {i \in DOMAIN disk : MustRefuse(disk[i])} = {}
    BY <1>1, <2>1
  <2> QED BY <2>1, <2>2
<1>2. PICK last : last = {i \in DOMAIN disk : \A j \in DOMAIN disk : j <= i}
  OBVIOUS
<1>3. /\ keyDir' = LoadDir([i \in DOMAIN disk |-> disk[i]])
      /\ readFiles' = DOMAIN disk \ last
      /\ activeOpen' = TRUE
      /\ \E id \in IF DOMAIN disk = {} THEN {0} ELSE last :
           /\ disk' = WithFile(disk, id, FileAt(disk, id))
           /\ activeFileID' = id
           /\ writeOffset' = FileAt(disk, id).size
  BY <1>0, <1>2 DEF ReloadWithout
<1>4. PICK id \in IF DOMAIN disk = {} THEN {0} ELSE last :
        /\ disk' = WithFile(disk, id, FileAt(disk, id))
        /\ activeFileID' = id
        /\ writeOffset' = FileAt(disk, id).size
  BY <1>3
<1>5. keyDir' = LoadDir(disk)
  BY <1>1, <1>3 DEF IsDisk
<1>6. readFiles' = DOMAIN disk \ {id}
  <2>1. CASE DOMAIN disk = {}
    BY <1>3, <2>1
  <2>2. CASE DOMAIN disk # {}
    <3>1. \A i \in last : i = id
      BY <1>1, <1>2, <1>4, <2>2 DEF IsDisk
    <3>2. last = {id}
      BY <1>4, <2>2, <3>1
    <3> QED BY <1>3, <3>2
  <2> QED BY <2>1, <2>2
<1>7. IInv' /\ SameRecords(disk, disk')
  BY <1>2, <1>3, <1>4, <1>5, <1>6, OpenedIInv
<1> QED BY <1>1, <1>7, SameRecordsOK

\* Descriptors may be closed.
LEMMA ClosedIInv ==
  ASSUME IInv, UNCHANGED <<disk, status, keyDir, activeFileID, writeOffset, deleting, lsn, committed, faults>>,
         activeOpen' = FALSE, readFiles' = {}
  PROVE  IInv'
<1>1. TypeOK'
  BY DEF IInv, TypeOK
<1> QED BY <1>1 DEF IInv

LEMMA BeginCInv ==
  ASSUME CInv, CompactBegin, damage' = "none"
  PROVE  CInv'
<1>1. /\ status = "open" /\ phase = "idle" /\ phase' = "copying" /\ todo' = Scan
      /\ temp' = EmptyFile /\ newDir' = EmptyDir /\ activeOpen' = FALSE /\ readFiles' = {}
      /\ UNCHANGED <<disk, status, keyDir, activeFileID, writeOffset, deleting, lsn, committed, faults>>
  BY DEF CompactBegin, FreshTemp
<1>2. damage = "none" /\ \A k \in Keys : Get(k) # ReadError
  BY DEF CompactBegin
<1>3. IInv /\ CleanLog(disk)
  BY <1>1, <1>2 DEF CInv
<1>4. IInv' /\ CleanLog(disk')
  BY <1>1, <1>3, ClosedIInv
<1>5. todo' = {k \in Keys : keyDir[k] # NoMeta}
  BY <1>1, <1>2 DEF Scan
<1>6. temp' \in File /\ Layout(temp') /\ Scanned(temp') = {} /\ Torn(temp') = {}
  BY <1>1, EmptyFileOK DEF EmptyFile, Torn
<1>7. DOMAIN Copy' = {0} /\ Copy'[0] = temp' /\ Copy' = [i \in DOMAIN Copy' |-> Copy'[i]]
  BY DEF Copy, WithFile, EmptyDisk
<1>8. IsDisk(Copy')
  BY <1>6, <1>7 DEF IsDisk
<1>9. \A k : NoSite(Copy', k)
  <2>1. Sites(Copy') = {}
    BY <1>6, <1>7 DEF Sites
  <2> QED BY <2>1 DEF NoSite
<1>10. ASSUME NEW k \in Keys PROVE Copied'[k] = NoValue
  <2>1. Copied'[k] = IF k \in todo' THEN NoValue ELSE committed[k]
    BY <1>1 DEF Copied
  <2>2. CASE keyDir[k] # NoMeta
    BY <1>5, <2>1, <2>2
  <2>3. CASE keyDir[k] = NoMeta
    <3>1. Get(k) = NoValue
      BY <2>3 DEF Get
    <3>2. committed[k] = NoValue
      BY <1>1, <1>2, <1>3, <3>1, GetIs
    <3> QED BY <2>1, <3>2
  <2> QED BY <2>2, <2>3
<1>11. CommittedOK(Copy', Copied')
  BY <1>9, <1>10 DEF CommittedOK
<1>12. newDir' \in [Keys -> Meta \cup {NoMeta}] /\ IndexOK(Copy', newDir')
  BY <1>1, <1>9 DEF IndexOK, EmptyDir
<1>13. CopyInv'
  <2>1. Sites(Copy') = {}
    BY <1>6, <1>7 DEF Sites
  <2> QED BY <1>6, <1>8, <1>11, <1>12, <2>1 DEF CopyInv, OnlyLive
<1>14. \A k \in todo' : k \in Keys /\ keyDir'[k] # NoMeta
  BY <1>1, <1>5
<1>15. TypeOK'
  BY <1>4 DEF IInv
<1> QED BY <1>1, <1>4, <1>13, <1>14, <1>15 DEF CInv

LEMMA WriteCInv ==
  ASSUME CInv, NEW k \in Keys, CompactWrite(k), damage = "none"
  PROVE  CInv'
<1>1. /\ phase = "copying" /\ k \in todo /\ todo' = todo \ {k}
      /\ temp' = AppendTo(temp, SourceRecord(k), keyDir[k].size)
      /\ newDir' = [newDir EXCEPT ![k] = CopiedMeta(k)]
      /\ UNCHANGED <<disk, status, keyDir, activeFileID, writeOffset, activeOpen, readFiles,
                     deleting, lsn, committed, faults>>
      /\ UNCHANGED <<phase, damage>>
  BY DEF CompactWrite, vars, engine
<1>2. /\ TypeOK /\ IInv /\ CleanLog(disk) /\ status = "open" /\ activeOpen = FALSE /\ CopyInv
      /\ \A j \in todo : j \in Keys /\ keyDir[j] # NoMeta
  BY <1>1 DEF CInv
<1>3. IsDisk(disk) /\ CommittedOK(disk, committed) /\ IndexOK(disk, keyDir) /\ keyDir[k] # NoMeta
  BY <1>1, <1>2 DEF IInv
<1>4. PICK s \in Sites(disk) : Decides(disk, k, s) /\ keyDir[k] = MetaOf(s)
  BY <1>3 DEF IndexOK
<1>5. PICK u \in Sites(disk) : Decides(disk, k, u) /\ committed[k] = u.rec.val
  <2>1. ~ NoSite(disk, k)
    BY <1>4 DEF Decides, NoSite
  <2> QED BY <1>3, <2>1 DEF CommittedOK
<1>6. u = s
  BY <1>3, <1>4, <1>5, LatestUnique
<1>7. s.rec.val # NoValue /\ keyDir[k] = [file |-> s.file, off |-> s.off, size |-> Size(s.rec)]
  BY <1>3, <1>4 DEF MetaOf
<1>8. s.file \in DOMAIN disk /\ s.rec \in Rec /\ s.rec.key = k
  BY <1>3, <1>4, SiteType DEF Decides
<1>9. PICK r : r = s.rec
  OBVIOUS
<1>10. SourceRecord(k) = r
  <2>1. PICK g : ReadsWhole(FileAt(disk, s.file), s.off, Size(s.rec)) = {g} /\ g.rec = s.rec
    BY <1>3, SiteRead
  <2>2. FileAt(disk, s.file) = disk[s.file]
    BY <1>8 DEF FileAt
  <2>3. ReadsWhole(disk[keyDir[k].file], keyDir[k].off, keyDir[k].size) = {g}
    BY <1>7, <2>1, <2>2
  <2> QED BY <1>9, <2>1, <2>3 DEF SourceRecord
<1>11. Size(r) \in Nat /\ Size(r) >= 1 /\ Size(r) \in 1 .. Size(r) /\ r \in Rec /\ r.key = k
       /\ r.val = committed[k] /\ r.val # NoValue /\ keyDir[k].size = Size(r)
  BY <1>5, <1>6, <1>7, <1>8, <1>9, SizeNat
<1>12. temp \in File /\ IsDisk(Copy) /\ Torn(temp) = {}
       /\ newDir \in [Keys -> Meta \cup {NoMeta}] /\ CommittedOK(Copy, Copied) /\ IndexOK(Copy, newDir)
  BY <1>2 DEF CopyInv
<1>13. DOMAIN Copy = {0} /\ Copy[0] = temp /\ FileAt(Copy, 0) = temp
  BY <1>12, CopyAt
<1>14. Copy' = Written(Copy, 0, r, Size(r))
  <2>1. Copy' = [i \in {0} |-> temp']
    BY DEF Copy, WithFile, EmptyDisk
  <2>2. Written(Copy, 0, r, Size(r)) = [i \in {0} |-> AppendTo(temp, r, Size(r))]
    BY <1>13 DEF Written, WithFile
  <2> QED BY <1>1, <1>10, <1>11, <2>1, <2>2
<1>15. IsDisk(Copy')
  BY <1>11, <1>12, <1>14, WrittenClean
<1>16. Layout(temp)
  BY <1>12, <1>13 DEF IsDisk
<1>17. temp' \in File /\ Torn(temp') = {}
  BY <1>1, <1>10, <1>11, <1>12, <1>16, AppendLayout, AppendScanned
<1>18. SiteAt(Copy, 0, r) = [file |-> 0, off |-> temp.size, rec |-> r]
  BY <1>13 DEF SiteAt
<1>19. CopiedMeta(k) = MetaOf(SiteAt(Copy, 0, r)) /\ CopiedMeta(k) \in Meta
  BY <1>11, <1>12, <1>18 DEF CopiedMeta, MetaOf, Meta, File
<1>20. newDir' \in [Keys -> Meta \cup {NoMeta}]
  BY <1>1, <1>12, <1>19
<1>21. newDir'[k] = MetaOf(SiteAt(Copy, 0, r)) /\ \A j \in Keys : j # k => newDir'[j] = newDir[j]
  BY <1>1, <1>12, <1>19
<1>22. Copied'[k] = r.val /\ \A j \in Keys : j # k => Copied'[j] = Copied[j]
  BY <1>1, <1>11 DEF Copied
<1>23. \A i \in DOMAIN Copy : i <= 0
  BY <1>13
<1>24. CommittedOK(Copy', Copied') /\ IndexOK(Copy', newDir')
  BY <1>11, <1>12, <1>13, <1>14, <1>21, <1>22, <1>23, WholeRecord
<1>25. CopyInv'
  <2>1. Sites(Copy') = Sites(Copy) \cup {SiteAt(Copy, 0, r)}
    BY <1>11, <1>12, <1>13, <1>14, WrittenSites
  <2>2. SiteAt(Copy, 0, r).rec = r
    BY <1>18
  <2>3. \A s1 \in Sites(Copy) : s1.rec \in Rec /\ s1.rec.key \in Keys
    BY <1>12, SiteType DEF Rec
  <2>4. OnlyLive(Copy, newDir) /\ \A s1 \in Sites(Copy) : s1.rec.key \notin todo
    BY <1>2 DEF CopyInv
  <2>5. \A s1 \in Sites(Copy) : s1.rec.key # k
    BY <1>1, <2>4
  <2>6. OnlyLive(Copy', newDir')
    BY <1>11, <1>21, <2>1, <2>2, <2>3, <2>4, <2>5 DEF OnlyLive
  <2>7. \A s1 \in Sites(Copy') : s1.rec.key \notin todo'
    BY <1>1, <1>11, <2>1, <2>2, <2>4
  <2> QED BY <1>15, <1>17, <1>20, <1>24, <2>6, <2>7 DEF CopyInv
<1>26. IInv' /\ CleanLog(disk') /\ TypeOK'
  BY <1>1, <1>2 DEF IInv, TypeOK
<1> QED BY <1>1, <1>2, <1>25, <1>26 DEF CInv

LEMMA RenameCInv ==
  ASSUME CInv, CompactRename, damage' = "none"
  PROVE  CInv' /\ DOMAIN disk' = {0} /\ OnlyLive(disk', keyDir')
<1>1. /\ phase = "renaming" /\ phase' = "idle" /\ disk' = WithFile(disk, 0, temp) /\ keyDir' = newDir
      /\ readFiles' = {}
      /\ \/ activeOpen' = TRUE /\ activeFileID' = 0 /\ writeOffset' = temp.size
         \/ UNCHANGED <<activeOpen, activeFileID, writeOffset>>
      /\ UNCHANGED <<status, deleting, lsn, committed, faults, todo>>
  BY DEF CompactRename
<1>2. damage = "none" /\ DOMAIN disk \subseteq {0}
  BY DEF CompactRename
<1>3. TypeOK /\ status = "open" /\ activeOpen = FALSE /\ CopyInv /\ todo = {}
  BY <1>1, <1>2 DEF CInv
<1>4. /\ temp \in File /\ IsDisk(Copy) /\ Torn(temp) = {} /\ temp.size \in Nat
      /\ newDir \in [Keys -> Meta \cup {NoMeta}]
      /\ CommittedOK(Copy, Copied) /\ IndexOK(Copy, newDir)
  BY <1>3 DEF CopyInv, File
<1>5. disk' = Copy /\ DOMAIN disk' = {0} /\ disk'[0] = temp
  <2>1. DOMAIN disk \cup {0} = {0}
    BY <1>2
  <2>2. disk' = [i \in {0} |-> temp]
    BY <1>1, <2>1 DEF WithFile
  <2>3. Copy = [i \in {0} |-> temp]
    BY DEF Copy, WithFile, EmptyDisk
  <2> QED BY <2>2, <2>3
<1>6. Copied = committed
  BY <1>3 DEF Copied, TypeOK
<1>7. CleanLog(disk')
  BY <1>4, <1>5 DEF CleanLog
<1>8. TypeOK'
  <2>1. DOMAIN disk' \subseteq Nat /\ \A i \in DOMAIN disk' : disk'[i] \in File
    BY <1>4, <1>5
  <2>2. activeFileID' \in Nat /\ writeOffset' \in Nat /\ activeOpen' \in BOOLEAN
    <3>1. activeFileID \in Nat /\ writeOffset \in Nat
      BY <1>3 DEF TypeOK
    <3>2. CASE activeOpen' = TRUE /\ activeFileID' = 0 /\ writeOffset' = temp.size
      BY <1>4, <3>2
    <3>3. CASE UNCHANGED <<activeOpen, activeFileID, writeOffset>>
      <4>1. activeOpen' = FALSE
        BY <1>3, <3>3
      <4> QED BY <3>1, <3>3, <4>1
    <3> QED BY <1>1, <3>2, <3>3
  <2> QED BY <1>1, <1>3, <1>4, <2>1, <2>2 DEF TypeOK
<1>9. IInv'
  BY <1>1, <1>3, <1>4, <1>5, <1>6, <1>8 DEF IInv
<1>10. OnlyLive(disk', keyDir')
  BY <1>1, <1>3, <1>5 DEF CopyInv
<1> QED BY <1>1, <1>5, <1>7, <1>8, <1>9, <1>10 DEF CInv

LEMMA CrashCInv ==
  ASSUME CInv, CompactCrash, damage' = "none"
  PROVE  CInv'
<1>1. /\ phase = "copying" /\ damage = "none" /\ Crashed /\ phase' = "idle"
      /\ UNCHANGED <<disk, lsn, committed, faults>>
  BY DEF CompactCrash, CInv
<1>2. TypeOK /\ IInv /\ CleanLog(disk)
  BY <1>1 DEF CInv
<1>3. TypeOK' /\ status' = "down" /\ activeOpen' = FALSE
  BY <1>1, <1>2, CrashTyped DEF TypeOK
<1>4. IInv'
  BY <1>1, <1>2, <1>3, DownIInv DEF IInv
<1> QED BY <1>1, <1>2, <1>3, <1>4 DEF CInv

LEMMA CompactNextCInv == CInv /\ [CompactNext]_cvars => CInv'
<1> SUFFICES ASSUME CInv, [CompactNext]_cvars, damage' = "none" PROVE CInv'
  BY DEF CInv
<1>1. CASE EngineStep
  <2>1. phase = "idle" /\ Next /\ damage = "none" /\ CleanLog(disk') /\ UNCHANGED phase
    BY <1>1 DEF EngineStep
  <2>2. IInv'
    BY <2>1, NextIInv DEF CInv
  <2> QED BY <2>1, <2>2 DEF CInv, IInv
<1>2. CASE CompactBegin
  BY <1>2, BeginCInv
<1>3. CASE CompactCreateFails
  <2>1. /\ phase = "idle" /\ status = "open" /\ Reload
        /\ UNCHANGED <<status, deleting, lsn, committed, faults, phase, damage>>
    BY <1>3 DEF CompactCreateFails, compaction
  <2>2. IInv' /\ CleanLog(disk')
    BY <2>1, ReloadIInv DEF CInv
  <2> QED BY <2>1, <2>2 DEF CInv, IInv
<1>4. ASSUME NEW k \in Keys, CompactWrite(k) PROVE CInv'
  <2>1. damage = "none"
    BY <1>4 DEF CompactWrite
  <2> QED BY <1>4, <2>1, WriteCInv
<1>5. CASE CompactWriteFails
  <2>1. /\ phase = "copying" /\ phase' = "idle" /\ Reload
        /\ UNCHANGED <<status, deleting, lsn, committed, faults, damage>>
    BY <1>5 DEF CompactWriteFails
  <2>2. IInv' /\ CleanLog(disk')
    BY <2>1, ReloadIInv DEF CInv
  <2> QED BY <2>1, <2>2 DEF CInv, IInv
<1>6. CASE CompactListFiles
  <2>1. /\ phase = "copying" /\ todo = {} /\ phase' \in {"removing", "renaming"}
        /\ UNCHANGED <<disk, status, keyDir, activeFileID, writeOffset, activeOpen, readFiles,
                       deleting, lsn, committed, faults, todo, temp, newDir, damage>>
    BY <1>6 DEF CompactListFiles, vars, engine
  <2>2. CopyInv' /\ TypeOK'
    BY <2>1 DEF CInv, CopyInv, Copy, Copied, TypeOK
  <2> QED BY <2>1, <2>2 DEF CInv
<1>7. ASSUME NEW i, CompactRemove(i) PROVE CInv'
  <2>1. /\ phase = "removing"
        /\ disk' = [j \in DOMAIN disk \ {i} |-> disk[j]] \/ UNCHANGED disk
        /\ UNCHANGED <<status, keyDir, activeFileID, writeOffset, activeOpen, readFiles,
                       deleting, lsn, committed, faults, phase, todo, temp, newDir, damage>>
    BY <1>7 DEF CompactRemove, engine
  <2>2. TypeOK /\ CopyInv /\ status = "open" /\ activeOpen = FALSE /\ todo = {}
    BY <2>1 DEF CInv
  <2>3. CopyInv'
    BY <2>1, <2>2 DEF CopyInv, Copy, Copied
  <2>4. DOMAIN disk' \subseteq Nat /\ \A j \in DOMAIN disk' : disk'[j] \in File
    BY <2>1, <2>2 DEF TypeOK
  <2>5. TypeOK'
    BY <2>1, <2>2, <2>4 DEF TypeOK
  <2> QED BY <2>1, <2>2, <2>3, <2>5 DEF CInv
<1>8. CASE CompactRemoveTemp
  <2>1. /\ phase = "removing" /\ phase' = "renaming"
        /\ UNCHANGED <<disk, status, keyDir, activeFileID, writeOffset, activeOpen, readFiles,
                       deleting, lsn, committed, faults, todo, temp, newDir, damage>>
    BY <1>8 DEF CompactRemoveTemp, vars, engine
  <2>2. CopyInv' /\ TypeOK'
    BY <2>1 DEF CInv, CopyInv, Copy, Copied, TypeOK
  <2> QED BY <2>1, <2>2 DEF CInv
<1>9. CASE CompactRename
  BY <1>9, RenameCInv
<1>10. CASE CompactRenameFails
  BY <1>10 DEF CompactRenameFails
<1>11. CASE CompactCrash
  BY <1>11, CrashCInv
<1>12. CASE UNCHANGED cvars
  <2>1. UNCHANGED <<disk, status, keyDir, activeFileID, writeOffset, activeOpen, readFiles,
                    deleting, lsn, committed, faults, phase, todo, temp, newDir, damage>>
    BY <1>12 DEF cvars, vars, engine, compaction
  <2>2. (IInv => IInv') /\ (TypeOK => TypeOK') /\ (CopyInv => CopyInv')
    BY <2>1 DEF IInv, TypeOK, CopyInv, Copy, Copied
  <2> QED BY <2>1, <2>2 DEF CInv
<1> QED BY <1>1, <1>2, <1>3, <1>4, <1>5, <1>6, <1>7, <1>8, <1>9, <1>10, <1>11, <1>12 DEF CompactNext

LEMMA CompactInvariant == CompactSpec => []CInv
<1>1. CompactInit => CInv
  <2> SUFFICES ASSUME CompactInit PROVE CInv
    OBVIOUS
  <2>1. IInv /\ phase = "idle"
    BY InitIInv DEF CompactInit
  <2>2. CleanLog(disk)
    BY DEF CompactInit, Init, EmptyDisk, CleanLog
  <2> QED BY <2>1, <2>2 DEF CInv, IInv
<1>2. CInv /\ [CompactNext]_cvars => CInv'
  BY CompactNextCInv
<1> QED BY <1>1, <1>2, PTL DEF CompactSpec

\* What the records of a disk say is what a restart recovers.
LEMMA RecoveredIs ==
  ASSUME NEW d, IsDisk(d), NEW c \in [Keys -> Values \cup {NoValue}], CommittedOK(d, c)
  PROVE  Recovered(d) = c
<1>1. ASSUME NEW k \in Keys PROVE Recovered(d)[k] = c[k]
  BY RestartOf DEF CommittedOK
<1> QED BY <1>1 DEF Recovered

\* Until Compact removes its own output, the old files or the complete copy hold all
\* that clients were told is stored, whatever fails and whenever the process dies
\* (the order of steps 3, 4 and 5 in Compact).
THEOREM CopyStaysComplete == CompactSpec => []SomeCopyComplete
<1>1. ASSUME CInv PROVE SomeCopyComplete
  <2> SUFFICES ASSUME phase \in {"copying", "removing"}, damage = "none"
               PROVE  \/ Recovered(disk) = committed
                      \/ phase = "removing" /\ Recovered(Copy) = committed
    BY DEF SomeCopyComplete, Copy
  <2>1. committed \in [Keys -> Values \cup {NoValue}]
    BY <1>1 DEF CInv, TypeOK
  <2>2. CASE phase = "copying"
    BY <1>1, <2>1, <2>2, RecoveredIs DEF CInv, IInv
  <2>3. CASE phase = "removing"
    <3>1. IsDisk(Copy) /\ CommittedOK(Copy, Copied) /\ todo = {}
      BY <1>1, <2>3 DEF CInv, CopyInv
    <3>2. Copied = committed
      BY <2>1, <3>1 DEF Copied
    <3> QED BY <2>1, <2>3, <3>1, <3>2, RecoveredIs
  <2> QED BY <2>2, <2>3
<1> QED BY <1>1, CompactInvariant, PTL

\* A Compact that succeeds, and one that fails before it removes a file, leave an
\* engine that serves all that clients were told is stored (newKeyDir, reloadDB).
THEOREM CompactServesCommitted == CompactSpec => []CompactTransparent
<1>1. ASSUME CInv PROVE CompactTransparent
  <2> SUFFICES ASSUME status = "open", phase = "idle", damage = "none", activeOpen, NEW k \in Keys
               PROVE  Get(k) = committed[k]
    BY DEF CompactTransparent
  <2>1. IInv /\ CleanLog(disk)
    BY <1>1 DEF CInv
  <2>2. \A i \in DOMAIN disk : HasHandle(i)
    BY <2>1 DEF IInv, HasHandle
  <2> QED BY <2>1, <2>2, GetIs
<1> QED BY <1>1, CompactInvariant, PTL

\* The one step after which Compact has succeeded is its rename.
LEMMA OnlyRenameSucceeds ==
  ASSUME CInv, CompactNext, phase = "renaming", phase' = "idle", damage' = "none"
  PROVE  CompactRename
<1>1. ~ EngineStep /\ ~ CompactBegin /\ ~ CompactCreateFails /\ ~ CompactWriteFails /\ ~ CompactListFiles
  BY DEF EngineStep, CompactBegin, CompactCreateFails, CompactWriteFails, CompactListFiles
<1>2. /\ \A k \in Keys : ~ CompactWrite(k)
      /\ \A i \in DOMAIN disk : ~ CompactRemove(i)
      /\ ~ CompactRemoveTemp
  BY DEF CompactWrite, CompactRemove, CompactRemoveTemp
<1>3. ~ CompactCrash
  BY DEF CompactCrash
<1>4. ~ CompactRenameFails
  BY DEF CompactRenameFails
<1> QED BY <1>1, <1>2, <1>3, <1>4 DEF CompactNext

\* A Compact that succeeds leaves one file in which every record is the one the key
\* directory points at for its key: no stale one and no tombstone (newKeyDir).
THEOREM CompactLeavesLiveOnly ==
  CompactSpec =>
    [][phase = "renaming" /\ phase' = "idle" /\ damage' = "none" =>
         DOMAIN disk' = {0} /\ OnlyLive(disk', keyDir')]_cvars
<1>1. ASSUME CInv, CompactNext, phase = "renaming", phase' = "idle", damage' = "none"
      PROVE  DOMAIN disk' = {0} /\ OnlyLive(disk', keyDir')
  BY <1>1, OnlyRenameSucceeds, RenameCInv
<1>2. CInv /\ [CompactNext]_cvars =>
        [phase = "renaming" /\ phase' = "idle" /\ damage' = "none" =>
           DOMAIN disk' = {0} /\ OnlyLive(disk', keyDir')]_cvars
  BY <1>1
<1> QED BY <1>2, CompactInvariant, PTL DEF CompactSpec

\* Where each record is live and each live key has one, the records the key directory
\* points at fill the file.
LEMMA LiveFillsFile ==
  ASSUME NEW d, IsDisk(d), DOMAIN d = {0}, Torn(d[0]) = {},
         NEW x, IndexOK(d, x), OnlyLive(d, x)
  PROVE  /\ Sizes(x, {k \in Keys : x[k] # NoMeta}) = d[0].size
         /\ d[0].size \in Nat
<1> DEFINE live == {k \in Keys : x[k] # NoMeta}
           B == [k \in live |-> x[k].off .. x[k].off + x[k].size - 1]
<1>1. PICK f : f = d[0]
  OBVIOUS
<1>2. f \in File /\ Layout(f) /\ f.size \in Nat
  BY <1>1 DEF IsDisk, File
<1>3. \A g \in f.frags : g.off \in Nat /\ g.len \in Nat \ {0} /\ g.off + g.len <= f.size /\ g.rec \in Rec
  BY <1>2 DEF File, Frag, Layout
<1>4. \A g \in f.frags : g.len = Size(g.rec) /\ g \in Scanned(f)
  BY <1>1 DEF Scanned, Torn, Intact
<1>5. ASSUME NEW k \in live
      PROVE  \E g \in f.frags : g.rec.key = k /\ x[k].off = g.off /\ x[k].size = g.len
  <2>1. PICK s \in Sites(d) : s.rec.key = k /\ x[k] = MetaOf(s)
    BY <1>5 DEF IndexOK, Decides
  <2>2. PICK g \in Scanned(f) : s.off = g.off /\ s.rec = g.rec
    BY <1>1 DEF Sites
  <2>3. g \in f.frags
    BY DEF Scanned
  <2>4. s.rec.val # NoValue
    BY DEF OnlyLive
  <2>5. x[k].off = s.off /\ x[k].size = Size(s.rec)
    BY <2>1, <2>4 DEF MetaOf
  <2> QED BY <1>4, <2>1, <2>2, <2>3, <2>5
<1>6. ASSUME NEW g \in f.frags
      PROVE  g.rec.key \in live /\ x[g.rec.key].off = g.off /\ x[g.rec.key].size = g.len
  <2>1. PICK s : s = [file |-> 0, off |-> g.off, rec |-> g.rec]
    OBVIOUS
  <2>2. s \in Sites(d)
    BY <1>1, <1>4, <2>1 DEF Sites
  <2>3. s.rec.val # NoValue /\ x[s.rec.key] = MetaOf(s)
    BY <2>2 DEF OnlyLive
  <2>4. x[g.rec.key] = [file |-> 0, off |-> g.off, size |-> g.len]
    BY <1>4, <2>1, <2>3 DEF MetaOf
  <2>5. x[g.rec.key] \in Meta
    BY <1>3, <2>4 DEF Meta
  <2>6. g.rec.key \in Keys
    BY <1>3 DEF Rec
  <2> QED BY <2>4, <2>5, <2>6, NoMetaAssumption
<1> HIDE DEF live
<1>7. ASSUME NEW k \in live
      PROVE  /\ x[k].size \in Nat \ {0} /\ \A i \in B[k] : i \in 0 .. f.size - 1
             /\ Cardinality(B[k]) = x[k].size
  <2>1. PICK g \in f.frags : x[k].off = g.off /\ x[k].size = g.len
    BY <1>5
  <2>2. /\ x[k].off \in Nat /\ x[k].size \in Nat \ {0} /\ x[k].off + x[k].size <= f.size
        /\ f.size \in Nat
    BY <1>2, <1>3, <2>1
  <2>3. B[k] = x[k].off .. x[k].off + x[k].size - 1
    OBVIOUS
  <2>4. PICK o, e : o = x[k].off /\ e = x[k].off + x[k].size - 1
    OBVIOUS
  <2>5. o \in Int /\ e \in Int /\ ~ (o > e) /\ e - o + 1 = x[k].size
    BY <2>2, <2>4
  <2>6. Cardinality(o .. e) = x[k].size
    BY <2>5, FS_Interval
  <2>7. \A i \in o .. e : i \in 0 .. f.size - 1
    BY <2>2, <2>4
  <2> QED BY <2>2, <2>3, <2>4, <2>6, <2>7
<1>8. ASSUME NEW k \in live, NEW l \in live, k # l
      PROVE  B[k] \cap B[l] = {}
  <2>1. PICK g \in f.frags : g.rec.key = k /\ x[k].off = g.off /\ x[k].size = g.len
    BY <1>5
  <2>2. PICK h \in f.frags : h.rec.key = l /\ x[l].off = h.off /\ x[l].size = h.len
    BY <1>5
  <2>3. g.off + g.len <= h.off \/ h.off + h.len <= g.off
    BY <1>2, <1>8, <2>1, <2>2 DEF Layout
  <2>4. B[k] = g.off .. g.off + g.len - 1 /\ B[l] = h.off .. h.off + h.len - 1
    BY <2>1, <2>2
  <2>5. g.off \in Nat /\ g.len \in Nat /\ h.off \in Nat /\ h.len \in Nat
    BY <1>3
  <2> HIDE DEF B
  <2>6. ASSUME NEW i \in B[k], i \in B[l] PROVE FALSE
    <3>1. i \in g.off .. g.off + g.len - 1 /\ i \in h.off .. h.off + h.len - 1
      BY <2>4, <2>6
    <3> QED BY <2>3, <2>5, <3>1
  <2> QED BY <2>6
<1>9. ASSUME NEW i \in 0 .. f.size - 1
      PROVE  \E k \in live : i \in B[k]
  <2>1. PICK g \in f.frags : g.off <= i /\ i < g.off + g.len
    BY <1>2 DEF Layout
  <2>2. g.rec.key \in live /\ B[g.rec.key] = g.off .. g.off + g.len - 1
    BY <1>6
  <2>3. g.off \in Nat /\ g.len \in Nat /\ i \in Int
    BY <1>2, <1>3
  <2>4. i \in g.off .. g.off + g.len - 1
    BY <2>1, <2>3
  <2> HIDE DEF B
  <2>5. i \in B[g.rec.key]
    BY <2>2, <2>4
  <2> QED BY <2>2, <2>5
<1> HIDE DEF B
<1>10. Sizes(x, live) = f.size
  BY <1>2, <1>7, <1>8, <1>9, SizesOfParts
<1> QED BY <1>1, <1>2, <1>10 DEF live

\* After a Compact that succeeds the statistics agree that nothing is garbage: the bytes of
\* the live records are those of the files (offsets of newKeyDir).
THEOREM CompactLeavesOnlyLiveBytes == CompactSpec => CompactLeavesNoGarbage
<1>1. ASSUME CInv, CInv', CompactNext, phase = "renaming", phase' = "idle", activeOpen', damage' = "none"
      PROVE  DOMAIN disk' = {0} /\ ActiveSize' = TotalSize'
  <2>1. CompactRename /\ damage = "none"
    BY <1>1, OnlyRenameSucceeds DEF CompactRename
  <2>2. DOMAIN disk' = {0} /\ OnlyLive(disk', keyDir')
    BY <1>1, <2>1, RenameCInv
  <2>3. disk' = WithFile(disk, 0, temp) /\ status' = status
    BY <2>1 DEF CompactRename
  <2>4. status = "open" /\ Torn(temp) = {}
    BY <1>1, <2>1 DEF CInv, CopyInv
  <2>5. Torn(disk'[0]) = {}
    BY <2>3, <2>4 DEF WithFile
  <2>6. IInv' /\ CleanLog(disk')
    BY <1>1 DEF CInv
  <2>7. IsDisk(disk') /\ IndexOK(disk', keyDir')
    BY <2>3, <2>4, <2>6 DEF IInv
  <2>8. activeFileID' = 0
    BY <1>1, <2>2, <2>6 DEF IInv
  <2>9. {i \in DOMAIN disk' : HasHandle(i)'} = {0}
    BY <1>1, <2>2, <2>8 DEF HasHandle
  <2>10. Sizes(keyDir', {k \in Keys : keyDir'[k] # NoMeta}) = disk'[0].size /\ disk'[0].size \in Nat
    BY <2>2, <2>5, <2>7, LiveFillsFile
  <2>11. Sizes(disk', {0}) = disk'[0].size
    BY <2>10, SizeOfOne
  <2>12. ActiveSize' = Sizes(keyDir', {k \in Keys : keyDir'[k] # NoMeta})
    BY DEF ActiveSize, Sizes, MapThenSumSet, MapThenFoldSet
  <2>13. TotalSize' = Sizes(disk', {i \in DOMAIN disk' : HasHandle(i)'})
    BY DEF TotalSize, Sizes, MapThenSumSet, MapThenFoldSet
  <2> QED BY <2>2, <2>9, <2>10, <2>11, <2>12, <2>13
<1>2. CInv /\ CInv' /\ [CompactNext]_cvars =>
        [phase = "renaming" /\ phase' = "idle" /\ activeOpen' /\ damage' = "none" =>
           DOMAIN disk' = {0} /\ ActiveSize' = TotalSize']_cvars
  BY <1>1
<1> QED BY <1>2, CompactInvariant, PTL DEF CompactSpec, CompactLeavesNoGarbage

--------------------------------------------------------------------------------
(* Steps of the engine, whatever clients were told: records come behind the *)
(* others of the last file.                                                 *)

\* The records of a disk are among the first l.
Within(d, l) == \A i \in DOMAIN d : \A g \in d[i].frags : g.rec.lsn <= l

DiskInv == IsDisk(disk) /\ lsn \in Nat /\ Within(disk, lsn) /\ Placed

\* A new file is an empty one until something is written.
LEMMA NewFileExtends ==
  ASSUME NEW d, IsDisk(d), NEW id \in Nat, NEW l
  PROVE  /\ IsDisk(WithFile(d, id, FileAt(d, id)))
         /\ DOMAIN WithFile(d, id, FileAt(d, id)) = DOMAIN d \cup {id}
         /\ Extends(d, WithFile(d, id, FileAt(d, id)), l)
         /\ SameRecords(d, WithFile(d, id, FileAt(d, id)))
<1> DEFINE e == WithFile(d, id, FileAt(d, id))
<1>1. FileAt(d, id) \in File /\ Layout(FileAt(d, id))
  BY FileAtOK
<1>2. IsDisk(e) /\ DOMAIN e = DOMAIN d \cup {id}
  BY <1>1, WithFileDisk DEF WithFile
<1>3. ASSUME NEW i \in DOMAIN e PROVE e[i] = FileAt(d, i) /\ e[i].size \in Nat
  BY <1>1, <1>2 DEF WithFile, FileAt, IsDisk, File
<1>4. ASSUME NEW i \in DOMAIN e PROVE FileAt(d, i).size <= e[i].size
  BY <1>3
<1> QED BY <1>2, <1>3, <1>4, WithFileSame DEF Extends

\* Two steps that write no record and one that does.
LEMMA ExtendsTwice ==
  ASSUME NEW d, NEW e, NEW f, NEW l, IsDisk(d), IsDisk(e), IsDisk(f),
         Extends(d, e, l), SameRecords(d, e), Extends(e, f, l),
         \A i \in DOMAIN e : e[i].size = FileAt(d, i).size
  PROVE  Extends(d, f, l)
<1>1. DOMAIN d \subseteq DOMAIN f
  BY DEF Extends
<1>2. ASSUME NEW i \in DOMAIN f
      PROVE  FileAt(e, i).frags = FileAt(d, i).frags /\ FileAt(e, i).size = FileAt(d, i).size
  BY DEF SameRecords, FileAt, EmptyFile
<1> QED BY <1>1, <1>2 DEF Extends

\* A write, whole or in part, of a file that is the last one.
LEMMA AppendExtends ==
  ASSUME NEW d, IsDisk(d), NEW id \in DOMAIN d, \A i \in DOMAIN d : i <= id,
         NEW r \in Rec, NEW n \in 0 .. Size(r)
  PROVE  LET e == WithFile(d, id, AppendTo(FileAt(d, id), r, n)) IN
         /\ IsDisk(e) /\ DOMAIN e = DOMAIN d /\ Extends(d, e, r.lsn)
         /\ n = 0 => SameRecords(d, e)
<1> DEFINE f == AppendTo(FileAt(d, id), r, n)
           e == WithFile(d, id, f)
<1>1. id \in Nat /\ FileAt(d, id) = d[id] /\ d[id] \in File /\ Layout(d[id]) /\ d[id].size \in Nat
  BY DEF IsDisk, FileAt, File
<1>2. Size(r) \in Nat
  BY SizeNat
<1>3. f \in File /\ Layout(f)
  <2>1. CASE n = 0
    BY <1>1, <2>1 DEF AppendTo
  <2>2. CASE n # 0
    <3>1. n \in 1 .. Size(r)
      BY <1>2, <2>2
    <3> QED BY <1>1, <3>1, AppendLayout
  <2> QED BY <2>1, <2>2
<1>4. IsDisk(e) /\ DOMAIN e = DOMAIN d
  BY <1>1, <1>3, WithFileDisk DEF WithFile
<1>5. /\ f.size = d[id].size + n
      /\ f.frags = IF n = 0 THEN d[id].frags
                   ELSE d[id].frags \cup {[off |-> d[id].size, len |-> n, rec |-> r]}
  BY <1>1, <1>2 DEF AppendTo
<1>6. \A i \in DOMAIN e : e[i] = IF i = id THEN f ELSE d[i]
  BY <1>4 DEF WithFile
<1>7. \A i \in DOMAIN e : FileAt(d, i) = d[i] /\ d[i].size \in Nat
  BY <1>4 DEF FileAt, IsDisk, File
<1> HIDE DEF e, f
<1>8. ASSUME NEW i \in DOMAIN e
      PROVE  /\ FileAt(d, i).frags \subseteq e[i].frags /\ FileAt(d, i).size <= e[i].size
             /\ \A g \in e[i].frags \ FileAt(d, i).frags :
                  g.rec.lsn = r.lsn /\ g.off = FileAt(d, i).size /\ i = id
  <2>1. CASE i = id
    <3>1. d[i].size <= e[i].size
      BY <1>1, <1>2, <1>5, <1>6, <2>1
    <3> QED BY <1>5, <1>6, <1>7, <2>1, <3>1
  <2>2. CASE i # id
    <3>1. e[i] = d[i]
      BY <1>6, <2>2
    <3> QED BY <1>7, <3>1
  <2> QED BY <2>1, <2>2
<1>9. Extends(d, e, r.lsn)
  BY <1>4, <1>8 DEF Extends
<1>10. n = 0 => SameRecords(d, e)
  BY <1>4, <1>5, <1>6 DEF SameRecords
<1> QED BY <1>4, <1>9, <1>10 DEF e, f

LEMMA LandedExtends ==
  ASSUME DiskInv, CanWrite, NEW r \in Rec, NEW n \in 0 .. Size(r)
  PROVE  /\ IsDisk(Landed(r, n)) /\ Extends(disk, Landed(r, n), r.lsn)
         /\ Target(r) \in DOMAIN Landed(r, n) /\ \A i \in DOMAIN Landed(r, n) : i <= Target(r)
         /\ n = 0 => SameRecords(disk, Landed(r, n))
<1>1. /\ IsDisk(Prepared(r)) /\ Extends(disk, Prepared(r), r.lsn) /\ SameRecords(disk, Prepared(r))
      /\ \A i \in DOMAIN Prepared(r) : Prepared(r)[i].size = FileAt(disk, i).size
      /\ Target(r) \in DOMAIN Prepared(r) /\ \A i \in DOMAIN Prepared(r) : i <= Target(r)
  BY PreparedExtends DEF DiskInv
<1>2. /\ IsDisk(Landed(r, n)) /\ DOMAIN Landed(r, n) = DOMAIN Prepared(r)
      /\ Extends(Prepared(r), Landed(r, n), r.lsn)
      /\ n = 0 => SameRecords(Prepared(r), Landed(r, n))
  BY <1>1, AppendExtends DEF Landed
<1>3. Extends(disk, Landed(r, n), r.lsn)
  BY <1>1, <1>2, ExtendsTwice DEF DiskInv
<1>4. n = 0 => SameRecords(disk, Landed(r, n))
  BY <1>1, <1>2 DEF SameRecords
<1> QED BY <1>1, <1>2, <1>3, <1>4

\* Every step of the engine but power loss extends its disk.
DiskStep ==
  /\ Extends(disk, disk', lsn + 1)
  /\ lsn' = lsn + 1 \/ (lsn' = lsn /\ SameRecords(disk, disk'))

LEMMA StepWithin ==
  ASSUME DiskInv, DiskStep
  PROVE  lsn' \in Nat /\ Within(disk', lsn')
<1>1. ASSUME NEW i \in DOMAIN disk', NEW g \in disk'[i].frags PROVE g.rec.lsn <= lsn'
  <2>1. CASE g \in FileAt(disk, i).frags
    <3>1. i \in DOMAIN disk /\ g \in disk[i].frags
      BY <2>1 DEF FileAt, EmptyFile
    <3>2. g.rec.lsn <= lsn /\ g.rec.lsn \in Nat
      BY <3>1 DEF DiskInv, Within, IsDisk, File, Frag, Rec
    <3> QED BY <3>2 DEF DiskStep, DiskInv
  <2>2. CASE g \notin FileAt(disk, i).frags
    <3>1. g.rec.lsn = lsn + 1
      BY <2>2 DEF DiskStep, Extends
    <3>2. lsn' = lsn + 1
      BY <2>2 DEF DiskStep, SameRecords, FileAt, EmptyFile
    <3> QED BY <3>1, <3>2 DEF DiskInv
  <2> QED BY <2>1, <2>2
<1> QED BY <1>1 DEF DiskStep, DiskInv, Within

LEMMA StayStep ==
  ASSUME DiskInv, UNCHANGED <<disk, lsn>>
  PROVE  DiskStep
<1>1. \A i \in DOMAIN disk : FileAt(disk, i) = disk[i] /\ disk[i].size <= disk[i].size
  BY DEF FileAt, DiskInv, IsDisk, File
<1> QED BY <1>1 DEF DiskStep, Extends, SameRecords

LEMMA WriteStep ==
  ASSUME DiskInv, NEW k \in Keys, NEW v \in Values \cup {NoValue},
         NEW n \in 0 .. Size(NewRecord(k, v)), CanWrite, disk' = Landed(NewRecord(k, v), n),
         lsn' = lsn + 1 \/ (n = 0 /\ lsn' = lsn)
  PROVE  /\ IsDisk(disk') /\ DiskStep
         /\ Target(NewRecord(k, v)) \in DOMAIN disk' /\ \A i \in DOMAIN disk' : i <= Target(NewRecord(k, v))
<1>1. PICK r : r = NewRecord(k, v)
  OBVIOUS
<1>2. r \in Rec /\ r.lsn = lsn + 1
  BY <1>1 DEF NewRecord, Rec, DiskInv
<1>3. /\ IsDisk(Landed(r, n)) /\ Extends(disk, Landed(r, n), r.lsn)
      /\ Target(r) \in DOMAIN Landed(r, n) /\ \A i \in DOMAIN Landed(r, n) : i <= Target(r)
      /\ n = 0 => SameRecords(disk, Landed(r, n))
  BY <1>1, <1>2, LandedExtends
<1> QED BY <1>1, <1>2, <1>3 DEF DiskStep

LEMMA RotateStep ==
  ASSUME DiskInv, CanWrite, disk' = SyncedActive, UNCHANGED lsn
  PROVE  IsDisk(disk') /\ DiskStep
<1>1. IsDisk(disk) /\ activeFileID \in DOMAIN disk
  BY DEF DiskInv, Placed, CanWrite
<1>2. IsDisk(SyncedActive) /\ DOMAIN SyncedActive = DOMAIN disk /\ Extends(disk, SyncedActive, lsn + 1)
  BY <1>1, SyncedExtends DEF SyncedActive
<1>3. SameRecords(disk, SyncedActive)
  BY <1>1 DEF SameRecords, SyncedActive, WithFile, FileAt, Sync
<1> QED BY <1>2, <1>3 DEF DiskStep

LEMMA OpenedStep ==
  ASSUME DiskInv,
         NEW id \in IF DOMAIN disk = {} THEN {0}
                    ELSE {i \in DOMAIN disk : \A j \in DOMAIN disk : j <= i},
         disk' = WithFile(disk, id, FileAt(disk, id)), activeFileID' = id,
         activeOpen' = TRUE, status' = "open", UNCHANGED lsn
  PROVE  DiskInv' /\ DiskStep /\ SameRecords(disk, disk')
<1>1. id \in Nat /\ \A j \in DOMAIN disk : j <= id
  BY DEF DiskInv, IsDisk
<1>2. /\ IsDisk(disk') /\ DOMAIN disk' = DOMAIN disk \cup {id} /\ Extends(disk, disk', lsn + 1)
      /\ SameRecords(disk, disk')
  BY <1>1, NewFileExtends DEF DiskInv
<1>3. DiskStep
  BY <1>2 DEF DiskStep
<1>4. Placed'
  BY <1>1, <1>2 DEF Placed
<1> QED BY <1>2, <1>3, <1>4, StepWithin DEF DiskInv

LEMMA CloseStep ==
  ASSUME DiskInv, Close
  PROVE  DiskInv' /\ DiskStep /\ SameRecords(disk, disk') /\ activeOpen' = FALSE
<1>1. activeOpen' = FALSE /\ UNCHANGED lsn
  BY DEF Close
<1>2. CASE activeOpen
  <2>1. disk' = SyncedActive /\ activeFileID \in DOMAIN disk
    BY <1>2 DEF Close, SyncedActive, DiskInv, Placed
  <2>2. IsDisk(disk') /\ DOMAIN disk' = DOMAIN disk /\ Extends(disk, disk', lsn + 1)
    BY <2>1, SyncedExtends DEF SyncedActive, DiskInv
  <2>3. SameRecords(disk, disk')
    BY <2>1 DEF SameRecords, SyncedActive, WithFile, FileAt, Sync
  <2>4. DiskStep
    BY <1>1, <2>2, <2>3 DEF DiskStep
  <2> QED BY <1>1, <2>2, <2>3, <2>4, StepWithin DEF DiskInv, Placed
<1>3. CASE ~ activeOpen
  <2>1. UNCHANGED <<disk, lsn>>
    BY <1>3 DEF Close
  <2> QED BY <1>1, <2>1, StayStep DEF DiskInv, Placed, SameRecords
<1> QED BY <1>2, <1>3

\* Power loss leaves fragments of the records that were there.
LEMMA PowerLossDisk ==
  ASSUME DiskInv, PowerLoss
  PROVE  DiskInv'
<1>1. PICK cut : /\ \A i \in DOMAIN disk : cut[i] \in CutPoints(disk[i])
                 /\ disk' = [i \in DOMAIN disk |-> Cut(disk[i], cut[i])]
  BY DEF PowerLoss
<1>2. activeOpen' = FALSE /\ UNCHANGED lsn
  BY DEF PowerLoss, Crashed
<1>3. ASSUME NEW i \in DOMAIN disk'
      PROVE  /\ disk'[i] \in File /\ Layout(disk'[i])
             /\ \A g \in disk'[i].frags : \E h \in disk[i].frags : g.rec = h.rec
  <2>1. disk[i] \in File /\ Layout(disk[i]) /\ cut[i] \in CutPoints(disk[i])
    BY <1>1, <1>3 DEF DiskInv, IsDisk
  <2>2. disk'[i] = Cut(disk[i], cut[i]) /\ cut[i] \in Nat /\ cut[i] <= disk[i].size
    BY <1>1, <1>3, <2>1, CutPointsOK
  <2> QED BY <2>1, <2>2, CutOK, CutScanned
<1>4. IsDisk(disk')
  BY <1>1, <1>3 DEF DiskInv, IsDisk
<1>5. Within(disk', lsn)
  BY <1>1, <1>3 DEF DiskInv, Within
<1> QED BY <1>2, <1>4, <1>5 DEF DiskInv, Placed

LEMMA NextDisk ==
  ASSUME DiskInv, [Next]_vars
  PROVE  DiskInv' /\ (DiskStep \/ status' = "down")
<1>1. CASE Open
  <2>1. PICK id \in IF DOMAIN disk = {} THEN {0}
                    ELSE {i \in DOMAIN disk : \A j \in DOMAIN disk : j <= i} :
          disk' = WithFile(disk, id, FileAt(disk, id)) /\ activeFileID' = id
    BY <1>1 DEF Open
  <2>2. activeOpen' = TRUE /\ status' = "open" /\ UNCHANGED lsn
    BY <1>1 DEF Open
  <2> QED BY <2>1, <2>2, OpenedStep
<1>2. CASE UNCHANGED <<disk, status, activeFileID, activeOpen, lsn>>
  BY <1>2, StayStep DEF DiskInv, Placed
<1>3. CASE OpenRefused
  <2>1. UNCHANGED <<disk, lsn, activeOpen>> /\ ~ activeOpen
    BY <1>3 DEF OpenRefused, engine, DiskInv, Placed
  <2> QED BY <2>1, StayStep DEF DiskInv, Placed
<1>4. CASE Close
  BY <1>4, CloseStep
<1>5. CASE ProcessCrash
  BY <1>5, StayStep DEF ProcessCrash, Crashed, DiskInv, Placed
<1>6. CASE PowerLoss
  BY <1>6, PowerLossDisk DEF PowerLoss, Crashed
<1>7. ASSUME NEW k \in Keys, NEW v \in Values \cup {NoValue},
             NEW n \in 0 .. Size(NewRecord(k, v)), CanWrite, disk' = Landed(NewRecord(k, v), n),
             lsn' = lsn + 1 \/ (n = 0 /\ lsn' = lsn),
             \/ ~ activeOpen'
             \/ activeFileID' = Target(NewRecord(k, v)) /\ status' = "open"
      PROVE  DiskInv' /\ (DiskStep \/ status' = "down")
  <2>1. /\ IsDisk(disk') /\ DiskStep
        /\ Target(NewRecord(k, v)) \in DOMAIN disk' /\ \A i \in DOMAIN disk' : i <= Target(NewRecord(k, v))
    BY <1>7, WriteStep
  <2> QED BY <1>7, <2>1, StepWithin DEF DiskInv, Placed
<1>8. ASSUME NEW k \in Keys, NEW v \in Values \cup {NoValue} PROVE Size(NewRecord(k, v)) \in Nat
  <2>1. NewRecord(k, v) \in Rec
    BY DEF NewRecord, Rec, DiskInv
  <2> QED BY <2>1, SizeNat
<1>9. ASSUME NEW k \in Keys, NEW v \in Values \cup {NoValue}, WriteEntry(k, v)
      PROVE  DiskInv' /\ (DiskStep \/ status' = "down")
  <2>1. /\ CanWrite /\ disk' = Landed(NewRecord(k, v), Size(NewRecord(k, v))) /\ lsn' = lsn + 1
        /\ activeFileID' = Target(NewRecord(k, v)) /\ status' = "open"
    BY <1>9 DEF WriteEntry, CanWrite
  <2>2. Size(NewRecord(k, v)) \in 0 .. Size(NewRecord(k, v))
    BY <1>8
  <2> QED BY <1>7, <2>1, <2>2
<1>10. ASSUME NEW k \in Keys, NEW v \in Values \cup {NoValue},
              NEW n \in {0} \cup TearLens(NewRecord(k, v)), WriteFails(k, v, n) \/ CrashInWrite(k, v, n)
       PROVE  DiskInv' /\ (DiskStep \/ status' = "down")
  <2>1. /\ CanWrite /\ disk' = Landed(NewRecord(k, v), n) /\ lsn' = (IF n = 0 THEN lsn ELSE lsn + 1)
        /\ \/ ~ activeOpen'
           \/ activeFileID' = Target(NewRecord(k, v)) /\ status' = "open"
    BY <1>10 DEF WriteFails, CrashInWrite, Crashed, CanWrite
  <2>2. n \in 0 .. Size(NewRecord(k, v))
    BY <1>8 DEF TearLens
  <2> QED BY <1>7, <2>1, <2>2
<1>11. ASSUME NEW k \in Keys, NEW v \in Values \cup {NoValue},
              RotateReopenFails(k, v) \/ RotateCreateFails(k, v)
       PROVE  DiskInv' /\ (DiskStep \/ status' = "down")
  <2>1. CanWrite /\ disk' = SyncedActive /\ UNCHANGED lsn /\ activeOpen' = FALSE
    BY <1>11 DEF RotateReopenFails, RotateCreateFails
  <2> QED BY <2>1, RotateStep, StepWithin DEF DiskInv, Placed
<1>12. \A k \in Keys : DeleteCheck(k) => UNCHANGED <<disk, status, activeFileID, activeOpen, lsn>>
  BY DEF DeleteCheck, engine
<1>13. UNCHANGED vars => UNCHANGED <<disk, status, activeFileID, activeOpen, lsn>>
  BY DEF vars, engine
<1>14. \A k \in Keys, v \in Values : Put(k, v) => WriteEntry(k, v)
  BY DEF Put
<1>15. \A k \in Keys : DeleteWrite(k) => WriteEntry(k, NoValue)
  BY DEF DeleteWrite
<1> QED BY <1>1, <1>2, <1>3, <1>4, <1>5, <1>6, <1>9, <1>10, <1>11, <1>12, <1>13, <1>14, <1>15 DEF Next

--------------------------------------------------------------------------------
(* Backup and restore *)

\* f is a copy of h that holds whole what was written before the backup.
CopyOf(f, h, l) ==
  \E n \in Nat : /\ n <= h.size /\ f = Cut(h, n)
                 /\ \A g \in h.frags : g.rec.lsn <= l => g.off + g.len <= n

\* The listed files, what is new since, and the copies.
CopyingInv ==
  LET listed == backup.todo \cup DOMAIN backup.zip
      new(g) == g.rec.lsn > backup.from
  IN /\ backup.from \in Nat /\ backup.from <= lsn
     /\ listed \subseteq DOMAIN disk
     /\ \A i \in DOMAIN disk \ listed : \A g \in disk[i].frags : new(g)
     /\ \A i \in DOMAIN disk : \A g \in disk[i].frags : new(g) => \A j \in listed : j <= i
     /\ \A i, j \in DOMAIN disk : \A g \in disk[i].frags, h \in disk[j].frags :
          (new(g) \/ new(h)) /\ (i < j \/ (i = j /\ g.off < h.off)) => g.rec.lsn < h.rec.lsn
     /\ \A i \in DOMAIN backup.zip : CopyOf(backup.zip[i], disk[i], backup.from)

IsBackup == backup = [at |-> backup.at, todo |-> backup.todo, zip |-> backup.zip,
                      from |-> backup.from, alone |-> backup.alone]

IsRestore == restore = [at |-> restore.at, zip |-> restore.zip, todo |-> restore.todo,
                        before |-> restore.before]

\* What a restore has made of the files, if nothing failed.
RestoringInv ==
  /\ restore.at \in {"checking", "giveUp"} => Recovered(disk) = restore.before
  /\ restore.at = "removing" => DOMAIN disk \subseteq restore.todo
  /\ restore.at = "extracting" => /\ DOMAIN disk = DOMAIN restore.zip \ restore.todo
                                  /\ \A i \in DOMAIN disk : disk[i] = Extracted(restore.zip[i])

\* The inductive invariant.
BInv ==
  /\ DiskInv /\ IsBackup /\ IsRestore
  /\ IsDisk(backup.zip) /\ Within(backup.zip, lsn)
  /\ IsDisk(restore.zip) /\ Within(restore.zip, lsn)
  /\ restore.at # "none" => activeOpen = FALSE
  /\ restore.at = "extracting" => restore.todo \subseteq DOMAIN restore.zip
  /\ backup.at = "copying" /\ backup.alone => restore.at = "none" /\ CopyingInv
  /\ failure = "none" => RestoringInv

LEMMA EmptyDiskOK == IsDisk(EmptyDisk) /\ \A l : Within(EmptyDisk, l)
BY DEF IsDisk, EmptyDisk, Within

LEMMA WithinGrows ==
  ASSUME NEW d, IsDisk(d), NEW l \in Nat, NEW m \in Nat, l <= m, Within(d, l)
  PROVE  Within(d, m)
<1>1. ASSUME NEW i \in DOMAIN d, NEW g \in d[i].frags PROVE g.rec.lsn <= m
  <2>1. g.rec.lsn <= l /\ g.rec.lsn \in Nat
    BY DEF Within, IsDisk, File, Frag, Rec
  <2> QED BY <2>1
<1> QED BY <1>1 DEF Within

\* A file of a disk, or a copy of one, put into a disk.
LEMMA WithFileWithin ==
  ASSUME NEW d, IsDisk(d), NEW l, Within(d, l), NEW i \in Nat, NEW f \in File, Layout(f),
         \A g \in f.frags : g.rec.lsn <= l
  PROVE  IsDisk(WithFile(d, i, f)) /\ Within(WithFile(d, i, f), l)
<1>1. IsDisk(WithFile(d, i, f))
  BY WithFileDisk
<1>2. Within(WithFile(d, i, f), l)
  BY DEF Within, WithFile
<1> QED BY <1>1, <1>2

LEMMA CutWithin ==
  ASSUME NEW d, IsDisk(d), NEW l, Within(d, l), NEW i \in DOMAIN d, NEW n \in Nat, n <= d[i].size
  PROVE  /\ Cut(d[i], n) \in File /\ Layout(Cut(d[i], n))
         /\ \A g \in Cut(d[i], n).frags : g.rec.lsn <= l
<1>1. d[i] \in File /\ Layout(d[i])
  BY DEF IsDisk
<1> QED BY <1>1, CutOK, CutScanned DEF Within

LEMMA SameRecordsRecovered ==
  ASSUME NEW d, IsDisk(d), NEW e, IsDisk(e), SameRecords(d, e)
  PROVE  Recovered(e) = Recovered(d)
<1>1. Recovered(d) \in [Keys -> Values \cup {NoValue}] /\ CommittedOK(d, Recovered(d))
  BY RecoveredOK
<1>2. CommittedOK(e, Recovered(d))
  BY <1>1, SameRecordsOK
<1> QED BY <1>1, <1>2, RecoveredIs

\* The engine's writers leave a copy what it was.
LEMMA CutGrown ==
  ASSUME NEW f \in File, NEW h \in File, NEW n \in Nat, n <= f.size, f.frags \subseteq h.frags,
         \A g \in h.frags \ f.frags : g.off = f.size
  PROVE  Cut(h, n) = Cut(f, n)
<1>1. f.size \in Nat /\ \A g \in h.frags : g.off \in Nat
  BY DEF File, Frag
<1>2. \A g \in h.frags : g.off < n => g \in f.frags
  BY <1>1
<1>3. {g \in h.frags : g.off < n} = {g \in f.frags : g.off < n}
  BY <1>2
<1> QED BY <1>3 DEF Cut

LEMMA CopyingStep ==
  ASSUME DiskInv, DiskInv', DiskStep, CopyingInv, UNCHANGED backup
  PROVE  CopyingInv'
<1> DEFINE listed == backup.todo \cup DOMAIN backup.zip
           new(g) == g.rec.lsn > backup.from
           old(i, g) == i \in DOMAIN disk /\ g \in disk[i].frags
<1>1. /\ backup.from \in Nat /\ backup.from <= lsn /\ lsn \in Nat
      /\ listed \subseteq DOMAIN disk
      /\ \A i \in DOMAIN disk \ listed : \A g \in disk[i].frags : new(g)
      /\ \A i \in DOMAIN disk : \A g \in disk[i].frags : new(g) => \A j \in listed : j <= i
      /\ \A i, j \in DOMAIN disk : \A g \in disk[i].frags, h \in disk[j].frags :
           (new(g) \/ new(h)) /\ (i < j \/ (i = j /\ g.off < h.off)) => g.rec.lsn < h.rec.lsn
      /\ \A i \in DOMAIN backup.zip : CopyOf(backup.zip[i], disk[i], backup.from)
  BY DEF CopyingInv, DiskInv
<1>2. /\ DOMAIN disk \subseteq DOMAIN disk' /\ DOMAIN disk' \subseteq Nat
      /\ \A i \in DOMAIN disk : disk[i] \in File /\ disk'[i] \in File /\ FileAt(disk, i) = disk[i]
      /\ \A i \in DOMAIN disk : disk[i].frags \subseteq disk'[i].frags /\ disk[i].size <= disk'[i].size
  BY DEF DiskStep, Extends, DiskInv, IsDisk, FileAt
<1>3. ASSUME NEW i \in DOMAIN disk', NEW g \in disk'[i].frags
      PROVE  g.off \in Nat /\ g.len \in Nat /\ g.len >= 1 /\ g.rec.lsn \in Nat
  BY DEF DiskInv, IsDisk, File, Frag, Rec, Layout
<1>4. ASSUME NEW i \in DOMAIN disk', NEW g \in disk'[i].frags, old(i, g)
      PROVE  g.rec.lsn <= lsn /\ g.off < disk[i].size
  <2>1. g.rec.lsn <= lsn
    BY <1>4 DEF DiskInv, Within
  <2>2. g.off + g.len <= disk[i].size /\ disk[i].size \in Nat
    BY <1>4 DEF DiskInv, IsDisk, Layout, File
  <2> QED BY <1>3, <2>1, <2>2
<1>5. ASSUME NEW i \in DOMAIN disk', NEW g \in disk'[i].frags, ~ old(i, g)
      PROVE  /\ g.rec.lsn = lsn + 1 /\ new(g) /\ \A j \in DOMAIN disk' : j <= i
             /\ i \in DOMAIN disk => g.off = disk[i].size
             /\ i \notin DOMAIN disk => g.off = 0
  <2>1. g \notin FileAt(disk, i).frags
    BY <1>5 DEF FileAt, EmptyFile
  <2>2. g.rec.lsn = lsn + 1 /\ g.off = FileAt(disk, i).size /\ \A j \in DOMAIN disk' : j <= i
    BY <2>1 DEF DiskStep, Extends
  <2> QED BY <1>1, <2>2 DEF FileAt, EmptyFile
<1>6. lsn' \in Nat /\ lsn <= lsn'
  BY <1>1 DEF DiskStep
<1>7. ASSUME NEW i \in DOMAIN disk' \ listed, NEW g \in disk'[i].frags PROVE new(g)
  <2>1. CASE old(i, g)
    BY <1>1, <1>7, <2>1
  <2>2. CASE ~ old(i, g)
    BY <1>5, <1>7, <2>2
  <2> QED BY <2>1, <2>2
<1>8. ASSUME NEW i \in DOMAIN disk', NEW g \in disk'[i].frags, new(g), NEW j \in listed PROVE j <= i
  <2>1. CASE old(i, g)
    BY <1>1, <1>8, <2>1
  <2>2. CASE ~ old(i, g)
    BY <1>1, <1>2, <1>5, <2>2
  <2> QED BY <2>1, <2>2
<1>9. ASSUME NEW i \in DOMAIN disk', NEW j \in DOMAIN disk', NEW g \in disk'[i].frags, NEW h \in disk'[j].frags,
             new(g) \/ new(h), i < j \/ (i = j /\ g.off < h.off)
      PROVE  g.rec.lsn < h.rec.lsn
  <2>1. CASE old(i, g) /\ old(j, h)
    BY <1>1, <1>9, <2>1
  <2>2. CASE old(i, g) /\ ~ old(j, h)
    <3>1. g.rec.lsn <= lsn /\ h.rec.lsn = lsn + 1
      BY <1>4, <1>5, <2>2
    <3> QED BY <1>1, <1>3, <3>1
  <2>3. CASE ~ old(i, g)
    <3>1. g.rec.lsn = lsn + 1 /\ j <= i /\ (i \in DOMAIN disk => g.off = disk[i].size)
      BY <1>5, <2>3
    <3>2. i = j /\ g.off < h.off
      BY <1>2, <1>9, <3>1
    <3>3. CASE old(j, h)
      <4>1. h.off < disk[i].size /\ i \in DOMAIN disk /\ disk[i].size \in Nat
        BY <1>2, <1>4, <3>2, <3>3 DEF File
      <4> QED BY <1>3, <3>1, <3>2, <4>1
    <3>4. CASE ~ old(j, h)
      <4>1. h.off = g.off
        BY <1>5, <2>3, <3>2, <3>4
      <4> QED BY <1>3, <3>2, <4>1
    <3> QED BY <3>3, <3>4
  <2> QED BY <2>1, <2>2, <2>3
<1>10. ASSUME NEW i \in DOMAIN backup.zip PROVE CopyOf(backup.zip[i], disk'[i], backup.from)
  <2>1. i \in DOMAIN disk /\ i \in DOMAIN disk'
    BY <1>1, <1>2
  <2>2. PICK n \in Nat : /\ n <= disk[i].size /\ backup.zip[i] = Cut(disk[i], n)
                         /\ \A g \in disk[i].frags : g.rec.lsn <= backup.from => g.off + g.len <= n
    BY <1>1 DEF CopyOf
  <2>3. disk[i] \in File /\ disk'[i] \in File /\ disk[i].size \in Nat /\ disk'[i].size \in Nat
    BY <1>2, <2>1 DEF File
  <2>4. \A g \in disk'[i].frags \ disk[i].frags : g.off = disk[i].size
    BY <1>5, <2>1
  <2>5. Cut(disk'[i], n) = Cut(disk[i], n)
    BY <1>2, <2>1, <2>2, <2>3, <2>4, CutGrown
  <2>6. n <= disk'[i].size
    BY <1>2, <2>1, <2>2, <2>3
  <2>7. ASSUME NEW g \in disk'[i].frags, g.rec.lsn <= backup.from PROVE g.off + g.len <= n
    <3>1. old(i, g)
      BY <1>1, <1>3, <1>5, <2>1, <2>7
    <3> QED BY <2>2, <2>7, <3>1
  <2> QED BY <2>2, <2>5, <2>6, <2>7 DEF CopyOf
<1>11. listed \subseteq DOMAIN disk' /\ backup.from <= lsn'
  BY <1>1, <1>2, <1>6
<1> QED BY <1>1, <1>7, <1>8, <1>9, <1>10, <1>11 DEF CopyingInv

LEMMA InitBInv == BackupInit => BInv
<1> SUFFICES ASSUME BackupInit PROVE BInv
  OBVIOUS
<1>1. Init /\ backup = NoBackup /\ restore = NoRestore
  BY DEF BackupInit
<1>2. IsDisk(disk) /\ Within(disk, lsn) /\ lsn \in Nat /\ activeOpen = FALSE
  BY <1>1, EmptyDiskOK DEF Init
<1>3. IsBackup /\ backup.at = "none" /\ backup.zip = EmptyDisk
  BY <1>1 DEF IsBackup, NoBackup
<1>4. IsRestore /\ restore.at = "none" /\ restore.zip = EmptyDisk
  BY <1>1 DEF IsRestore, NoRestore
<1> QED BY <1>2, <1>3, <1>4, EmptyDiskOK DEF BInv, DiskInv, Placed, RestoringInv

LEMMA NoBackupIs ==
  /\ NoBackup.at = "none" /\ NoBackup.zip = EmptyDisk
  /\ backup' = NoBackup => IsBackup'
BY DEF NoBackup, IsBackup

LEMMA NoRestoreIs ==
  /\ NoRestore.at = "none" /\ NoRestore.zip = EmptyDisk
  /\ restore' = NoRestore => IsRestore'
BY DEF NoRestore, IsRestore

LEMMA EngineBInv ==
  ASSUME BInv, EngineActs
  PROVE  BInv'
<1>1. /\ restore.at = "none" /\ Next
      /\ backup' = IF status' = "down" /\ backup.at = "copying" THEN NoBackup ELSE backup
      /\ UNCHANGED <<restore, failure>>
  BY DEF EngineActs
<1>2. DiskInv /\ DiskInv' /\ (DiskStep \/ status' = "down")
  BY <1>1, NextDisk DEF BInv
<1>3. lsn \in Nat /\ lsn' \in Nat /\ lsn <= lsn'
  <2>1. lsn' \in {lsn, lsn + 1}
    BY <1>1 DEF Next, Open, OpenRefused, Close, ProcessCrash, PowerLoss, Put, DeleteCheck, DeleteWrite, WriteEntry,
                RotateReopenFails, RotateCreateFails, WriteFails, CrashInWrite
  <2> QED BY <1>2, <2>1 DEF DiskInv
<1>4. /\ IsBackup' /\ IsDisk(backup'.zip) /\ Within(backup'.zip, lsn')
  <2>1. CASE backup' = NoBackup
    BY <2>1, NoBackupIs, EmptyDiskOK
  <2>2. CASE backup' = backup
    BY <1>3, <2>2, WithinGrows DEF BInv, IsBackup
  <2> QED BY <1>1, <2>1, <2>2
<1>5. /\ IsRestore' /\ IsDisk(restore'.zip) /\ Within(restore'.zip, lsn')
  BY <1>1, <1>3, WithinGrows DEF BInv, IsRestore
<1>6. ASSUME backup'.at = "copying", backup'.alone
      PROVE  CopyingInv'
  <2>1. backup' = backup /\ status' # "down"
    BY <1>1, <1>6, NoBackupIs
  <2> QED BY <1>2, <1>6, <2>1, CopyingStep DEF BInv
<1> QED BY <1>1, <1>2, <1>4, <1>5, <1>6 DEF BInv, RestoringInv

LEMMA BackupBInv ==
  ASSUME BInv, BackupBegin \/ BackupFails \/ BackupEnd \/ \E i \in backup.todo : BackupCopy(i)
  PROVE  BInv'
<1>1. UNCHANGED <<vars, restore, failure>>
  BY DEF BackupBegin, BackupFails, BackupEnd, BackupCopy
<1>2. UNCHANGED <<disk, status, activeFileID, activeOpen, lsn>>
  BY <1>1 DEF vars, engine
<1>3. DiskInv' /\ DiskInv /\ IsRestore' /\ IsDisk(restore'.zip) /\ Within(restore'.zip, lsn')
  BY <1>1, <1>2 DEF BInv, DiskInv, Placed, IsRestore
<1>4. RestoringInv => RestoringInv'
  BY <1>1, <1>2 DEF RestoringInv
<1>5. SUFFICES /\ IsBackup' /\ IsDisk(backup'.zip) /\ Within(backup'.zip, lsn')
               /\ backup'.at = "copying" /\ backup'.alone => restore.at = "none" /\ CopyingInv'
  BY <1>1, <1>2, <1>3, <1>4 DEF BInv
<1>6. CASE BackupBegin
  <2>1. backup' = [at |-> "copying", todo |-> DOMAIN disk, zip |-> EmptyDisk, from |-> lsn,
                   alone |-> restore.at = "none"]
    BY <1>6 DEF BackupBegin
  <2>2. /\ IsBackup' /\ backup'.zip = EmptyDisk /\ backup'.todo = DOMAIN disk /\ backup'.from = lsn
        /\ backup'.alone = (restore.at = "none")
    BY <2>1 DEF IsBackup
  <2>3. DOMAIN EmptyDisk = {}
    BY DEF EmptyDisk
  <2>4. ASSUME NEW i \in DOMAIN disk, NEW g \in disk[i].frags PROVE ~ (g.rec.lsn > lsn)
    <3>1. g.rec.lsn <= lsn /\ g.rec.lsn \in Nat /\ lsn \in Nat
      BY <1>3 DEF DiskInv, Within, IsDisk, File, Frag, Rec
    <3> QED BY <3>1
  <2>5. lsn \in Nat /\ lsn <= lsn
    BY <1>3 DEF DiskInv
  <2>6. CopyingInv'
    BY <1>2, <2>2, <2>3, <2>4, <2>5 DEF CopyingInv
  <2> QED BY <2>2, <2>6, EmptyDiskOK
<1>7. CASE BackupFails \/ BackupEnd
  <2>1. \/ backup' = [backup EXCEPT !.at = "done", !.todo = {}]
        \/ backup' = [backup EXCEPT !.at = "done"]
    BY <1>7 DEF BackupFails, BackupEnd
  <2>2. IsBackup' /\ backup'.at = "done" /\ backup'.zip = backup.zip
    <3>1. CASE backup' = [backup EXCEPT !.at = "done"]
      BY <3>1 DEF BInv, IsBackup
    <3>2. CASE backup' = [backup EXCEPT !.at = "done", !.todo = {}]
      <4>1. PICK b : b = [backup EXCEPT !.at = "done"]
        OBVIOUS
      <4>2. backup' = [b EXCEPT !.todo = {}]
        BY <3>2, <4>1
      <4> QED BY <4>1, <4>2 DEF BInv, IsBackup
    <3> QED BY <2>1, <3>1, <3>2
  <2> QED BY <1>2, <2>2 DEF BInv
<1>8. ASSUME NEW i \in backup.todo, BackupCopy(i)
      PROVE  /\ IsBackup' /\ IsDisk(backup'.zip) /\ Within(backup'.zip, lsn')
             /\ backup'.at = "copying" /\ backup'.alone => restore.at = "none" /\ CopyingInv'
  <2>1. PICK f \in Copies(i) : backup' = [backup EXCEPT !.todo = @ \ {i}, !.zip = WithFile(@, i, f)]
    BY <1>8 DEF BackupCopy
  <2>2. backup.at = "copying" /\ i \in DOMAIN disk
    BY <1>8 DEF BackupCopy
  <2>3. /\ IsBackup' /\ backup'.at = "copying" /\ backup'.todo = backup.todo \ {i}
        /\ backup'.zip = WithFile(backup.zip, i, f)
        /\ backup'.from = backup.from /\ backup'.alone = backup.alone
    <3>1. PICK b : b = [backup EXCEPT !.todo = @ \ {i}]
      OBVIOUS
    <3>2. backup' = [b EXCEPT !.zip = WithFile(backup.zip, i, f)]
      BY <2>1, <3>1
    <3> QED BY <2>2, <3>1, <3>2 DEF BInv, IsBackup
  <2>4. /\ i \in Nat /\ disk[i] \in File /\ Layout(disk[i]) /\ disk[i].size \in Nat
        /\ IsDisk(disk) /\ Within(disk, lsn)
    BY <1>3, <2>2 DEF DiskInv, IsDisk, File
  <2>5. ASSUME NEW g \in disk[i].frags
        PROVE  /\ g.off \in Nat /\ g.len \in Nat /\ g.len >= 1 /\ g.off + g.len <= disk[i].size
               /\ g.rec.lsn \in Nat
    BY <2>4 DEF File, Frag, Rec, Layout
  <2>6. \E n \in Nat : /\ n <= disk[i].size /\ f = Cut(disk[i], n)
                       /\ \/ n = disk[i].size
                          \/ \E g \in disk[i].frags : /\ g.rec.lsn > backup.from
                                                      /\ g.off <= n /\ n <= g.off + g.len
    <3>1. CASE f = Cut(disk[i], disk[i].size)
      BY <2>4, <3>1
    <3>2. ASSUME NEW g \in {h \in disk[i].frags : h.rec.lsn > backup.from},
                 f \in {Cut(disk[i], n) : n \in g.off .. g.off + g.len}
          PROVE  \E n \in Nat : /\ n <= disk[i].size /\ f = Cut(disk[i], n)
                                /\ g.off <= n /\ n <= g.off + g.len
      <4>1. PICK n \in g.off .. g.off + g.len : f = Cut(disk[i], n)
        BY <3>2
      <4>2. g.off \in Nat /\ g.len \in Nat /\ g.off + g.len <= disk[i].size
        BY <2>5
      <4>3. n \in Nat /\ n <= disk[i].size /\ g.off <= n /\ n <= g.off + g.len
        BY <2>4, <4>2
      <4> QED BY <4>1, <4>3
    <3>3. \/ f = Cut(disk[i], disk[i].size)
          \/ \E g \in {h \in disk[i].frags : h.rec.lsn > backup.from} :
               f \in {Cut(disk[i], n) : n \in g.off .. g.off + g.len}
      BY <2>1 DEF Copies
    <3> QED BY <3>1, <3>2, <3>3
  <2>7. PICK n \in Nat : /\ n <= disk[i].size /\ f = Cut(disk[i], n)
                         /\ \/ n = disk[i].size
                            \/ \E g \in disk[i].frags : /\ g.rec.lsn > backup.from
                                                        /\ g.off <= n /\ n <= g.off + g.len
    BY <2>6
  <2>8. IsDisk(backup'.zip) /\ Within(backup'.zip, lsn')
    <3>1. f \in File /\ Layout(f) /\ \A g \in f.frags : g.rec.lsn <= lsn
      BY <2>2, <2>4, <2>7, CutWithin
    <3> QED BY <1>2, <2>3, <2>4, <3>1, WithFileWithin DEF BInv
  <2>9. ASSUME backup.alone PROVE restore.at = "none" /\ CopyingInv'
    <3>1. restore.at = "none" /\ CopyingInv
      BY <2>2, <2>9 DEF BInv
    <3>2. ASSUME NEW g \in disk[i].frags, g.rec.lsn <= backup.from PROVE g.off + g.len <= n
      <4>1. CASE n = disk[i].size
        BY <2>5, <4>1
      <4>2. CASE \E h \in disk[i].frags : h.rec.lsn > backup.from /\ h.off <= n /\ n <= h.off + h.len
        <5>1. PICK h \in disk[i].frags : h.rec.lsn > backup.from /\ h.off <= n /\ n <= h.off + h.len
          BY <4>2
        <5>2. backup.from \in Nat
          BY <3>1 DEF CopyingInv
        <5>3. g # h
          BY <2>5, <3>2, <5>1, <5>2
        <5>4. g.off + g.len <= h.off \/ h.off + h.len <= g.off
          BY <2>4, <5>3 DEF Layout
        <5>5. h.off < g.off => h.rec.lsn < g.rec.lsn
          BY <2>2, <3>1, <5>1 DEF CopyingInv
        <5> QED BY <2>5, <3>2, <5>1, <5>2, <5>4, <5>5
      <4> QED BY <2>7, <4>1, <4>2
    <3>3. CopyOf(f, disk[i], backup.from)
      BY <2>7, <3>2 DEF CopyOf
    <3>4. DOMAIN backup'.zip = DOMAIN backup.zip \cup {i}
      BY <2>3 DEF WithFile
    <3>5. backup'.todo \cup DOMAIN backup'.zip = backup.todo \cup DOMAIN backup.zip
      BY <2>3, <3>4
    <3>6. \A j \in DOMAIN backup'.zip : CopyOf(backup'.zip[j], disk[j], backup.from)
      BY <2>3, <3>1, <3>3, <3>4 DEF WithFile, CopyingInv
    <3>7. CopyingInv'
      BY <1>2, <2>3, <3>1, <3>5, <3>6 DEF CopyingInv
    <3> QED BY <3>1, <3>7
  <2> QED BY <2>3, <2>8, <2>9
<1> QED BY <1>6, <1>7, <1>8

\* The steps of a restore change no record number and no archive.
LEMMA RestoreBeginBInv ==
  ASSUME BInv, RestoreBegin
  PROVE  BInv'
<1>1. /\ restore.at = "none" /\ backup.at = "done"
      /\ restore' = [at |-> "checking", zip |-> backup.zip, todo |-> {}, before |-> Recovered(disk)]
      /\ UNCHANGED <<backup, failure>> /\ (Close \/ (UNCHANGED vars /\ status = "closed"))
  BY DEF RestoreBegin, archive
<1>2. /\ IsRestore' /\ restore'.at = "checking" /\ restore'.zip = backup.zip
      /\ restore'.before = Recovered(disk)
  BY <1>1 DEF IsRestore
<1>3. DiskInv' /\ IsDisk(disk') /\ SameRecords(disk, disk') /\ activeOpen' = FALSE /\ UNCHANGED lsn
  <2>1. CASE Close
    <3>1. UNCHANGED lsn
      BY <2>1 DEF Close
    <3> QED BY <2>1, <3>1, CloseStep DEF BInv, DiskInv
  <2>2. CASE UNCHANGED vars /\ status = "closed"
    <3>1. UNCHANGED <<disk, status, activeFileID, activeOpen, lsn>>
      BY <2>2 DEF vars, engine
    <3> QED BY <2>2, <3>1 DEF BInv, DiskInv, Placed, SameRecords
  <2> QED BY <1>1, <2>1, <2>2
<1>4. Recovered(disk') = restore'.before
  BY <1>2, <1>3, SameRecordsRecovered DEF BInv, DiskInv
<1> QED BY <1>1, <1>2, <1>3, <1>4 DEF BInv, IsBackup, RestoringInv

LEMMA RestoreCloseFailsBInv ==
  ASSUME BInv, RestoreCloseFails
  PROVE  BInv'
<1>1. /\ restore.at = "none" /\ backup.at = "done"
      /\ UNCHANGED <<backup, restore, failure, lsn>> /\ activeOpen' = FALSE
  BY DEF RestoreCloseFails, archive
<1>2. DiskInv'
  <2>1. CASE disk' = disk
    <3>1. status' = "closed" /\ UNCHANGED <<activeFileID, lsn>>
      BY DEF RestoreCloseFails
    <3> QED BY <1>1, <2>1, <3>1 DEF BInv, DiskInv, Placed
  <2>2. CASE disk' # disk
    <3>1. Close /\ UNCHANGED lsn
      BY <2>2 DEF RestoreCloseFails, SyncedActive, Close
    <3> QED BY <3>1, CloseStep DEF BInv, DiskInv
  <2> QED BY <2>1, <2>2
<1> QED BY <1>1, <1>2 DEF BInv, IsBackup, IsRestore, RestoringInv

\* A restore at another place.
LEMMA RestoreAt ==
  ASSUME IsRestore, NEW a, NEW t,
         \/ restore' = [restore EXCEPT !.at = a, !.todo = t]
         \/ restore' = [restore EXCEPT !.at = a] /\ t = restore.todo
         \/ restore' = [restore EXCEPT !.todo = t] /\ a = restore.at
  PROVE  /\ IsRestore' /\ restore'.at = a /\ restore'.todo = t
         /\ restore'.zip = restore.zip /\ restore'.before = restore.before
<1>1. restore' = [at |-> a, zip |-> restore.zip, todo |-> t, before |-> restore.before]
  <2>1. CASE restore' = [restore EXCEPT !.at = a, !.todo = t]
    <3>1. PICK b : b = [restore EXCEPT !.at = a]
      OBVIOUS
    <3>2. restore' = [b EXCEPT !.todo = t]
      BY <2>1, <3>1
    <3>3. b = [at |-> a, zip |-> restore.zip, todo |-> restore.todo, before |-> restore.before]
      BY <3>1 DEF IsRestore
    <3> QED BY <3>2, <3>3
  <2>2. CASE restore' = [restore EXCEPT !.at = a] /\ t = restore.todo
    BY <2>2 DEF IsRestore
  <2>3. CASE restore' = [restore EXCEPT !.todo = t] /\ a = restore.at
    BY <2>3 DEF IsRestore
  <2> QED BY <2>1, <2>2, <2>3
<1> QED BY <1>1 DEF IsRestore

LEMMA RestoreMovesBInv ==
  ASSUME BInv, RestoreRejected \/ RestoreAccepted \/ RestoreRemoved
  PROVE  BInv'
<1>1. UNCHANGED <<vars, backup, failure>> /\ restore.at \in {"checking", "removing"}
  BY DEF RestoreRejected, RestoreAccepted, RestoreRemoved, archive
<1>2. UNCHANGED <<disk, status, activeFileID, activeOpen, lsn>>
  BY <1>1 DEF vars, engine
<1>3. DiskInv' /\ IsBackup' /\ IsRestore
  BY <1>1, <1>2 DEF BInv, DiskInv, Placed, IsBackup
<1>4. CASE RestoreRejected
  <2>1. restore.at = "checking" /\ restore' = [restore EXCEPT !.at = "giveUp"]
    BY <1>4 DEF RestoreRejected
  <2>2. IsRestore' /\ restore'.at = "giveUp" /\ restore'.zip = restore.zip /\ restore'.before = restore.before
    BY <1>3, <2>1, RestoreAt
  <2> QED BY <1>1, <1>2, <1>3, <2>1, <2>2 DEF BInv, RestoringInv
<1>5. CASE RestoreAccepted
  <2>1. restore.at = "checking" /\ restore' = [restore EXCEPT !.at = "removing", !.todo = DOMAIN disk]
    BY <1>5 DEF RestoreAccepted
  <2>2. IsRestore' /\ restore'.at = "removing" /\ restore'.zip = restore.zip /\ restore'.todo = DOMAIN disk
    BY <1>3, <2>1, RestoreAt
  <2> QED BY <1>1, <1>2, <1>3, <2>1, <2>2 DEF BInv, RestoringInv
<1>6. CASE RestoreRemoved
  <2>1. /\ restore.at = "removing" /\ restore.todo = {}
        /\ restore' = [restore EXCEPT !.at = "extracting", !.todo = DOMAIN restore.zip]
    BY <1>6 DEF RestoreRemoved
  <2>2. /\ IsRestore' /\ restore'.at = "extracting" /\ restore'.zip = restore.zip
        /\ restore'.todo = DOMAIN restore.zip
    BY <1>3, <2>1, RestoreAt
  <2> QED BY <1>1, <1>2, <1>3, <2>1, <2>2 DEF BInv, RestoringInv
<1> QED BY <1>4, <1>5, <1>6

LEMMA RestoreRemoveBInv ==
  ASSUME BInv, NEW i \in restore.todo, RestoreRemove(i)
  PROVE  BInv'
<1>1. /\ restore.at = "removing" /\ restore' = [restore EXCEPT !.todo = restore.todo \ {i}]
      /\ UNCHANGED <<status, activeOpen, lsn, backup>>
      /\ \/ disk' = [j \in DOMAIN disk \ {i} |-> disk[j]] /\ UNCHANGED failure
         \/ failure' = "leftover" /\ UNCHANGED disk
  BY DEF RestoreRemove, archive, engine
<1>2. /\ IsRestore' /\ restore'.at = "removing" /\ restore'.todo = restore.todo \ {i}
      /\ restore'.zip = restore.zip
  BY <1>1, RestoreAt DEF BInv
<1>3. /\ DOMAIN disk' \subseteq DOMAIN disk /\ \A j \in DOMAIN disk' : disk'[j] = disk[j]
      /\ disk' = [j \in DOMAIN disk' |-> disk'[j]]
  BY <1>1 DEF BInv, DiskInv, IsDisk
<1>4. IsDisk(disk') /\ Within(disk', lsn)
  BY <1>3 DEF BInv, DiskInv, IsDisk, Within
<1>5. DiskInv'
  BY <1>1, <1>4 DEF BInv, DiskInv, Placed
<1>6. failure' = "none" => DOMAIN disk' \subseteq restore'.todo
  BY <1>1, <1>2 DEF BInv, RestoringInv
<1> QED BY <1>1, <1>2, <1>5, <1>6 DEF BInv, IsBackup, RestoringInv

\* What is not synced holds the same records.
LEMMA ExtractedIs ==
  ASSUME NEW f \in File, Layout(f)
  PROVE  /\ Extracted(f) \in File /\ Layout(Extracted(f)) /\ Extracted(f).frags = f.frags
         /\ Scanned(Extracted(f)) = Scanned(f)
<1>1. /\ Extracted(f) \in File /\ Extracted(f).frags = f.frags /\ Extracted(f).size = f.size
      /\ Extracted(f).synced = 0 /\ f.size \in Nat
  BY DEF Extracted, File
<1>2. Layout(Extracted(f))
  BY <1>1 DEF Layout
<1>3. Scanned(Extracted(f)) = Scanned(f)
  BY <1>1 DEF Scanned, Torn
<1> QED BY <1>1, <1>2, <1>3

\* Every file that is extracted is one of the archive, or the beginning of one.
LEMMA ExtractedBInv ==
  ASSUME BInv, NEW i \in restore.todo, restore.at = "extracting",
         NEW n \in Nat, n <= restore.zip[i].size,
         NEW f, f = restore.zip[i] \/ f = Cut(restore.zip[i], n),
         disk' = WithFile(disk, i, Extracted(f)),
         UNCHANGED <<status, activeOpen, lsn>>
  PROVE  DiskInv' /\ i \in DOMAIN restore.zip
<1>1. i \in DOMAIN restore.zip /\ IsDisk(restore.zip) /\ Within(restore.zip, lsn)
  BY DEF BInv
<1>2. i \in Nat /\ f \in File /\ Layout(f) /\ \A g \in f.frags : g.rec.lsn <= lsn
  <2>1. CASE f = restore.zip[i]
    BY <1>1, <2>1 DEF IsDisk, Within
  <2>2. CASE f = Cut(restore.zip[i], n)
    <3>1. i \in Nat
      BY <1>1 DEF IsDisk
    <3> QED BY <1>1, <2>2, <3>1, CutWithin
  <2> QED BY <2>1, <2>2
<1>3. IsDisk(disk') /\ Within(disk', lsn)
  <2>1. PICK e : e = Extracted(f)
    OBVIOUS
  <2>2. e \in File /\ Layout(e) /\ \A g \in e.frags : g.rec.lsn <= lsn
    BY <1>2, <2>1, ExtractedIs
  <2> QED BY <1>2, <2>1, <2>2, WithFileWithin DEF BInv, DiskInv
<1> QED BY <1>1, <1>3 DEF BInv, DiskInv, Placed

LEMMA RestoreExtractBInv ==
  ASSUME BInv, NEW i \in restore.todo, RestoreExtract(i)
  PROVE  BInv'
<1>1. /\ restore.at = "extracting" /\ restore' = [restore EXCEPT !.todo = restore.todo \ {i}]
      /\ disk' = WithFile(disk, i, Extracted(restore.zip[i]))
      /\ UNCHANGED <<status, activeOpen, lsn, backup, failure>>
  BY DEF RestoreExtract, archive, engine
<1>2. /\ IsRestore' /\ restore'.at = "extracting" /\ restore'.todo = restore.todo \ {i}
      /\ restore'.zip = restore.zip
  BY <1>1, RestoreAt DEF BInv
<1>3. i \in DOMAIN restore.zip /\ 0 <= restore.zip[i].size
  BY <1>1 DEF BInv, IsDisk, File
<1>4. DiskInv'
  BY <1>1, <1>3, ExtractedBInv
<1>5. DOMAIN disk' = DOMAIN disk \cup {i} /\ \A j \in DOMAIN disk' : disk'[j] = IF j = i THEN Extracted(restore.zip[i]) ELSE disk[j]
  BY <1>1 DEF WithFile
<1>6. failure = "none" => /\ DOMAIN disk' = DOMAIN restore.zip \ restore'.todo
                          /\ \A j \in DOMAIN disk' : disk'[j] = Extracted(restore.zip[j])
  BY <1>1, <1>2, <1>3, <1>5 DEF BInv, RestoringInv
<1> QED BY <1>1, <1>2, <1>4, <1>6 DEF BInv, IsBackup, RestoringInv

LEMMA RestoreExtractFailsBInv ==
  ASSUME BInv, NEW i \in restore.todo, NEW n, RestoreExtractFails(i, n)
  PROVE  BInv'
<1>1. /\ restore.at = "extracting" /\ restore' = [restore EXCEPT !.at = "giveUp"]
      /\ n \in 0 .. restore.zip[i].size /\ disk' = WithFile(disk, i, Extracted(Cut(restore.zip[i], n)))
      /\ failure' = "extract" /\ UNCHANGED <<status, activeOpen, lsn, backup>>
  BY DEF RestoreExtractFails, archive, engine
<1>2. /\ IsRestore' /\ restore'.at = "giveUp" /\ restore'.zip = restore.zip
  BY <1>1, RestoreAt DEF BInv
<1>3. n \in Nat /\ n <= restore.zip[i].size
  <2>1. i \in DOMAIN restore.zip /\ restore.zip[i].size \in Nat
    BY <1>1 DEF BInv, IsDisk, File
  <2> QED BY <1>1, <2>1
<1>4. DiskInv'
  BY <1>1, <1>3, ExtractedBInv
<1> QED BY <1>1, <1>2, <1>4 DEF BInv, IsBackup

LEMMA RestoreEndsBInv ==
  ASSUME BInv, RestoreReopen \/ RestoreReloadFails \/ RestoreCrash
  PROVE  BInv'
<1>1. restore' = NoRestore /\ UNCHANGED lsn
  BY DEF RestoreReopen, RestoreReloadFails, RestoreCrash, vars
<1>2. IsRestore' /\ restore'.at = "none" /\ restore'.zip = EmptyDisk
  BY <1>1, NoRestoreIs
<1>3. restore.at # "none"
  BY DEF RestoreReopen, RestoreReloadFails, RestoreCrash
<1>4. DiskInv'
  <2>1. CASE RestoreReopen
    <3>1. PICK id \in IF DOMAIN disk = {} THEN {0}
                      ELSE {i \in DOMAIN disk : \A j \in DOMAIN disk : j <= i} :
            disk' = WithFile(disk, id, FileAt(disk, id)) /\ activeFileID' = id
      BY <2>1 DEF RestoreReopen
    <3>2. activeOpen' = TRUE /\ status' = "open"
      BY <2>1 DEF RestoreReopen
    <3> QED BY <1>1, <3>1, <3>2, OpenedStep DEF BInv
  <2>2. CASE RestoreReloadFails
    BY <2>2 DEF RestoreReloadFails, vars, engine, BInv, DiskInv, Placed
  <2>3. CASE RestoreCrash
    BY <2>3 DEF RestoreCrash, Crashed, BInv, DiskInv, Placed
  <2> QED BY <2>1, <2>2, <2>3
<1>5. backup' = backup \/ (backup' = NoBackup)
  BY DEF RestoreReopen, RestoreReloadFails, RestoreCrash, archive
<1>6. /\ IsBackup' /\ IsDisk(backup'.zip) /\ Within(backup'.zip, lsn')
      /\ ~ (backup'.at = "copying" /\ backup'.alone)
  <2>1. CASE backup' = NoBackup
    BY <2>1, NoBackupIs, EmptyDiskOK
  <2>2. CASE backup' = backup
    BY <1>1, <1>3, <2>2 DEF BInv, IsBackup
  <2> QED BY <1>5, <2>1, <2>2
<1> QED BY <1>2, <1>4, <1>6, EmptyDiskOK DEF BInv, RestoringInv

LEMMA BackupNextBInv == BInv /\ [BackupNext]_bvars => BInv'
<1> SUFFICES ASSUME BInv, [BackupNext]_bvars PROVE BInv'
  OBVIOUS
<1>1. CASE UNCHANGED bvars
  <2>1. UNCHANGED <<disk, status, activeFileID, activeOpen, lsn, backup, restore, failure>>
    BY <1>1 DEF bvars, vars, engine
  <2> QED BY <2>1 DEF BInv, DiskInv, Placed, IsBackup, IsRestore, CopyingInv, RestoringInv
<1>2. CASE EngineActs
  BY <1>2, EngineBInv
<1>3. CASE BackupBegin \/ BackupFails \/ BackupEnd \/ \E i \in backup.todo : BackupCopy(i)
  BY <1>3, BackupBInv
<1>4. CASE RestoreBegin \/ RestoreCloseFails
  BY <1>4, RestoreBeginBInv, RestoreCloseFailsBInv
<1>5. CASE RestoreRejected \/ RestoreAccepted \/ RestoreRemoved
  BY <1>5, RestoreMovesBInv
<1>6. CASE RestoreReopen \/ RestoreReloadFails \/ RestoreCrash
  BY <1>6, RestoreEndsBInv
<1>7. ASSUME NEW i \in restore.todo, RestoreRemove(i) PROVE BInv'
  BY <1>7, RestoreRemoveBInv
<1>8. ASSUME NEW i \in restore.todo, RestoreExtract(i) PROVE BInv'
  BY <1>8, RestoreExtractBInv
<1>9. ASSUME NEW i \in restore.todo, NEW n, RestoreExtractFails(i, n) PROVE BInv'
  BY <1>9, RestoreExtractFailsBInv
<1> QED BY <1>1, <1>2, <1>3, <1>4, <1>5, <1>6, <1>7, <1>8, <1>9 DEF BackupNext

LEMMA BackupInvariant == BackupSpec => []BInv
<1>1. BackupInit => BInv
  BY InitBInv
<1>2. BInv /\ [BackupNext]_bvars => BInv'
  BY BackupNextBInv
<1> QED BY <1>1, <1>2, PTL DEF BackupSpec

\* A disk with the same files, one of them perhaps new and empty.
LEMMA ReopenedRecords ==
  ASSUME BInv, RestoreReopen
  PROVE  Recovered(disk') = Recovered(disk) /\ keyDir' = LoadDir(disk)
<1>1. PICK id \in IF DOMAIN disk = {} THEN {0}
                  ELSE {i \in DOMAIN disk : \A j \in DOMAIN disk : j <= i} :
        disk' = WithFile(disk, id, FileAt(disk, id)) /\ activeFileID' = id
  BY DEF RestoreReopen
<1>2. activeOpen' = TRUE /\ status' = "open" /\ UNCHANGED lsn /\ keyDir' = LoadDir(disk)
  BY DEF RestoreReopen
<1>3. SameRecords(disk, disk') /\ IsDisk(disk') /\ IsDisk(disk)
  BY <1>1, <1>2, OpenedStep DEF BInv, DiskInv
<1> QED BY <1>2, <1>3, SameRecordsRecovered

\* A restore that met no failure leaves the archive and nothing else: the store is
\* what the archive holds, and the index of the new engine is that of the archive
\* (RestoreBackupZip, handleRestore).
THEOREM RestoreGives == BackupSpec => RestoreGivesArchive
<1>1. ASSUME BInv, RestoreReopen, restore.at = "extracting", failure = "none"
      PROVE  Recovered(disk') = Recovered(restore.zip) /\ keyDir' = LoadDir(restore.zip)
  <2>1. restore.todo = {}
    BY <1>1 DEF RestoreReopen
  <2>2. DOMAIN disk = DOMAIN restore.zip /\ \A i \in DOMAIN disk : disk[i] = Extracted(restore.zip[i])
    BY <1>1, <2>1 DEF BInv, RestoringInv
  <2>3. \A i \in DOMAIN disk : Scanned(disk[i]) = Scanned(restore.zip[i])
    BY <1>1, <2>2, ExtractedIs DEF BInv, IsDisk
  <2>4. Sites(disk) = Sites(restore.zip)
    BY <2>2, <2>3 DEF Sites
  <2>5. LoadDir(disk) = LoadDir(restore.zip) /\ Recovered(disk) = Recovered(restore.zip)
    BY <2>4 DEF LoadDir, Recovered, IsLatest
  <2> QED BY <1>1, <2>5, ReopenedRecords
<1>2. BInv /\ [BackupNext]_bvars =>
        [RestoreReopen /\ restore.at = "extracting" /\ failure = "none" =>
           /\ Recovered(disk') = Recovered(restore.zip)
           /\ keyDir' = LoadDir(restore.zip)]_bvars
  BY <1>1
<1> QED BY <1>2, BackupInvariant, PTL DEF BackupSpec, RestoreGivesArchive

\* A refused archive leaves the store as it was: nothing is removed before the
\* archive is validated (RestoreBackupZip).
THEOREM RejectedKeeps == BackupSpec => RejectedRestoreKeepsData
<1>1. ASSUME BInv, RestoreReopen, restore.at = "giveUp", failure = "none"
      PROVE  Recovered(disk') = restore.before
  BY <1>1, ReopenedRecords DEF BInv, RestoringInv
<1>2. BInv /\ [BackupNext]_bvars =>
        [RestoreReopen /\ restore.at = "giveUp" /\ failure = "none" => Recovered(disk') = restore.before]_bvars
  BY <1>1
<1> QED BY <1>2, BackupInvariant, PTL DEF BackupSpec, RejectedRestoreKeepsData

\* What an archive holds of a file, and what it misses.
LEMMA CopiedScan ==
  ASSUME NEW d, IsDisk(d), NEW i \in DOMAIN d, NEW f, NEW l, CopyOf(f, d[i], l)
  PROVE  \E n \in Nat : /\ Scanned(f) = {g \in Scanned(d[i]) : g.off + g.len <= n}
                        /\ \A g \in d[i].frags : g.rec.lsn <= l => g.off + g.len <= n
<1>1. PICK n \in Nat : /\ n <= d[i].size /\ f = Cut(d[i], n)
                       /\ \A g \in d[i].frags : g.rec.lsn <= l => g.off + g.len <= n
  BY DEF CopyOf
<1>2. d[i] \in File /\ Layout(d[i])
  BY DEF IsDisk
<1>3. Scanned(Cut(d[i], n)) = {g \in Scanned(d[i]) : g.off + g.len <= n}
  BY <1>1, <1>2, CutScanned
<1> QED BY <1>1, <1>3

LEMMA LoggedAt ==
  ASSUME NEW d, NEW r
  PROVE  r \in Logged(d) <=> \E i \in DOMAIN d : \E g \in Scanned(d[i]) : g.rec = r
<1>1. ASSUME r \in Logged(d) PROVE \E i \in DOMAIN d : \E g \in Scanned(d[i]) : g.rec = r
  <2>1. PICK s \in Sites(d) : s.rec = r
    BY <1>1 DEF Logged
  <2> QED BY <2>1, SitesDef
<1>2. ASSUME NEW i \in DOMAIN d, NEW g \in Scanned(d[i]), g.rec = r PROVE r \in Logged(d)
  <2>1. [file |-> i, off |-> g.off, rec |-> g.rec] \in Sites(d)
    BY SitesDef
  <2> QED BY <1>2, <2>1 DEF Logged
<1> QED BY <1>1, <1>2

\* A record that a complete archive misses was written after the backup began ...
LEMMA MissedIsNew ==
  ASSUME DiskInv, CopyingInv, backup.todo = {}, NEW j \in DOMAIN disk, NEW h \in Scanned(disk[j]),
         h.rec \notin Logged(backup.zip)
  PROVE  h.rec.lsn > backup.from
<1> DEFINE z == backup.zip
<1>1. /\ backup.from \in Nat
      /\ \A i \in DOMAIN disk \ DOMAIN z : \A g \in disk[i].frags : g.rec.lsn > backup.from
      /\ \A i \in DOMAIN z : CopyOf(z[i], disk[i], backup.from)
  BY DEF CopyingInv
<1>2. h \in disk[j].frags /\ h.rec.lsn \in Nat
  BY DEF Scanned, DiskInv, IsDisk, File, Frag, Rec
<1>3. CASE j \in DOMAIN z
  <2>1. h \notin Scanned(z[j])
    BY <1>3, LoggedAt
  <2>2. CopyOf(z[j], disk[j], backup.from)
    BY <1>1, <1>3
  <2>3. PICK m \in Nat : /\ Scanned(z[j]) = {y \in Scanned(disk[j]) : y.off + y.len <= m}
                         /\ \A y \in disk[j].frags : y.rec.lsn <= backup.from => y.off + y.len <= m
    BY <2>2, CopiedScan DEF DiskInv
  <2>4. ~ (h.off + h.len <= m)
    BY <2>1, <2>3
  <2>5. ~ (h.rec.lsn <= backup.from)
    BY <1>2, <2>3, <2>4
  <2> QED BY <1>1, <1>2, <2>5
<1>4. CASE j \notin DOMAIN z
  BY <1>1, <1>2, <1>4
<1> QED BY <1>3, <1>4

\* ... and after every record that it holds.
LEMMA MissedIsLater ==
  ASSUME DiskInv, CopyingInv, backup.todo = {},
         NEW r \in Logged(backup.zip), NEW x \in Logged(disk), x \notin Logged(backup.zip)
  PROVE  r \in Logged(disk) /\ r.lsn < x.lsn
<1> DEFINE z == backup.zip
<1>1. /\ backup.from \in Nat /\ DOMAIN z \subseteq DOMAIN disk /\ DOMAIN disk \subseteq Nat
      /\ \A i \in DOMAIN disk \ DOMAIN z : \A g \in disk[i].frags : g.rec.lsn > backup.from
      /\ \A i \in DOMAIN disk : \A g \in disk[i].frags : g.rec.lsn > backup.from => \A j \in DOMAIN z : j <= i
      /\ \A i, j \in DOMAIN disk : \A g \in disk[i].frags, h \in disk[j].frags :
           (g.rec.lsn > backup.from \/ h.rec.lsn > backup.from) /\ (i < j \/ (i = j /\ g.off < h.off))
             => g.rec.lsn < h.rec.lsn
      /\ \A i \in DOMAIN z : CopyOf(z[i], disk[i], backup.from)
  BY DEF CopyingInv, DiskInv, IsDisk
<1>2. PICK i \in DOMAIN z : \E g \in Scanned(z[i]) : g.rec = r
  BY LoggedAt
<1>3. PICK g \in Scanned(z[i]) : g.rec = r
  BY <1>2
<1>4. PICK j \in DOMAIN disk : \E h \in Scanned(disk[j]) : h.rec = x
  BY LoggedAt
<1>5. PICK h \in Scanned(disk[j]) : h.rec = x
  BY <1>4
<1>6. i \in DOMAIN disk /\ CopyOf(z[i], disk[i], backup.from)
  BY <1>1
<1>7. PICK n \in Nat : /\ Scanned(z[i]) = {y \in Scanned(disk[i]) : y.off + y.len <= n}
                       /\ \A y \in disk[i].frags : y.rec.lsn <= backup.from => y.off + y.len <= n
  BY <1>6, CopiedScan DEF DiskInv
<1>8. g \in Scanned(disk[i]) /\ g \in disk[i].frags /\ h \in disk[j].frags /\ g.off + g.len <= n
  BY <1>3, <1>5, <1>7 DEF Scanned
<1>9. /\ g.off \in Nat /\ g.len \in Nat /\ g.len >= 1 /\ g.rec.lsn \in Nat
      /\ h.off \in Nat /\ h.len \in Nat /\ h.len >= 1 /\ h.rec.lsn \in Nat
      /\ i \in Nat /\ j \in Nat
  BY <1>1, <1>6, <1>8 DEF DiskInv, IsDisk, File, Frag, Rec, Layout
<1>10. h.rec.lsn > backup.from
  BY <1>5, MissedIsNew
<1>11. i <= j
  BY <1>1, <1>8, <1>10
<1>12. g.rec.lsn < h.rec.lsn
  <2>1. CASE i # j
    BY <1>1, <1>6, <1>8, <1>9, <1>10, <1>11, <2>1
  <2>2. CASE i = j
    <3>1. h \notin Scanned(z[i])
      BY <1>5, <2>2, LoggedAt
    <3>2. ~ (h.off + h.len <= n)
      BY <1>5, <1>7, <2>2, <3>1
    <3>3. g = h \/ g.off + g.len <= h.off \/ h.off + h.len <= g.off
      BY <1>6, <1>8, <2>2 DEF DiskInv, IsDisk, Layout
    <3>4. g.off < h.off
      BY <1>8, <1>9, <3>2, <3>3
    <3> QED BY <1>1, <1>6, <1>8, <1>10, <2>2, <3>4
  <2> QED BY <2>1, <2>2
<1>13. r \in Logged(disk)
  BY <1>3, <1>6, <1>8, LoggedAt
<1> QED BY <1>3, <1>5, <1>10, <1>12, <1>13

\* The archive of a backup is the log of one moment after it began, however the
\* copying of its files and the engine's writers, rotations, failures and power
\* loss interleave: nothing locks the engine (CreateBackupZip, handleBackup).
THEOREM BackupIsOneMoment == BackupSpec => BackupIsPointInTime
<1>1. ASSUME BInv, BackupEnd, backup.alone, restore.at = "none"
      PROVE  \E l \in backup.from .. lsn : Logged(backup.zip) = {r \in Logged(disk) : r.lsn <= l}
  <2>1. DiskInv /\ CopyingInv /\ backup.todo = {}
    BY <1>1 DEF BInv, BackupEnd
  <2>2. backup.from \in Nat /\ lsn \in Nat /\ backup.from <= lsn
    BY <2>1 DEF CopyingInv, DiskInv
  <2>3. \A r \in Logged(disk) : r.lsn \in Nat /\ r.lsn <= lsn
    <3>1. ASSUME NEW r \in Logged(disk) PROVE r.lsn \in Nat /\ r.lsn <= lsn
      <4>1. PICK i \in DOMAIN disk : \E g \in Scanned(disk[i]) : g.rec = r
        BY LoggedAt
      <4>2. PICK g \in disk[i].frags : g.rec = r
        BY <4>1 DEF Scanned
      <4>3. disk[i] \in File /\ g.rec.lsn <= lsn
        BY <2>1 DEF DiskInv, Within, IsDisk
      <4> QED BY <4>2, <4>3 DEF File, Frag, Rec
    <3> QED BY <3>1
  <2>4. Logged(backup.zip) \subseteq Logged(disk)
    <3>1. ASSUME NEW r \in Logged(backup.zip) PROVE r \in Logged(disk)
      <4>1. PICK i \in DOMAIN backup.zip : \E g \in Scanned(backup.zip[i]) : g.rec = r
        BY LoggedAt
      <4>2. i \in DOMAIN disk /\ CopyOf(backup.zip[i], disk[i], backup.from)
        BY <2>1 DEF CopyingInv
      <4>3. \A g \in Scanned(backup.zip[i]) : g \in Scanned(disk[i])
        BY <2>1, <4>2, CopiedScan DEF DiskInv
      <4> QED BY <4>1, <4>2, <4>3, LoggedAt
    <3> QED BY <3>1
  <2>5. PICK M : M = {r.lsn : r \in Logged(disk) \ Logged(backup.zip)}
    OBVIOUS
  <2>6. CASE M = {}
    <3>1. Logged(disk) = Logged(backup.zip)
      BY <2>4, <2>5, <2>6
    <3>2. lsn \in backup.from .. lsn
      BY <2>2
    <3> QED BY <2>3, <3>1, <3>2
  <2>7. CASE M # {}
    <3>1. M \in SUBSET Nat
      BY <2>3, <2>5
    <3>2. PICK m \in M : \A y \in M : m <= y
      BY <2>7, <3>1, Least
    <3>3. PICK x \in Logged(disk) \ Logged(backup.zip) : x.lsn = m
      BY <2>5, <3>2
    <3>4. m \in Nat /\ m <= lsn
      BY <2>3, <3>3
    <3>5. backup.from < m
      <4>1. PICK j \in DOMAIN disk : \E h \in Scanned(disk[j]) : h.rec = x
        BY LoggedAt
      <4>2. PICK h \in Scanned(disk[j]) : h.rec = x
        BY <4>1
      <4>3. h.rec.lsn > backup.from
        BY <2>1, <3>3, <4>2, MissedIsNew
      <4> QED BY <2>2, <3>3, <3>4, <4>2, <4>3
    <3>6. ASSUME NEW r \in Logged(backup.zip) PROVE r \in Logged(disk) /\ r.lsn <= m - 1
      <4>1. r \in Logged(disk) /\ r.lsn < m
        BY <2>1, <3>3, MissedIsLater
      <4> QED BY <2>3, <3>4, <4>1
    <3>7. ASSUME NEW r \in Logged(disk), r.lsn <= m - 1 PROVE r \in Logged(backup.zip)
      <4>1. SUFFICES ASSUME r \notin Logged(backup.zip) PROVE FALSE
        OBVIOUS
      <4>2. m <= r.lsn
        BY <2>5, <3>2, <4>1
      <4> QED BY <2>3, <3>4, <3>7, <4>2
    <3>8. Logged(backup.zip) = {r \in Logged(disk) : r.lsn <= m - 1}
      BY <3>6, <3>7
    <3>9. m - 1 \in backup.from .. lsn
      BY <2>2, <3>4, <3>5
    <3> QED BY <3>8, <3>9
  <2> QED BY <2>6, <2>7
<1>2. BInv /\ [BackupNext]_bvars =>
        [BackupEnd /\ backup.alone /\ restore.at = "none" =>
           \E l \in backup.from .. lsn :
             Logged(backup.zip) = {r \in Logged(disk) : r.lsn <= l}]_bvars
  BY <1>1
<1> QED BY <1>2, BackupInvariant, PTL DEF BackupSpec, BackupIsPointInTime

================================================================================
