------------------------------ MODULE BitcaskFile ------------------------------
(***************************************************************************)
(* The data files of the storage engine (internal/engine/entry.go and the  *)
(* scan loop of bitcask.go).  A file is the set of fragments written to    *)
(* it; a fragment is the prefix of one encoded record that reached the     *)
(* file.  Bytes are abstracted to offsets and lengths: a read succeeds     *)
(* exactly when the bytes it covers are one whole record, which is what    *)
(* the CRC over the buffer establishes.  No operator here is RECURSIVE, so *)
(* proof modules may extend this one.                                      *)
(***************************************************************************)
EXTENDS Integers, FiniteSets

CONSTANTS
  Keys,         \* the keys clients use
  Values,       \* the values clients store
  NoValue,      \* "absent": the value of a tombstone and of a missing key
  KeySize,      \* encoded length of each key
  ValSize,      \* encoded length of each value
  HeaderSize,   \* 21 in the code; smaller in the models
  MaxFileSize   \* size at which writeEntry rotates

ASSUME NoValueAssumption == NoValue \notin Values
ASSUME SizeAssumption == /\ HeaderSize \in Nat \ {0}
                         /\ KeySize \in [Keys -> Nat]
                         /\ ValSize \in [Values -> Nat]
                         /\ MaxFileSize \in Nat

\* A record.  lsn numbers the records in the order of the log; the code has no
\* such field (its Timestamp is never compared) and no guard reads it.
Rec == [key : Keys, val : Values \cup {NoValue}, lsn : Nat]

Size(r) == HeaderSize + KeySize[r.key] + (IF r.val = NoValue THEN 0 ELSE ValSize[r.val])

Frag == [off : Nat, len : Nat, rec : Rec]

File == [frags : SUBSET Frag, size : Nat, synced : Nat]

EmptyFile == [frags |-> {}, size |-> 0, synced |-> 0]

Intact(g) == g.len = Size(g.rec)
Torn(f) == {g \in f.frags : ~ Intact(g)}

\* Write on an O_APPEND descriptor: the first n bytes of r land at the end.
AppendTo(f, r, n) ==
  IF n = 0 THEN f
  ELSE [frags |-> f.frags \cup {[off |-> f.size, len |-> n, rec |-> r]},
        size |-> f.size + n, synced |-> f.synced]

Sync(f) == [frags |-> f.frags, size |-> f.size, synced |-> f.size]

\* The lengths a write of r that is cut short can reach.
TearLens(r) == 1 .. (Size(r) - 1)

\* Power loss keeps the first n bytes of the file, and these are now on disk.
Cut(f, n) ==
  [frags |-> {[g EXCEPT !.len = IF g.off + g.len <= n THEN g.len ELSE n - g.off] :
                g \in {h \in f.frags : h.off < n}},
   size |-> n, synced |-> n]

\* ReadAt of size bytes at off followed by VerifyCRC.
ReadsWhole(f, off, size) == {g \in f.frags : g.off = off /\ g.len = size /\ Intact(g)}

(***************************************************************************)
(* The scan of one file by loadFilesAndBuildIndex, stated declaratively:   *)
(* the records before the first torn fragment.                             *)
(***************************************************************************)
\* Mutants of Scanned: the scan resumes behind a torn record; a torn record
\* discards the file.
ScannedResuming(f) == {g \in f.frags : Intact(g)}
ScannedAllOrNothing(f) == IF Torn(f) = {} THEN f.frags ELSE {}

Scanned(f) == {g \in f.frags : Intact(g) /\ \A t \in Torn(f) : g.off < t.off}

FirstTorn(f) == {t \in Torn(f) : \A u \in Torn(f) : t.off <= u.off}

\* Mutant of MustRefuse: a payload that ends early counts as corruption.
MustRefusePartial(f) == \E t \in FirstTorn(f) : t.len >= HeaderSize

\* The header of the torn record is whole and its payload is filled up by the
\* bytes of later records: the CRC check fails and the database does not open.
MustRefuse(f) ==
  \E t \in FirstTorn(f) : t.len >= HeaderSize /\ t.off + Size(t.rec) <= f.size

\* The header itself is torn and its missing bytes are those of a later record:
\* the sizes it decodes to are arbitrary, so the scan stops or fails.
MayRefuse(f) ==
  \E t \in FirstTorn(f) : t.len < HeaderSize /\ t.off + HeaderSize <= f.size

\* The offsets at which the loop can arrive: the records lie one behind the other.
Arrivals(f) == {g.off : g \in f.frags} \cup {f.size}

\* How the loop meets a torn record with a whole header's length before the end.
Ending(f, g) ==
  CASE g.len < HeaderSize -> "garbage"
    [] g.len >= HeaderSize /\ g.off + Size(g.rec) > f.size -> "partial"
    [] g.len >= HeaderSize /\ g.off + Size(g.rec) <= f.size -> "integrity"

\* One iteration at offset o; what the later ones find is rest.
Iteration(f, rest, o) ==
  LET g == CHOOSE x \in f.frags : x.off = o
  IN IF o + HeaderSize > f.size THEN [found |-> {}, ends |-> "eof"]
     ELSE IF Intact(g) THEN [found |-> rest[o + g.len].found \cup {g}, ends |-> rest[o + g.len].ends]
     ELSE [found |-> {}, ends |-> Ending(f, g)]

\* The scan as the code's loop does it, one record per iteration.
ScanLoop(f) ==
  LET from[o \in Arrivals(f)] == Iteration(f, from, o)
  IN from[0]

(***************************************************************************)
(* A disk is a function from file ids to files.  The index is rebuilt from *)
(* the scanned records of every file, later files and later offsets last.  *)
(***************************************************************************)
CONSTANT NoMeta  \* a key that is not in the key directory

EmptyDisk == [i \in {} |-> EmptyFile]

WithFile(d, id, f) == [i \in DOMAIN d \cup {id} |-> IF i = id THEN f ELSE d[i]]

\* Mutant of FileAt: the file is opened with O_TRUNC.
FileAtTruncated(d, id) == EmptyFile

\* What the directory holds for a file the process opens with O_CREATE.
FileAt(d, id) == IF id \in DOMAIN d THEN d[id] ELSE EmptyFile

Sites(d) == UNION {{[file |-> i, off |-> g.off, rec |-> g.rec] : g \in Scanned(d[i])} :
                     i \in DOMAIN d}

Before(s, t) == s.file < t.file \/ (s.file = t.file /\ s.off < t.off)

\* s is the last record of its key in the log of d.
IsLatest(d, s) ==
  s \in Sites(d) /\ \A t \in Sites(d) : t.rec.key = s.rec.key => t = s \/ Before(t, s)

Meta == [file : Nat, off : Nat, size : Nat]

MetaOf(s) == IF s.rec.val = NoValue THEN NoMeta
             ELSE [file |-> s.file, off |-> s.off, size |-> Size(s.rec)]

LoadDir(d) ==
  [k \in Keys |->
     IF \E s \in Sites(d) : s.rec.key = k
     THEN MetaOf(CHOOSE s \in Sites(d) : s.rec.key = k /\ IsLatest(d, s))
     ELSE NoMeta]

\* The value of each key in a store reopened from d.
Recovered(d) ==
  [k \in Keys |->
     IF \E s \in Sites(d) : s.rec.key = k
     THEN (CHOOSE s \in Sites(d) : s.rec.key = k /\ IsLatest(d, s)).rec.val
     ELSE NoValue]

\* The records a reopened store knows of.
Logged(d) == {s.rec : s \in Sites(d)}

\* Nothing was written after a torn fragment of the same file.
CleanLog(d) == \A i \in DOMAIN d : \A t \in Torn(d[i]), g \in d[i].frags : g.off <= t.off
================================================================================
