--------------------------- MODULE ReadCacheProofs ---------------------------
(***************************************************************************)
(* Proofs about ReadCache, for all files, chunk sizes and bytes: ranges    *)
(* stay sorted, within their chunk and apart, and a read gives what was    *)
(* recorded last.                                                          *)
(***************************************************************************)
EXTENDS ReadCache, TLAPS

CachedRanges == [offset : Nat, bytes : Seq(Byte)]

\* The range lies within the chunk and within the file, and is not empty.
Fits(f, base, r) ==
    /\ r \in CachedRanges /\ r.bytes # <<>>
    /\ base <= r.offset /\ end(r) <= base + ChunkSize /\ end(r) <= Size[f]

Covers(r, i) == r.offset <= i /\ i < end(r)

\* The byte of the range at offset i of the file.
ByteAt(r, i) == r.bytes[i - r.offset + 1]

\* The ranges have byte v, and only v, at offset i; none, if v is None.
Agree(ranges, i, v) ==
    /\ \A k \in 1 .. Len(ranges) : Covers(ranges[k], i) => ByteAt(ranges[k], i) = v
    /\ v # None => \E k \in 1 .. Len(ranges) : Covers(ranges[k], i)

ChunkOK(f, base, ranges) ==
    /\ ranges \in Seq(CachedRanges)
    /\ \A k \in 1 .. Len(ranges) : Fits(f, base, ranges[k])
    /\ \A j, k \in 1 .. Len(ranges) : j < k => end(ranges[j]) < ranges[k].offset

FilesInv ==
    /\ pc \in {"Idle", "File", "Chunk"}
    /\ DOMAIN files = Files
    /\ \A f \in Files : DOMAIN files[f] = Bases(f)
    /\ \A f \in Files : \A base \in Bases(f) : ChunkOK(f, base, files[f][base])
    /\ DOMAIN recorded = Files
    /\ \A f \in Files : recorded[f] \in [Offsets(f) -> Byte \cup {None}]

\* The insert has bytes that are recorded and that no chunk has yet.
Pending(f, i) == pc # "Idle" /\ f = call.file /\ call.cursor <= i /\ i < call.cursor + Len(call.bytes)

CallInv ==
    pc # "Idle" =>
        /\ call.file \in Files /\ call.cursor \in Nat /\ call.bytes \in Seq(Byte)
        /\ call.cursor + Len(call.bytes) <= Size[call.file]
        /\ \A i \in Offsets(call.file) :
              Pending(call.file, i) => recorded[call.file][i] = call.bytes[i - call.cursor + 1]

\* The chunk is being changed.
Current(f, base) == pc = "Chunk" /\ f = call.file /\ base = work.base

\* Elsewhere the ranges have what was recorded.
ContentInv ==
    \A f \in Files : \A i \in Offsets(f) :
        ~Pending(f, i) /\ ~Current(f, chunk_base(i)) => Agree(files[f][chunk_base(i)], i, recorded[f][i])

\* At offset i, the merged range m has byte v; where it has nothing, those retained
\* (r) and those to come (from s[n]) have v, and only v.
Has(m, r, s, n, i, v) ==
    /\ Covers(m, i) => ByteAt(m, i) = v
    /\ ~Covers(m, i) =>
          /\ \A k \in 1 .. Len(r) : Covers(r[k], i) => ByteAt(r[k], i) = v
          /\ \A k \in n .. Len(s) : Covers(s[k], i) => ByteAt(s[k], i) = v
          /\ v # None => \/ \E k \in 1 .. Len(r) : Covers(r[k], i)
                         \/ \E k \in n .. Len(s) : Covers(s[k], i)

\* They are apart and in order, and have what was recorded.
WorkOK(f, base, m, r, s, n, known) ==
    /\ base \in Bases(f) /\ n \in 1 .. Len(s) + 1
    /\ Fits(f, base, m) /\ ChunkOK(f, base, r)
    /\ \A k \in 1 .. Len(r) : Apart(r[k], m)
    /\ \A k \in 1 .. Len(r), j \in n .. Len(s) : end(r[k]) < s[j].offset
    /\ \A i \in Offsets(f) : chunk_base(i) = base => Has(m, r, s, n, i, known[i])

WorkInv ==
    pc = "Chunk" =>
        /\ WorkOK(call.file, work.base, work.merged, work.retained, Ranges, work.next, recorded[call.file])
        /\ \A i \in Offsets(call.file) : chunk_base(i) = work.base => ~Pending(call.file, i)

CacheInv == FilesInv /\ CallInv /\ ContentInv /\ WorkInv

-----------------------------------------------------------------------------
(* Chunks and ranges *)

\* chunk_base gives the start of the chunk of an offset, the same for all of them.
LEMMA ChunkBase ==
    /\ ChunkSize \in Nat \ {0}
    /\ \A o \in Nat : chunk_base(o) \in Nat /\ chunk_base(o) <= o /\ o < chunk_base(o) + ChunkSize
    /\ \A o, i \in Nat : chunk_base(o) <= i /\ i < chunk_base(o) + ChunkSize => chunk_base(i) = chunk_base(o)
<1>1. ChunkSize \in Nat \ {0}
  BY CacheAssumptions
<1>2. ASSUME NEW o \in Nat
      PROVE  LET q == o \div ChunkSize
             IN  q \in Nat /\ q * ChunkSize \in Nat /\ q * ChunkSize <= o /\ o < q * ChunkSize + ChunkSize
  <2> DEFINE q == o \div ChunkSize
  <2>1. q \in Nat /\ o = ChunkSize * q + (o % ChunkSize) /\ o % ChunkSize \in 0 .. ChunkSize - 1
    BY <1>1
  <2>2. ChunkSize * q = q * ChunkSize /\ q * ChunkSize \in Nat
    BY <1>1, <2>1
  <2> QED BY <1>1, <2>1, <2>2
<1>3. ASSUME NEW o \in Nat, NEW i \in Nat, chunk_base(o) <= i, i < chunk_base(o) + ChunkSize
      PROVE  chunk_base(i) = chunk_base(o)
  <2> DEFINE p == o \div ChunkSize
             q == i \div ChunkSize
  <2>1. p \in Nat /\ q \in Nat /\ q * ChunkSize <= i /\ i < q * ChunkSize + ChunkSize
    BY <1>2
  <2>2. p * ChunkSize <= i /\ i < p * ChunkSize + ChunkSize
    BY <1>3 DEF chunk_base
  <2> HIDE DEF p, q
  <2>3. ASSUME NEW a \in Nat, NEW b \in Nat, a < b PROVE a * ChunkSize + ChunkSize <= b * ChunkSize
    <3> DEFINE d == b - a - 1
    <3>1. d \in Nat /\ b = a + 1 + d
      BY <2>3
    <3> HIDE DEF d
    <3>2. d * ChunkSize \in Nat /\ b * ChunkSize = a * ChunkSize + ChunkSize + d * ChunkSize
      BY <1>1, <3>1
    <3> QED BY <1>1, <3>2
  <2>4. p * ChunkSize \in Nat /\ q * ChunkSize \in Nat
    BY <1>1, <2>1
  <2>5. ~(p < q) /\ ~(q < p)
    BY <1>1, <2>1, <2>2, <2>3, <2>4
  <2>6. p = q
    BY <2>1, <2>5
  <2> QED BY Zenon, <2>6 DEF chunk_base, p, q
<1> QED BY Zenon, <1>1, <1>2, <1>3 DEF chunk_base

\* A range has a byte at each of its offsets.
LEMMA RangeFacts ==
    ASSUME NEW r \in CachedRanges
    PROVE  /\ r.offset \in Nat /\ r.bytes \in Seq(Byte) /\ Len(r.bytes) \in Nat /\ end(r) \in Nat
           /\ r.offset <= end(r) /\ (r.bytes # <<>> => r.offset < end(r))
           /\ end(r) = r.offset + Len(r.bytes)
           /\ \A i \in Nat : Covers(r, i) => ByteAt(r, i) \in Byte
<1>1. r.offset \in Nat /\ r.bytes \in Seq(Byte)
  BY Zenon DEF CachedRanges
<1>2. Len(r.bytes) \in Nat /\ (r.bytes # <<>> => Len(r.bytes) > 0)
  BY <1>1
<1>3. end(r) = r.offset + Len(r.bytes)
  BY Zenon DEF end
<1>4. ASSUME NEW i \in Nat, Covers(r, i) PROVE ByteAt(r, i) \in Byte
  <2>1. i - r.offset + 1 \in 1 .. Len(r.bytes)
    BY <1>1, <1>2, <1>3, <1>4 DEF Covers
  <2>2. \A k \in 1 .. Len(r.bytes) : r.bytes[k] \in Byte
    BY <1>1
  <2> QED BY Zenon, <2>1, <2>2 DEF ByteAt
<1>5. end(r) \in Nat /\ r.offset <= end(r) /\ (r.bytes # <<>> => r.offset < end(r))
  BY <1>1, <1>2, <1>3
<1> QED BY Zenon, <1>1, <1>2, <1>3, <1>4, <1>5

\* A function on 1 .. n is a sequence of length n.
LEMMA StringFacts ==
    ASSUME NEW S, NEW n \in Nat, NEW s \in [1 .. n -> S]
    PROVE  s \in Seq(S) /\ Len(s) = n
OBVIOUS

\* Merge: where two ranges touch, the merged range covers what either covers, with
\* the bytes of the new one where it has some.
LEMMA MergeFacts ==
    ASSUME NEW f \in Files, NEW base \in Nat, NEW new, NEW old,
           Fits(f, base, new), Fits(f, base, old), ~Apart(old, new)
    PROVE  LET m == Merge(new, old) IN
           /\ Fits(f, base, m)
           /\ m.offset = Lesser(new.offset, old.offset) /\ end(m) = Greater(end(new), end(old))
           /\ \A i \in Nat : /\ Covers(m, i) <=> Covers(new, i) \/ Covers(old, i)
                             /\ Covers(new, i) => ByteAt(m, i) = ByteAt(new, i)
                             /\ Covers(m, i) /\ ~Covers(new, i) => ByteAt(m, i) = ByteAt(old, i)
<1> DEFINE first == Lesser(new.offset, old.offset)
           last == Greater(end(new), end(old))
           Pick(o) == IF o >= new.offset /\ o < end(new)
                      THEN new.bytes[o - new.offset + 1] ELSE old.bytes[o - old.offset + 1]
           s == [i \in 1 .. last - first |-> Pick(first + i - 1)]
           m == CachedRange(first, s)
<1>1. /\ new.offset \in Nat /\ end(new) \in Nat /\ new.offset < end(new)
      /\ old.offset \in Nat /\ end(old) \in Nat /\ old.offset < end(old)
  BY Zenon, RangeFacts DEF Fits
<1>2. /\ base <= new.offset /\ end(new) <= base + ChunkSize /\ end(new) <= Size[f]
      /\ base <= old.offset /\ end(old) <= base + ChunkSize /\ end(old) <= Size[f]
      /\ new \in CachedRanges /\ old \in CachedRanges
  BY Zenon DEF Fits
<1>3. old.offset <= end(new) /\ new.offset <= end(old)
  BY <1>1 DEF Apart
<1>4. /\ first \in Nat /\ last \in Nat /\ first < last /\ last - first \in Nat /\ last - first > 0
      /\ base <= first /\ last <= base + ChunkSize /\ last <= Size[f]
      /\ first <= new.offset /\ first <= old.offset /\ (first = new.offset \/ first = old.offset)
      /\ end(new) <= last /\ end(old) <= last /\ (last = end(new) \/ last = end(old))
  BY <1>1, <1>2 DEF Lesser, Greater
<1> HIDE DEF first, last
<1>5. ASSUME NEW i \in Nat, first <= i, i < last
      PROVE  /\ Covers(new, i) \/ Covers(old, i)
             /\ Covers(new, i) => Pick(i) = ByteAt(new, i)
             /\ ~Covers(new, i) => Pick(i) = ByteAt(old, i)
             /\ Pick(i) \in Byte
  <2>1. Covers(new, i) \/ Covers(old, i)
    BY <1>1, <1>3, <1>4, <1>5 DEF Covers
  <2>2. Covers(new, i) <=> (i >= new.offset /\ i < end(new))
    BY <1>1 DEF Covers
  <2>3. /\ Covers(new, i) => Pick(i) = ByteAt(new, i)
        /\ ~Covers(new, i) => Pick(i) = ByteAt(old, i)
    BY Zenon, <2>2 DEF ByteAt
  <2>4. /\ Covers(new, i) => ByteAt(new, i) \in Byte
        /\ Covers(old, i) => ByteAt(old, i) \in Byte
    BY Zenon, <1>2, RangeFacts
  <2> QED BY Zenon, <2>1, <2>3, <2>4
<1>6. s \in [1 .. last - first -> Byte]
  <2>1. ASSUME NEW i \in 1 .. last - first PROVE Pick(first + i - 1) \in Byte
    <3>1. first + i - 1 \in Nat /\ first <= first + i - 1 /\ first + i - 1 < last
      BY <1>4
    <3> QED BY Zenon, <1>5, <3>1
  <2> HIDE DEF Pick
  <2> QED BY Zenon, <2>1
<1>7. s \in Seq(Byte) /\ Len(s) = last - first
  <2> HIDE DEF s
  <2> QED BY Zenon, <1>4, <1>6, StringFacts
<1>8. m.offset = first /\ m.bytes = s /\ m = Merge(new, old)
  BY Zenon DEF CachedRange, Merge, first, last
<1>9. end(m) = last
  <2>1. end(m) = first + (last - first)
    BY Zenon, <1>7, <1>8 DEF end
  <2> QED BY <1>4, <2>1
<1>10. Fits(f, base, m)
  <2>1. m \in CachedRanges
    BY Zenon, <1>4, <1>7 DEF CachedRanges, CachedRange
  <2>2. m.bytes # <<>>
    <3>1. s # <<>>
      <4> HIDE DEF s
      <4> QED BY <1>4, <1>7
    <3> QED BY Zenon, <1>8, <3>1
  <2> QED BY Zenon, <1>4, <1>8, <1>9, <2>1, <2>2 DEF Fits
<1>11. ASSUME NEW i \in Nat
       PROVE  /\ Covers(m, i) <=> Covers(new, i) \/ Covers(old, i)
              /\ Covers(new, i) => ByteAt(m, i) = ByteAt(new, i)
              /\ Covers(m, i) /\ ~Covers(new, i) => ByteAt(m, i) = ByteAt(old, i)
  <2>1. Covers(m, i) <=> first <= i /\ i < last
    BY Zenon, <1>8, <1>9 DEF Covers
  <2>2. Covers(new, i) \/ Covers(old, i) => first <= i /\ i < last
    BY <1>1, <1>4 DEF Covers
  <2>3. ASSUME first <= i, i < last PROVE ByteAt(m, i) = Pick(i)
    <3>1. i - first + 1 \in 1 .. last - first /\ first + (i - first + 1) - 1 = i
      BY <1>4, <2>3
    <3>2. ByteAt(m, i) = s[i - first + 1]
      BY Zenon, <1>8 DEF ByteAt
    <3>3. s[i - first + 1] = Pick(first + (i - first + 1) - 1)
      BY Zenon, <3>1
    <3> QED BY Zenon, <3>1, <3>2, <3>3
  <2> HIDE DEF Pick
  <2> QED BY Zenon, <1>5, <2>1, <2>2, <2>3
<1> QED BY Zenon, <1>8, <1>9, <1>10, <1>11 DEF first, last

-----------------------------------------------------------------------------
(* The steps of an insert *)

\* The offsets of a file, and their chunks.
LEMMA OffsetFacts ==
    ASSUME NEW f \in Files
    PROVE  /\ Size[f] \in Nat
           /\ \A i : i \in Offsets(f) <=> i \in Nat /\ i < Size[f]
           /\ \A i \in Offsets(f) : chunk_base(i) \in Bases(f)
           /\ \A base \in Bases(f) : base \in Nat
           /\ \A base \in Bases(f), i \in Nat :
                 base <= i /\ i < base + ChunkSize => chunk_base(i) = base
           /\ Offsets(f) \subseteq Nat
<1>1. Size[f] \in Nat
  BY Zenon, CacheAssumptions
<1>2. \A i : i \in Offsets(f) <=> i \in Nat /\ i < Size[f]
  BY <1>1 DEF Offsets
<1>3. ASSUME NEW base \in Bases(f)
      PROVE  base \in Nat /\ \A i \in Nat : base <= i /\ i < base + ChunkSize => chunk_base(i) = base
  <2>1. PICK o \in Offsets(f) : base = chunk_base(o)
    BY Zenon DEF Bases
  <2>2. o \in Nat
    BY Zenon, <1>2
  <2> QED BY Zenon, <2>1, <2>2, ChunkBase
<1>4. \A i \in Offsets(f) : chunk_base(i) \in Bases(f)
  BY Zenon DEF Bases
<1> QED BY Zenon, <1>1, <1>2, <1>3, <1>4

\* Record changes the bytes of the record, and no others.
LEMMA RecordFacts ==
    ASSUME NEW f \in Files, NEW known \in [Offsets(f) -> Byte \cup {None}], NEW o \in Nat, NEW s \in Seq(Byte)
    PROVE  /\ Record(known, o, s) \in [Offsets(f) -> Byte \cup {None}]
           /\ \A i \in Offsets(f) :
                 /\ (o <= i /\ i < o + Len(s)) => Record(known, o, s)[i] = s[i - o + 1]
                 /\ ~(o <= i /\ i < o + Len(s)) => Record(known, o, s)[i] = known[i]
<1>1. DOMAIN known = Offsets(f)
  BY Zenon
<1>2. ASSUME NEW i \in Offsets(f)
      PROVE  /\ Record(known, o, s)[i] = IF i >= o /\ i < o + Len(s) THEN s[i - o + 1] ELSE known[i]
             /\ i \in Nat /\ (i >= o <=> o <= i)
  <2>1. i \in Nat
    BY Zenon, OffsetFacts
  <2>2. i >= o <=> o <= i
    BY <2>1
  <2> QED BY Zenon, <1>1, <2>1, <2>2 DEF Record
<1>3. ASSUME NEW i \in Offsets(f), o <= i, i < o + Len(s) PROVE s[i - o + 1] \in Byte
  <2>1. i - o + 1 \in 1 .. Len(s)
    BY <1>2, <1>3
  <2> QED BY <2>1
<1>4. Record(known, o, s) \in [Offsets(f) -> Byte \cup {None}]
  <2>1. Record(known, o, s) = [i \in Offsets(f) |-> Record(known, o, s)[i]]
    BY Zenon, <1>1 DEF Record
  <2>2. \A i \in Offsets(f) : Record(known, o, s)[i] \in Byte \cup {None}
    BY Zenon, <1>2, <1>3
  <2> QED BY Zenon, <2>1, <2>2
<1> QED BY Zenon, <1>2, <1>4

\* The call begins.
LEMMA StartStep ==
    ASSUME CacheInv, NEW f \in Files, NEW o \in 0 .. Size[f], NEW s \in Responses(f, o), record_cached_read(f, o, s)
    PROVE  CacheInv'
<1>1. /\ pc = "Idle" /\ pc' = "File" /\ files' = files /\ o + Len(s) <= Size[f]
      /\ call'.file = f /\ call'.cursor = o /\ call'.bytes = s
      /\ recorded' = [recorded EXCEPT ![f] = Record(@, o, s)]
  BY Zenon DEF record_cached_read
<1>2. s \in Seq(Byte) /\ Len(s) \in Nat /\ o \in Nat
  <2>1. Size[f] \in Nat
    BY Zenon, OffsetFacts
  <2>2. o \in Nat
    BY <2>1
  <2>3. PICK n \in 0 .. Size[f] - o + 1 : s \in [1 .. n -> Byte]
    BY Zenon DEF Responses
  <2>4. n \in Nat
    BY <2>1, <2>2
  <2> QED BY Zenon, <2>2, <2>3, <2>4, StringFacts
<1>3. DOMAIN recorded = Files /\ \A g \in Files : recorded[g] \in [Offsets(g) -> Byte \cup {None}]
  BY Zenon DEF CacheInv, FilesInv
<1>4. /\ DOMAIN recorded' = Files /\ recorded'[f] = Record(recorded[f], o, s)
      /\ \A g \in Files \ {f} : recorded'[g] = recorded[g]
  BY Zenon, <1>1, <1>3
<1>r. /\ Record(recorded[f], o, s) \in [Offsets(f) -> Byte \cup {None}]
      /\ \A i \in Offsets(f) :
            /\ (o <= i /\ i < o + Len(s)) => Record(recorded[f], o, s)[i] = s[i - o + 1]
            /\ ~(o <= i /\ i < o + Len(s)) => Record(recorded[f], o, s)[i] = recorded[f][i]
  <2>1. recorded[f] \in [Offsets(f) -> Byte \cup {None}]
    BY Zenon, <1>3
  <2> QED BY Zenon, <1>2, <2>1, RecordFacts
<1>5. \A g \in Files : recorded'[g] \in [Offsets(g) -> Byte \cup {None}]
  BY Zenon, <1>3, <1>4, <1>r
<1>6. FilesInv'
  BY Zenon, <1>1, <1>4, <1>5 DEF CacheInv, FilesInv
<1>7. \A g, i : Pending(g, i)' <=> g = f /\ o <= i /\ i < o + Len(s)
  BY Zenon, <1>1 DEF Pending
<1>8. CallInv'
  <2>1. \A i \in Offsets(f) : Pending(f, i)' => recorded'[f][i] = s[i - o + 1]
    BY Zenon, <1>4, <1>7, <1>r
  <2> QED BY Zenon, <1>1, <1>2, <2>1 DEF CallInv
<1>9. ContentInv'
  <2> SUFFICES ASSUME NEW g \in Files, NEW i \in Offsets(g), ~Pending(g, i)'
               PROVE  Agree(files'[g][chunk_base(i)], i, recorded'[g][i])
    BY Zenon DEF ContentInv
  <2>1. recorded'[g][i] = recorded[g][i]
    BY Zenon, <1>4, <1>7, <1>r
  <2>2. ~Pending(g, i) /\ ~Current(g, chunk_base(i))
    BY Zenon, <1>1 DEF Pending, Current
  <2>3. Agree(files[g][chunk_base(i)], i, recorded[g][i])
    BY Zenon, <2>2 DEF CacheInv, ContentInv
  <2> QED BY Zenon, <1>1, <2>1, <2>3
<1>10. WorkInv'
  BY Zenon, <1>1 DEF WorkInv
<1> QED BY Zenon, <1>6, <1>8, <1>9, <1>10 DEF CacheInv

\* The call is at its end.
LEMMA EndStep ==
    ASSUME CacheInv, FileInserted
    PROVE  CacheInv'
<1>1. pc = "File" /\ call.bytes = <<>> /\ pc' = "Idle" /\ files' = files /\ recorded' = recorded
  BY Zenon DEF FileInserted
<1>2. call.cursor \in Nat /\ Len(call.bytes) = 0
  BY <1>1 DEF CacheInv, CallInv
<1>3. ASSUME NEW f \in Files, NEW i \in Offsets(f) PROVE ~Pending(f, i) /\ ~Current(f, chunk_base(i))
  <2>1. i \in Nat
    BY Zenon, OffsetFacts
  <2>2. ~(call.cursor <= i /\ i < call.cursor + Len(call.bytes))
    BY <1>2, <2>1
  <2> QED BY Zenon, <1>1, <2>2 DEF Pending, Current
<1>4. FilesInv'
  BY Zenon, <1>1 DEF CacheInv, FilesInv
<1>5. CallInv' /\ WorkInv'
  BY Zenon, <1>1 DEF CallInv, WorkInv
<1>6. ContentInv'
  <2> SUFFICES ASSUME NEW g \in Files, NEW i \in Offsets(g)
               PROVE  Agree(files'[g][chunk_base(i)], i, recorded'[g][i])
    BY Zenon DEF ContentInv
  <2> QED BY Zenon, <1>1, <1>3 DEF CacheInv, ContentInv
<1> QED BY Zenon, <1>4, <1>5, <1>6 DEF CacheInv

\* A range that is apart is retained.
LEMMA RetainStep ==
    ASSUME NEW f \in Files, NEW base, NEW m, NEW r, NEW s, NEW n, NEW known,
           WorkOK(f, base, m, r, s, n, known), ChunkOK(f, base, s), n <= Len(s), Apart(s[n], m)
    PROVE  WorkOK(f, base, m, Append(r, s[n]), s, n + 1, known)
<1> DEFINE q == Append(r, s[n])
           x == s[n]
<1>1. /\ r \in Seq(CachedRanges) /\ s \in Seq(CachedRanges) /\ n \in 1 .. Len(s) + 1
      /\ \A k \in 1 .. Len(s) : Fits(f, base, s[k])
      /\ \A k \in 1 .. Len(r) : Fits(f, base, r[k]) /\ Apart(r[k], m)
      /\ \A j, k \in 1 .. Len(r) : j < k => end(r[j]) < r[k].offset
      /\ \A j, k \in 1 .. Len(s) : j < k => end(s[j]) < s[k].offset
      /\ \A k \in 1 .. Len(r), j \in n .. Len(s) : end(r[k]) < s[j].offset
      /\ base \in Bases(f) /\ Fits(f, base, m)
      /\ \A i \in Offsets(f) : chunk_base(i) = base => Has(m, r, s, n, i, known[i])
  BY Zenon DEF WorkOK, ChunkOK
<1>2. /\ Len(r) \in Nat /\ Len(s) \in Nat /\ n \in 1 .. Len(s) /\ n \in Nat /\ n + 1 \in 1 .. Len(s) + 1
      /\ n \in n .. Len(s) /\ x \in CachedRanges
      /\ \A j \in n .. Len(s) : j \in 1 .. Len(s) /\ (j = n \/ (j \in n + 1 .. Len(s) /\ n < j))
      /\ \A j \in n + 1 .. Len(s) : j \in n .. Len(s) /\ j \in 1 .. Len(s) /\ n < j
  BY <1>1
<1>3. /\ q \in Seq(CachedRanges) /\ Len(q) = Len(r) + 1
      /\ \A k \in 1 .. Len(q) : (k \in 1 .. Len(r) /\ q[k] = r[k]) \/ (k = Len(r) + 1 /\ q[k] = x)
      /\ Len(r) + 1 \in 1 .. Len(q)
      /\ \A k \in 1 .. Len(r) : k \in 1 .. Len(q) /\ q[k] = r[k]
      /\ q[Len(r) + 1] = x
  <2> HIDE DEF x
  <2>1. q = Append(r, x)
    BY Zenon DEF x
  <2> HIDE DEF q
  <2> QED BY <1>1, <1>2, <2>1
<1>4. \A j, k \in 1 .. Len(q) : j < k => j \in 1 .. Len(r)
  BY <1>2, <1>3
<1> HIDE DEF q
<1>5. \A k \in 1 .. Len(q) : Fits(f, base, q[k]) /\ Apart(q[k], m)
  BY Zenon, <1>1, <1>2, <1>3
<1>6. ASSUME NEW j \in 1 .. Len(q), NEW k \in 1 .. Len(q), j < k PROVE end(q[j]) < q[k].offset
  <2>1. j \in 1 .. Len(r) /\ q[j] = r[j]
    BY Zenon, <1>3, <1>4, <1>6
  <2>2. CASE k \in 1 .. Len(r) /\ q[k] = r[k]
    BY Zenon, <1>1, <1>6, <2>1, <2>2
  <2>3. CASE q[k] = x
    BY Zenon, <1>1, <1>2, <2>1, <2>3
  <2> QED BY Zenon, <1>3, <2>2, <2>3
<1>7. ASSUME NEW k \in 1 .. Len(q), NEW j \in n + 1 .. Len(s) PROVE end(q[k]) < s[j].offset
  <2>1. j \in n .. Len(s) /\ j \in 1 .. Len(s) /\ n < j
    BY Zenon, <1>2
  <2>2. CASE k \in 1 .. Len(r) /\ q[k] = r[k]
    BY Zenon, <1>1, <2>1, <2>2
  <2>3. CASE q[k] = x
    BY Zenon, <1>1, <1>2, <2>1, <2>3
  <2> QED BY Zenon, <1>3, <2>2, <2>3
<1>8. ASSUME NEW i \in Offsets(f), chunk_base(i) = base PROVE Has(m, q, s, n + 1, i, known[i])
  <2> DEFINE v == known[i]
  <2>1. Has(m, r, s, n, i, v)
    BY Zenon, <1>1, <1>8
  <2> HIDE DEF v
  <2>2. Covers(m, i) => ByteAt(m, i) = v
    BY Zenon, <2>1 DEF Has
  <2>3. ASSUME ~Covers(m, i), NEW k \in 1 .. Len(q), Covers(q[k], i) PROVE ByteAt(q[k], i) = v
    BY Zenon, <1>2, <1>3, <2>1, <2>3 DEF Has
  <2>4. ASSUME ~Covers(m, i), NEW k \in n + 1 .. Len(s), Covers(s[k], i) PROVE ByteAt(s[k], i) = v
    BY Zenon, <1>2, <2>1, <2>4 DEF Has
  <2>5. ASSUME ~Covers(m, i), v # None
        PROVE  \/ \E k \in 1 .. Len(q) : Covers(q[k], i)
               \/ \E k \in n + 1 .. Len(s) : Covers(s[k], i)
    <3>1. CASE \E k \in 1 .. Len(r) : Covers(r[k], i)
      BY Zenon, <1>3, <3>1
    <3>2. CASE \E k \in n .. Len(s) : Covers(s[k], i)
      BY Zenon, <1>2, <1>3, <3>2
    <3> QED BY Zenon, <2>1, <2>5, <3>1, <3>2 DEF Has
  <2> QED BY Zenon, <2>2, <2>3, <2>4, <2>5 DEF Has, v
<1> QED BY Zenon, <1>1, <1>2, <1>3, <1>5, <1>6, <1>7, <1>8 DEF WorkOK, ChunkOK, q

\* A range that touches is merged.
LEMMA MergeStep ==
    ASSUME NEW f \in Files, NEW base, NEW m, NEW r, NEW s, NEW n, NEW known,
           WorkOK(f, base, m, r, s, n, known), ChunkOK(f, base, s), n <= Len(s), ~Apart(s[n], m)
    PROVE  WorkOK(f, base, Merge(m, s[n]), r, s, n + 1, known)
<1> DEFINE x == s[n]
           M == Merge(m, x)
<1>1. /\ r \in Seq(CachedRanges) /\ s \in Seq(CachedRanges) /\ n \in 1 .. Len(s) + 1
      /\ \A k \in 1 .. Len(s) : Fits(f, base, s[k])
      /\ \A k \in 1 .. Len(r) : Fits(f, base, r[k]) /\ Apart(r[k], m)
      /\ \A j, k \in 1 .. Len(s) : j < k => end(s[j]) < s[k].offset
      /\ \A k \in 1 .. Len(r), j \in n .. Len(s) : end(r[k]) < s[j].offset
      /\ base \in Bases(f) /\ Fits(f, base, m) /\ ChunkOK(f, base, r)
      /\ \A i \in Offsets(f) : chunk_base(i) = base => Has(m, r, s, n, i, known[i])
  BY Zenon DEF WorkOK, ChunkOK
<1>2. /\ Len(s) \in Nat /\ n \in 1 .. Len(s) /\ n \in Nat /\ n + 1 \in 1 .. Len(s) + 1
      /\ n \in n .. Len(s)
      /\ \A j \in n .. Len(s) : j \in 1 .. Len(s) /\ (j = n \/ (j \in n + 1 .. Len(s) /\ n < j))
      /\ \A j \in n + 1 .. Len(s) : j \in n .. Len(s) /\ j \in 1 .. Len(s) /\ n < j
  BY <1>1
<1>3. base \in Nat /\ Fits(f, base, x) /\ ~Apart(x, m)
  BY Zenon, <1>1, <1>2, OffsetFacts
<1> HIDE DEF x
<1>4. /\ Fits(f, base, M)
      /\ M.offset = Lesser(m.offset, x.offset) /\ end(M) = Greater(end(m), end(x))
      /\ \A i \in Nat : /\ Covers(M, i) <=> Covers(m, i) \/ Covers(x, i)
                        /\ Covers(m, i) => ByteAt(M, i) = ByteAt(m, i)
                        /\ Covers(M, i) /\ ~Covers(m, i) => ByteAt(M, i) = ByteAt(x, i)
  <2>1. Fits(f, base, m)
    BY Zenon, <1>1
  <2> QED BY <1>3, <2>1, MergeFacts
<1> HIDE DEF M
<1>5. /\ m.offset \in Nat /\ end(m) \in Nat /\ m.offset < end(m)
      /\ x.offset \in Nat /\ end(x) \in Nat /\ x.offset < end(x)
      /\ \A k \in 1 .. Len(r) : r[k].offset \in Nat /\ end(r[k]) \in Nat /\ r[k].offset < end(r[k])
  BY Zenon, <1>1, <1>3, RangeFacts DEF Fits
<1>6. ASSUME NEW k \in 1 .. Len(r) PROVE Apart(r[k], M)
  <2> DEFINE y == r[k]
  <2>1. /\ Apart(y, m) /\ end(y) < x.offset /\ y.offset \in Nat /\ end(y) \in Nat /\ y.offset < end(y)
    BY Zenon, <1>1, <1>2, <1>5 DEF x
  <2> HIDE DEF y
  <2>2. end(y) < m.offset
    BY <1>3, <1>5, <2>1 DEF Apart
  <2>3. end(y) < M.offset
    BY <1>4, <2>1, <2>2 DEF Lesser
  <2> QED BY Zenon, <2>3 DEF Apart, y
<1>7. ASSUME NEW i \in Offsets(f), chunk_base(i) = base PROVE Has(M, r, s, n + 1, i, known[i])
  <2> DEFINE v == known[i]
  <2>1. Has(m, r, s, n, i, v) /\ i \in Nat
    BY Zenon, <1>1, <1>7, OffsetFacts
  <2> HIDE DEF v
  <2>2. ASSUME Covers(M, i) PROVE ByteAt(M, i) = v
    BY Zenon, <1>2, <1>4, <2>1, <2>2 DEF Has, x
  <2>3. ASSUME ~Covers(M, i) PROVE ~Covers(m, i) /\ ~Covers(s[n], i)
    BY Zenon, <1>4, <2>1, <2>3 DEF x
  <2>4. ASSUME ~Covers(M, i), NEW k \in 1 .. Len(r), Covers(r[k], i) PROVE ByteAt(r[k], i) = v
    BY Zenon, <2>1, <2>3, <2>4 DEF Has
  <2>5. ASSUME ~Covers(M, i), NEW k \in n + 1 .. Len(s), Covers(s[k], i) PROVE ByteAt(s[k], i) = v
    BY Zenon, <1>2, <2>1, <2>3, <2>5 DEF Has
  <2>6. ASSUME ~Covers(M, i), v # None
        PROVE  \/ \E k \in 1 .. Len(r) : Covers(r[k], i)
               \/ \E k \in n + 1 .. Len(s) : Covers(s[k], i)
    <3>1. ~Covers(m, i) /\ ~Covers(s[n], i)
      BY Zenon, <2>3, <2>6
    <3>2. CASE \E k \in n .. Len(s) : Covers(s[k], i)
      BY Zenon, <1>2, <3>1, <3>2
    <3> QED BY Zenon, <2>1, <2>6, <3>1, <3>2 DEF Has
  <2> QED BY Zenon, <2>2, <2>4, <2>5, <2>6 DEF Has, v
<1>8. \A k \in 1 .. Len(r), j \in n + 1 .. Len(s) : end(r[k]) < s[j].offset
  BY Zenon, <1>1, <1>2
<1> QED BY Zenon, <1>1, <1>2, <1>4, <1>6, <1>7, <1>8 DEF WorkOK, M, x

\* At the end of the loop the sorted ranges have what was recorded.
LEMMA SortStep ==
    ASSUME NEW f \in Files, NEW base, NEW m, NEW r, NEW s, NEW n, NEW known,
           WorkOK(f, base, m, r, s, n, known), s \in Seq(CachedRanges), n > Len(s),
           NEW all, all = Append(r, m), NEW p \in Bijection(1 .. Len(all), 1 .. Len(all)),
           NEW t, t = [i \in 1 .. Len(all) |-> all[p[i]]],
           \A i, j \in 1 .. Len(all) : i < j => t[i].offset <= t[j].offset
    PROVE  /\ ChunkOK(f, base, t)
           /\ \A i \in Offsets(f) : chunk_base(i) = base => Agree(t, i, known[i])
<1> DEFINE N == Len(all)
<1>1. /\ r \in Seq(CachedRanges) /\ n \in 1 .. Len(s) + 1 /\ m \in CachedRanges
      /\ \A k \in 1 .. Len(r) : Fits(f, base, r[k]) /\ Apart(r[k], m)
      /\ \A j, k \in 1 .. Len(r) : j < k => end(r[j]) < r[k].offset
      /\ Fits(f, base, m)
      /\ \A i \in Offsets(f) : chunk_base(i) = base => Has(m, r, s, n, i, known[i])
  BY Zenon DEF WorkOK, ChunkOK, Fits
<1>2. /\ Len(r) \in Nat /\ N = Len(r) + 1 /\ N \in Nat /\ all \in Seq(CachedRanges) /\ n .. Len(s) = {}
      /\ \A k \in 1 .. N : (k \in 1 .. Len(r) /\ all[k] = r[k]) \/ (k = N /\ all[k] = m)
      /\ \A k \in 1 .. Len(r) : k \in 1 .. N /\ all[k] = r[k]
      /\ N \in 1 .. N /\ all[N] = m
  BY <1>1
<1>3. /\ \A i \in 1 .. N : p[i] \in 1 .. N
      /\ \A i, j \in 1 .. N : p[i] = p[j] => i = j
      /\ \A k \in 1 .. N : \E i \in 1 .. N : p[i] = k
  <2>1. p \in [1 .. N -> 1 .. N] /\ DOMAIN p = 1 .. N /\ IsInjective(p)
    BY Zenon DEF Bijection, Injection
  <2>2. \A k \in 1 .. N : \E i \in 1 .. N : p[i] = k
    BY Zenon DEF Bijection, Surjection
  <2>3. \A i \in 1 .. N : p[i] \in 1 .. N
    BY Zenon, <2>1
  <2> QED BY Zenon, <2>1, <2>2, <2>3 DEF IsInjective
<1>4. \A i \in 1 .. N : t[i] = all[p[i]]
  BY Zenon
<1>5. t \in Seq(CachedRanges) /\ Len(t) = N
  <2>1. \A k \in 1 .. N : all[k] \in CachedRanges
    BY Zenon, <1>1, <1>2 DEF Fits
  <2>2. t \in [1 .. N -> CachedRanges]
    BY Zenon, <1>3, <2>1
  <2>3. \A x \in [1 .. N -> CachedRanges] : x \in Seq(CachedRanges) /\ Len(x) = N
    <3> HIDE DEF N
    <3> QED BY Zenon, <1>2, StringFacts
  <2> HIDE DEF N
  <2> QED BY Zenon, <2>2, <2>3
<1> HIDE DEF N
<1>6. \A i \in 1 .. N : Fits(f, base, t[i])
  <2>1. \A k \in 1 .. N : Fits(f, base, all[k])
    BY Zenon, <1>1, <1>2
  <2> QED BY Zenon, <1>3, <1>4, <2>1
<1>7. ASSUME NEW j \in 1 .. N, NEW k \in 1 .. N, j # k PROVE end(all[j]) < all[k].offset \/ end(all[k]) < all[j].offset
  <2>1. ASSUME NEW i \in 1 .. Len(r) PROVE end(r[i]) < m.offset \/ end(m) < r[i].offset
    <3>1. Apart(r[i], m) /\ r[i].offset \in Nat /\ end(m) \in Nat
      BY Zenon, <1>1, RangeFacts DEF Fits
    <3> QED BY <3>1 DEF Apart
  <2>2. CASE j = N \/ k = N
    BY Zenon, <1>2, <1>7, <2>1, <2>2
  <2>3. CASE j \in 1 .. Len(r) /\ k \in 1 .. Len(r)
    <3>1. j < k \/ k < j
      BY <1>2, <1>7
    <3> QED BY Zenon, <1>1, <1>2, <2>3, <3>1
  <2> QED BY Zenon, <1>2, <2>2, <2>3
<1>8. ASSUME NEW j \in 1 .. N, NEW k \in 1 .. N, j < k PROVE end(t[j]) < t[k].offset
  <2>1. j # k /\ p[j] # p[k] /\ p[j] \in 1 .. N /\ p[k] \in 1 .. N
    <3>1. j # k
      BY <1>2, <1>8
    <3> QED BY Zenon, <1>3, <3>1
  <2>2. end(t[j]) < t[k].offset \/ end(t[k]) < t[j].offset
    BY Zenon, <1>4, <1>7, <2>1
  <2>3. t[j].offset <= t[k].offset
    BY Zenon, <1>8 DEF N
  <2>4. t[j].offset \in Nat /\ t[k].offset \in Nat /\ end(t[k]) \in Nat /\ t[k].offset < end(t[k])
    BY Zenon, <1>6, RangeFacts DEF Fits
  <2>5. \A x, y, z, w \in Nat : w < y \/ z < x => (x <= y /\ y < z => w < y)
    OBVIOUS
  <2>6. end(t[j]) \in Nat
    BY Zenon, <1>6, RangeFacts DEF Fits
  <2> QED BY ZenonT(60), <2>2, <2>3, <2>4, <2>5, <2>6
<1>9. ASSUME NEW i \in Offsets(f), chunk_base(i) = base PROVE Agree(t, i, known[i])
  <2> DEFINE v == known[i]
  <2>1. Has(m, r, s, n, i, v) /\ i \in Nat
    BY Zenon, <1>1, <1>9, OffsetFacts
  <2> HIDE DEF v
  <2>2. ASSUME Covers(m, i), NEW k \in 1 .. Len(r) PROVE ~Covers(r[k], i)
    <3>1. /\ Apart(r[k], m) /\ r[k].offset \in Nat /\ end(r[k]) \in Nat /\ m.offset \in Nat /\ end(m) \in Nat
      BY Zenon, <1>1, RangeFacts DEF Fits
    <3> QED BY SMTT(30), <2>1, <2>2, <3>1 DEF Apart, Covers
  <2>3. ASSUME NEW k \in 1 .. N, Covers(all[k], i) PROVE ByteAt(all[k], i) = v
    BY Zenon, <1>2, <2>1, <2>2, <2>3 DEF Has
  <2>4. ASSUME NEW k \in 1 .. N, Covers(t[k], i) PROVE ByteAt(t[k], i) = v
    <3>1. p[k] \in 1 .. N /\ t[k] = all[p[k]]
      BY Zenon, <1>3, <1>4
    <3> QED BY Zenon, <2>3, <2>4, <3>1
  <2>5. ASSUME v # None PROVE \E k \in 1 .. N : Covers(t[k], i)
    <3>1. \E k \in 1 .. N : Covers(all[k], i)
      BY Zenon, <1>2, <2>1, <2>5 DEF Has
    <3>2. PICK k \in 1 .. N : Covers(all[k], i)
      BY Zenon, <3>1
    <3>3. PICK j \in 1 .. N : p[j] = k
      BY Zenon, <1>3
    <3>4. t[j] = all[k]
      BY Zenon, <1>4, <3>3
    <3> QED BY Zenon, <3>2, <3>4
  <2> QED BY Zenon, <1>5, <2>4, <2>5 DEF Agree, v
<1> QED BY Zenon, <1>5, <1>6, <1>8, <1>9 DEF ChunkOK

\* The first `take` of the bytes b at offset c are the range m of the chunk at
\* base, and d are the bytes left.
Begun(f, c, b, base, take, m, d) ==
    /\ base \in Bases(f) /\ base \in Nat /\ Fits(f, base, m)
    /\ m.offset = c /\ end(m) = c + take /\ take \in 1 .. Len(b) /\ c + take \in Nat
    /\ d \in Seq(Byte) /\ Len(d) = Len(b) - take /\ Len(b) \in Nat
    /\ take = Len(b) \/ c + take = base + ChunkSize
    /\ \A i \in Nat : c <= i /\ i < c + take => ByteAt(m, i) = b[i - c + 1] /\ chunk_base(i) = base
    /\ \A i \in Nat : c + take <= i /\ i < c + Len(b) => d[i - (c + take) + 1] = b[i - c + 1]

\* Where a byte is after t of n bytes are gone.
LEMMA Shift ==
    ASSUME NEW c \in Nat, NEW n \in Nat, NEW t \in 1 .. n, NEW i \in Nat, c + t <= i, i < c + n
    PROVE  i - (c + t) + 1 \in 1 .. n - t /\ t + (i - (c + t) + 1) = i - c + 1
  OBVIOUS

\* A chunk begins: its part of the bytes is the merged range.
LEMMA BeginStep ==
    ASSUME NEW f \in Files, NEW c \in Nat, NEW b \in Seq(Byte), b # <<>>, c + Len(b) <= Size[f],
           NEW base, base = chunk_base(c),
           NEW take, take = Lesser(Len(b), base + ChunkSize - c)
    PROVE  Begun(f, c, b, base, take, CachedRange(c, SubSeq(b, 1, take)), SubSeq(b, take + 1, Len(b)))
<1> DEFINE a == SubSeq(b, 1, take)
           d == SubSeq(b, take + 1, Len(b))
           m == CachedRange(c, a)
<1>1. Len(b) \in Nat /\ Len(b) > 0 /\ Size[f] \in Nat
  BY OffsetFacts
<1>2. /\ base \in Nat /\ base <= c /\ c < base + ChunkSize /\ ChunkSize \in Nat
      /\ \A i \in Nat : base <= i /\ i < base + ChunkSize => chunk_base(i) = base
  BY Zenon, ChunkBase
<1>3. base \in Bases(f)
  <2>1. c < Size[f]
    BY <1>1
  <2> QED BY Zenon, <2>1, OffsetFacts
<1>4. /\ take \in 1 .. Len(b) /\ c + take \in Nat /\ c + take <= base + ChunkSize
      /\ take = Len(b) \/ c + take = base + ChunkSize
  BY SMTT(30), <1>1, <1>2 DEF Lesser
<1>5. /\ a \in Seq(Byte) /\ Len(a) = take /\ a # <<>>
      /\ \A k \in 1 .. take : a[k] = b[k]
  BY <1>1, <1>4
<1>6. /\ d \in Seq(Byte) /\ Len(d) = Len(b) - take
      /\ \A k \in 1 .. Len(b) - take : d[k] = b[take + k]
  BY SMTT(30), <1>1, <1>4
<1> HIDE DEF a, d
<1>7. m.offset = c /\ m.bytes = a /\ m \in CachedRanges /\ end(m) = c + take
  BY Zenon, <1>5 DEF CachedRange, CachedRanges, end
<1> HIDE DEF m
<1>8. Fits(f, base, m)
  <2>1. c + take <= Size[f]
    BY <1>1, <1>4
  <2> QED BY Zenon, <1>2, <1>4, <1>5, <1>7, <2>1 DEF Fits
<1>9. ASSUME NEW i \in Nat, c <= i, i < c + take PROVE ByteAt(m, i) = b[i - c + 1] /\ chunk_base(i) = base
  <2>1. i - c + 1 \in 1 .. take /\ base <= i /\ i < base + ChunkSize
    <3>1. ASSUME NEW t \in Nat, NEW e \in Nat, NEW z \in Nat, c + t <= e + z, e <= c, i < c + t
          PROVE  i - c + 1 \in 1 .. t /\ e <= i /\ i < e + z
      BY <1>9, <3>1
    <3>2. take \in Nat
      BY <1>1, <1>4
    <3> QED BY Zenon, <1>2, <1>4, <1>9, <3>1, <3>2
  <2> QED BY Zenon, <1>2, <1>5, <1>7, <2>1 DEF ByteAt
<1>10. ASSUME NEW i \in Nat, c + take <= i, i < c + Len(b) PROVE d[i - (c + take) + 1] = b[i - c + 1]
  <2>1. i - (c + take) + 1 \in 1 .. Len(b) - take /\ take + (i - (c + take) + 1) = i - c + 1
    <3>1. \A n \in Nat : \A t \in 1 .. n : c + t <= i /\ i < c + n =>
             i - (c + t) + 1 \in 1 .. n - t /\ t + (i - (c + t) + 1) = i - c + 1
      BY Zenon, Shift
    <3> QED BY Zenon, <1>1, <1>4, <1>10, <3>1
  <2> QED BY Zenon, <1>6, <2>1
<1>11. Begun(f, c, b, base, take, m, d)
  BY Zenon, <1>1, <1>2, <1>3, <1>4, <1>6, <1>7, <1>8, <1>9, <1>10 DEF Begun
<1> QED BY Zenon, <1>11 DEF m, a, d

\* CachedFile::insert goes to a chunk.
LEMMA ChunkStep ==
    ASSUME CacheInv, FileInsert
    PROVE  CacheInv'
<1> SUFFICES ASSUME NEW f, NEW c, NEW b, call.file = f, call.cursor = c, call.bytes = b
             PROVE  CacheInv'
  BY Zenon
<1> DEFINE base == chunk_base(c)
           take == Lesser(Len(b), base + ChunkSize - c)
           m == CachedRange(c, SubSeq(b, 1, take))
           d == SubSeq(b, take + 1, Len(b))
           s == files[f][base]
<1>1. /\ pc = "File" /\ pc' = "Chunk" /\ b # <<>> /\ files' = files /\ recorded' = recorded
      /\ call'.file = f /\ call'.cursor = c + take /\ call'.bytes = d
      /\ work'.base = base /\ work'.next = 1 /\ work'.retained = <<>> /\ work'.merged = m
  BY Zenon DEF FileInsert
<1>2. /\ f \in Files /\ c \in Nat /\ b \in Seq(Byte) /\ c + Len(b) <= Size[f]
      /\ \A i \in Offsets(f) : Pending(f, i) => recorded[f][i] = b[i - c + 1]
      /\ \A g, i : Pending(g, i) <=> g = f /\ c <= i /\ i < c + Len(b)
  BY Zenon, <1>1 DEF CacheInv, CallInv, Pending
<1> HIDE DEF base, take
<1>3. /\ base \in Bases(f) /\ base \in Nat /\ Fits(f, base, m)
      /\ m.offset = c /\ end(m) = c + take /\ take \in 1 .. Len(b) /\ c + take \in Nat
      /\ d \in Seq(Byte) /\ Len(d) = Len(b) - take /\ Len(b) \in Nat
      /\ take = Len(b) \/ c + take = base + ChunkSize
      /\ \A i \in Nat : c <= i /\ i < c + take => ByteAt(m, i) = b[i - c + 1] /\ chunk_base(i) = base
      /\ \A i \in Nat : c + take <= i /\ i < c + Len(b) => d[i - (c + take) + 1] = b[i - c + 1]
  <2>1. base = chunk_base(c) /\ take = Lesser(Len(b), base + ChunkSize - c)
    BY Zenon DEF base, take
  <2>3. b # <<>> /\ f \in Files /\ c \in Nat /\ b \in Seq(Byte) /\ c + Len(b) <= Size[f]
    BY Zenon, <1>1, <1>2
  <2>4. Begun(f, c, b, base, take, m, d)
    BY Zenon, <2>1, <2>3, BeginStep
  <2> HIDE DEF m, d
  <2> QED BY Zenon, <2>4 DEF Begun
<1> HIDE DEF m, d
<1>4. /\ c + take + Len(d) = c + Len(b)
      /\ \A i \in Nat : c + take <= i => c <= i
      /\ \A i \in Nat : i < c + take => i < c + Len(b)
      /\ \A i \in Nat : (c <= i /\ i < c + Len(b)) <=>
            (c <= i /\ i < c + take) \/ (c + take <= i /\ i < c + Len(b))
      /\ \A i \in Nat : c + take <= i /\ i < c + Len(b) => c + take = base + ChunkSize /\ ~(i < base + ChunkSize)
  <2>1. /\ c \in Nat /\ take \in 1 .. Len(b) /\ Len(b) \in Nat /\ Len(d) = Len(b) - take
        /\ base \in Nat /\ ChunkSize \in Nat /\ (take = Len(b) \/ c + take = base + ChunkSize)
    BY Zenon, <1>2, <1>3, ChunkBase
  <2> QED BY <2>1
<1>5. \A g, i : Pending(g, i)' <=> g = f /\ c + take <= i /\ i < c + Len(b)
  BY Zenon, <1>1, <1>4 DEF Pending
<1>6. \A g, x : Current(g, x)' <=> g = f /\ x = base
  BY Zenon, <1>1 DEF Current
<1>7. \A i \in Nat : Covers(m, i) <=> c <= i /\ i < c + take
  BY Zenon, <1>3 DEF Covers
<1>8. FilesInv'
  BY Zenon, <1>1 DEF CacheInv, FilesInv
<1>9. CallInv'
  <2>1. ASSUME NEW i \in Offsets(f), Pending(f, i)' PROVE recorded'[f][i] = d[i - (c + take) + 1]
    <3>1. i \in Nat
      BY Zenon, <1>2, OffsetFacts
    <3>2. Pending(f, i)
      BY Zenon, <1>2, <1>4, <1>5, <2>1, <3>1
    <3> QED BY Zenon, <1>1, <1>2, <1>3, <1>5, <2>1, <3>1, <3>2
  <2>2. \A i \in Offsets(call'.file) :
            Pending(call.file, i)' => recorded'[call'.file][i] = call'.bytes[i - call'.cursor + 1]
    BY Zenon, <1>1, <2>1 DEF Pending
  <2>3. call'.cursor + Len(call'.bytes) <= Size[call'.file]
    BY Zenon, <1>1, <1>2, <1>4
  <2> QED BY Zenon, <1>1, <1>2, <1>3, <2>2, <2>3 DEF CallInv
<1>10. ContentInv'
  <2> SUFFICES ASSUME NEW g \in Files, NEW i \in Offsets(g), ~Pending(g, i)', ~Current(g, chunk_base(i))'
               PROVE  Agree(files'[g][chunk_base(i)], i, recorded'[g][i])
    BY Zenon DEF ContentInv
  <2>1. i \in Nat
    BY Zenon, OffsetFacts
  <2>2. ~Pending(g, i) /\ ~Current(g, chunk_base(i))
    BY Zenon, <1>1, <1>2, <1>3, <1>4, <1>5, <1>6, <2>1 DEF Current
  <2> QED BY Zenon, <1>1, <2>2 DEF CacheInv, ContentInv
<1>11. WorkInv'
  <2>1. /\ s \in Seq(CachedRanges) /\ Len(s) \in Nat /\ 1 \in 1 .. Len(s) + 1 /\ Len(<<>>) = 0 /\ 1 .. Len(<<>>) = {}
    <3>1. s \in Seq(CachedRanges)
      BY Zenon, <1>2, <1>3 DEF CacheInv, FilesInv, ChunkOK
    <3> HIDE DEF s
    <3> QED BY <3>1
  <2>2. ChunkOK(f, base, <<>>)
    <3>1. <<>> \in Seq(CachedRanges)
      OBVIOUS
    <3> QED BY Zenon, <2>1, <3>1 DEF ChunkOK
  <2>3. ASSUME NEW i \in Offsets(f), chunk_base(i) = base
        PROVE  ~Pending(f, i)' /\ Has(m, <<>>, s, 1, i, recorded[f][i])
    <3>1. i \in Nat /\ i < base + ChunkSize
      BY Zenon, <1>2, <2>3, OffsetFacts, ChunkBase
    <3>2. ~Pending(f, i)'
      BY Zenon, <1>4, <1>5, <3>1
    <3>3. ASSUME Covers(m, i) PROVE ByteAt(m, i) = recorded[f][i]
      BY Zenon, <1>2, <1>3, <1>4, <1>7, <3>1, <3>3
    <3>4. ASSUME ~Covers(m, i) PROVE Agree(s, i, recorded[f][i])
      <4>1. ~Pending(f, i) /\ ~Current(f, chunk_base(i))
        BY Zenon, <1>1, <1>2, <1>4, <1>5, <1>7, <3>1, <3>2, <3>4 DEF Current
      <4> QED BY Zenon, <1>2, <2>3, <4>1 DEF CacheInv, ContentInv
    <3> QED BY Zenon, <2>1, <3>2, <3>3, <3>4 DEF Has, Agree
  <2>4. WorkOK(f, base, m, <<>>, s, 1, recorded[f])
    BY Zenon, <1>3, <2>1, <2>2, <2>3 DEF WorkOK
  <2>5. Ranges' = s
    BY Zenon, <1>1 DEF Ranges
  <2>6. \A i \in Offsets(call'.file) : chunk_base(i) = work'.base => ~Pending(call.file, i)'
    BY Zenon, <1>1, <2>3 DEF Pending
  <2>7. WorkOK(call'.file, work'.base, work'.merged, work'.retained, Ranges', work'.next, recorded'[call'.file])
    BY Zenon, <1>1, <2>4, <2>5
  <2> QED BY Zenon, <2>6, <2>7 DEF WorkInv
<1> QED BY Zenon, <1>8, <1>9, <1>10, <1>11 DEF CacheInv

\* The loop of CachedChunk::insert goes on.
LEMMA LoopStep ==
    ASSUME CacheInv, Absorb
    PROVE  CacheInv'
<1> DEFINE f == call.file
           base == work.base
           m == work.merged
           r == work.retained
           n == work.next
           s == Ranges
<1>1. /\ pc = "Chunk" /\ n <= Len(s) /\ UNCHANGED <<files, pc, call, recorded>>
      /\ work'.base = base /\ work'.next = n + 1
      /\ \/ Apart(s[n], m) /\ work'.merged = m /\ work'.retained = Append(r, s[n])
         \/ ~Apart(s[n], m) /\ work'.merged = Merge(m, s[n]) /\ work'.retained = r
  BY Zenon DEF Absorb
<1>2. /\ f \in Files /\ WorkOK(f, base, m, r, s, n, recorded[f])
      /\ \A i \in Offsets(f) : chunk_base(i) = base => ~Pending(f, i)
  BY Zenon, <1>1 DEF CacheInv, CallInv, WorkInv
<1>3. ChunkOK(f, base, s)
  BY Zenon, <1>2 DEF CacheInv, FilesInv, WorkOK, Ranges
<1> HIDE DEF f, base, m, r, n, s
<1>4. WorkOK(f, base, work'.merged, work'.retained, s, n + 1, recorded[f])
  <2>1. CASE Apart(s[n], m) /\ work'.merged = m /\ work'.retained = Append(r, s[n])
    BY Zenon, <1>1, <1>2, <1>3, <2>1, RetainStep
  <2>2. CASE ~Apart(s[n], m) /\ work'.merged = Merge(m, s[n]) /\ work'.retained = r
    BY Zenon, <1>1, <1>2, <1>3, <2>2, MergeStep
  <2> QED BY Zenon, <1>1, <2>1, <2>2
<1>5. /\ \A g, i : Pending(g, i)' <=> Pending(g, i)
      /\ \A g, x : Current(g, x)' <=> Current(g, x)
      /\ Ranges' = s /\ call'.file = f
  BY Zenon, <1>1 DEF Pending, Current, Ranges, s, base, f
<1>6. FilesInv'
  BY Zenon, <1>1 DEF CacheInv, FilesInv
<1>7. CallInv'
  BY Zenon, <1>1, <1>5 DEF CacheInv, CallInv
<1>8. ContentInv'
  BY Zenon, <1>1, <1>5 DEF CacheInv, ContentInv
<1>9. WorkInv'
  BY Zenon, <1>1, <1>2, <1>4, <1>5 DEF WorkInv
<1> QED BY Zenon, <1>6, <1>7, <1>8, <1>9 DEF CacheInv

\* And ends.
LEMMA StoreStep ==
    ASSUME CacheInv, ChunkInsert
    PROVE  CacheInv'
<1> DEFINE f == call.file
           base == work.base
           m == work.merged
           r == work.retained
           n == work.next
           s == Ranges
           all == Append(r, m)
<1>1. /\ pc = "Chunk" /\ n > Len(s) /\ UNCHANGED <<call, recorded>> /\ pc' = "File"
  BY Zenon DEF ChunkInsert
<1>2. PICK p \in Bijection(1 .. Len(all), 1 .. Len(all)) :
          LET sorted == [i \in 1 .. Len(all) |-> all[p[i]]] IN
          /\ \A i, j \in 1 .. Len(all) : i < j => sorted[i].offset <= sorted[j].offset
          /\ files' = [files EXCEPT ![f][base] = sorted]
  BY Zenon DEF ChunkInsert
<1> DEFINE t == [i \in 1 .. Len(all) |-> all[p[i]]]
<1>3. /\ f \in Files /\ WorkOK(f, base, m, r, s, n, recorded[f]) /\ base \in Bases(f)
      /\ \A i \in Offsets(f) : chunk_base(i) = base => ~Pending(f, i)
  BY Zenon, <1>1 DEF CacheInv, CallInv, WorkInv, WorkOK
<1>4. s \in Seq(CachedRanges)
  BY Zenon, <1>3 DEF CacheInv, FilesInv, ChunkOK, Ranges
<1>5. files' = [files EXCEPT ![f][base] = t]
  BY Zenon, <1>2
<1>6. /\ ChunkOK(f, base, t)
      /\ \A i \in Offsets(f) : chunk_base(i) = base => Agree(t, i, recorded[f][i])
  <2>1. \A i, j \in 1 .. Len(all) : i < j => t[i].offset <= t[j].offset
    BY Zenon, <1>2
  <2> HIDE DEF f, base, m, r, n, s
  <2>2. ASSUME NEW a, a = all, NEW u, u = t PROVE /\ ChunkOK(f, base, u)
                 /\ \A i \in Offsets(f) : chunk_base(i) = base => Agree(u, i, recorded[f][i])
    BY Zenon, <1>1, <1>2, <1>3, <1>4, <2>1, <2>2, SortStep
  <2> QED BY Zenon, <2>2
<1> HIDE DEF f, base, m, r, n, s, all, t
<1>7. DOMAIN files = Files /\ \A g \in Files : DOMAIN files[g] = Bases(g)
  BY Zenon DEF CacheInv, FilesInv
<1>8. /\ DOMAIN files' = Files /\ \A g \in Files : DOMAIN files'[g] = Bases(g)
      /\ \A g \in Files : \A x \in Bases(g) : files'[g][x] = IF g = f /\ x = base THEN t ELSE files[g][x]
  <2>1. files' = [files EXCEPT ![f] = [files[f] EXCEPT ![base] = t]]
    BY Zenon, <1>5
  <2>2. DOMAIN files' = Files /\ files'[f] = [files[f] EXCEPT ![base] = t] /\ \A g \in Files \ {f} : files'[g] = files[g]
    BY Zenon, <1>3, <1>7, <2>1
  <2>3. DOMAIN files'[f] = Bases(f) /\ \A x \in Bases(f) : files'[f][x] = IF x = base THEN t ELSE files[f][x]
    BY Zenon, <1>3, <1>7, <2>2
  <2> QED BY Zenon, <1>7, <2>2, <2>3
<1>9. FilesInv'
  <2>1. \A g \in Files : \A x \in Bases(g) : ChunkOK(g, x, files'[g][x])
    BY Zenon, <1>6, <1>8 DEF CacheInv, FilesInv
  <2> QED BY Zenon, <1>1, <1>8, <2>1 DEF CacheInv, FilesInv
<1>10. \A g, i : Pending(g, i)' <=> Pending(g, i)
  BY Zenon, <1>1 DEF Pending
<1>11. CallInv'
  BY Zenon, <1>1, <1>10 DEF CacheInv, CallInv
<1>12. ContentInv'
  <2> SUFFICES ASSUME NEW g \in Files, NEW i \in Offsets(g), ~Pending(g, i)'
               PROVE  Agree(files'[g][chunk_base(i)], i, recorded'[g][i])
    BY Zenon DEF ContentInv
  <2>1. chunk_base(i) \in Bases(g)
    BY Zenon, OffsetFacts
  <2>2. CASE g = f /\ chunk_base(i) = base
    BY Zenon, <1>1, <1>6, <1>8, <2>1, <2>2
  <2>3. CASE ~(g = f /\ chunk_base(i) = base)
    <3>1. ~Current(g, chunk_base(i)) /\ ~Pending(g, i)
      BY Zenon, <1>10, <2>3 DEF Current, f, base
    <3> QED BY Zenon, <1>1, <1>8, <2>1, <2>3, <3>1 DEF CacheInv, ContentInv
  <2> QED BY Zenon, <2>2, <2>3
<1>13. WorkInv'
  BY Zenon, <1>1 DEF WorkInv
<1> QED BY Zenon, <1>9, <1>11, <1>12, <1>13 DEF CacheInv

-----------------------------------------------------------------------------
(* The invariant *)

\* An empty cache agrees with nothing recorded.
LEMMA CacheInit == Init => CacheInv
<1> SUFFICES ASSUME Init PROVE CacheInv
  OBVIOUS
<1>1. /\ files = [f \in Files |-> [base \in Bases(f) |-> <<>>]]
      /\ pc = "Idle" /\ recorded = [f \in Files |-> Nothing(f)]
  BY Zenon DEF Init
<1>2. pc # "File" /\ pc # "Chunk"
  BY <1>1
<1>3. /\ DOMAIN files = Files /\ DOMAIN recorded = Files
      /\ \A f \in Files : DOMAIN files[f] = Bases(f)
      /\ \A f \in Files : \A base \in Bases(f) : files[f][base] = <<>>
      /\ \A f \in Files : recorded[f] = [o \in Offsets(f) |-> None]
  BY Zenon, <1>1 DEF Nothing
<1>4. \A f \in Files : recorded[f] \in [Offsets(f) -> Byte \cup {None}]
  BY Zenon, <1>3
<1>5. /\ <<>> \in Seq(CachedRanges)
      /\ \A k : k \notin 1 .. Len(<<>>)
  OBVIOUS
<1>6. \A f, base : ChunkOK(f, base, <<>>)
  BY Zenon, <1>5 DEF ChunkOK
<1>7. FilesInv
  BY Zenon, <1>1, <1>3, <1>4, <1>6 DEF FilesInv
<1>8. ContentInv
  <2> SUFFICES ASSUME NEW f \in Files, NEW i \in Offsets(f)
               PROVE  Agree(files[f][chunk_base(i)], i, recorded[f][i])
    BY Zenon DEF ContentInv
  <2>1. files[f][chunk_base(i)] = <<>> /\ recorded[f][i] = None
    BY Zenon, <1>3, OffsetFacts
  <2> QED BY Zenon, <2>1, <1>5 DEF Agree
<1> QED BY Zenon, <1>1, <1>2, <1>7, <1>8 DEF CacheInv, CallInv, WorkInv

\* Every turn of the two loops keeps it.
LEMMA CacheStep == CacheInv /\ [Next]_vars => CacheInv'
<1> SUFFICES ASSUME CacheInv, [Next]_vars PROVE CacheInv'
  OBVIOUS
<1>1. CASE UNCHANGED vars
  <2>1. files' = files /\ pc' = pc /\ call' = call /\ work' = work /\ recorded' = recorded
    BY <1>1 DEF vars
  <2>2. \A f, i : Pending(f, i)' <=> Pending(f, i)
    BY Zenon, <2>1 DEF Pending
  <2>3. \A f, x : Current(f, x)' <=> Current(f, x)
    BY Zenon, <2>1 DEF Current
  <2>4. FilesInv'
    BY Zenon, <2>1 DEF CacheInv, FilesInv
  <2>5. CallInv'
    BY Zenon, <2>1, <2>2 DEF CacheInv, CallInv
  <2>6. ContentInv'
    BY Zenon, <2>1, <2>2, <2>3 DEF CacheInv, ContentInv
  <2>7. WorkInv'
    BY Zenon, <2>1, <2>2 DEF CacheInv, WorkInv, Ranges
  <2> QED BY Zenon, <2>4, <2>5, <2>6, <2>7 DEF CacheInv
<1>2. CASE \E f \in Files : \E o \in 0 .. Size[f] : \E s \in Responses(f, o) : record_cached_read(f, o, s)
  BY Zenon, <1>2, StartStep
<1>3. CASE FileInsert
  BY Zenon, <1>3, ChunkStep
<1>4. CASE FileInserted
  BY Zenon, <1>4, EndStep
<1>5. CASE Absorb
  BY Zenon, <1>5, LoopStep
<1>6. CASE ChunkInsert
  BY Zenon, <1>6, StoreStep
<1> QED BY Zenon, <1>1, <1>2, <1>3, <1>4, <1>5, <1>6 DEF Next

LEMMA CacheSafe == Spec => []CacheInv
BY CacheInit, CacheStep, PTL DEF Spec

\* Every range lies within its file and holds bytes of it, at every turn of the loops.
THEOREM CacheTypes == Spec => []CacheTypeOK
<1>1. CacheInv => CacheTypeOK
  <2> SUFFICES ASSUME CacheInv, NEW f \in Files, NEW base \in Bases(f), NEW i \in DOMAIN files[f][base],
                      NEW r, r = files[f][base][i]
               PROVE  r.offset \in Offsets(f) /\ r.bytes \in Strings(f, r.offset)
    BY Zenon DEF CacheTypeOK
  <2>1. ChunkOK(f, base, files[f][base])
    BY Zenon DEF CacheInv, FilesInv
  <2>2. DOMAIN files[f][base] = 1 .. Len(files[f][base])
    BY <2>1 DEF ChunkOK
  <2>3. Fits(f, base, r)
    BY Zenon, <2>1, <2>2 DEF ChunkOK
  <2>4. /\ r.offset \in Nat /\ r.bytes \in Seq(Byte) /\ Len(r.bytes) \in Nat
        /\ r.offset < end(r) /\ end(r) = r.offset + Len(r.bytes) /\ end(r) <= Size[f] /\ Size[f] \in Nat
    BY Zenon, <2>3, RangeFacts, OffsetFacts DEF Fits
  <2>a. ASSUME NEW a \in Nat, NEW n \in Nat, NEW z \in Nat, a < a + n, a + n <= z
        PROVE  a < z /\ n \in 1 .. z - a
    BY <2>a
  <2>5. r.offset < Size[f] /\ Len(r.bytes) \in 1 .. Size[f] - r.offset
    BY Zenon, <2>4, <2>a
  <2>6. r.bytes \in [1 .. Len(r.bytes) -> Byte]
    BY <2>4
  <2>7. r.offset \in Offsets(f)
    BY Zenon, <2>4, <2>5, OffsetFacts
  <2> QED BY Zenon, <2>5, <2>6, <2>7 DEF Strings
<1> QED BY CacheSafe, <1>1, PTL

\* The ranges of a chunk are sorted, within the chunk, and neither overlap nor
\* touch, at every turn of the loops: CachedChunk::insert merges all that it must.
THEOREM ApartTheorem == Spec => []RangesApart
<1>1. CacheInv => RangesApart
  BY Zenon DEF CacheInv, FilesInv, ChunkOK, Fits, RangesApart
<1> QED BY CacheSafe, <1>1, PTL

-----------------------------------------------------------------------------
(* Reading *)

\* Each of the n offsets from o is covered.
Gapless(ranges, o, n) ==
    \A i \in Nat : o <= i /\ i < o + n => \E k \in 1 .. Len(ranges) : Covers(ranges[k], i)

\* Range k alone has the byte at offset o, and has all n from there on.
OnlyRange(ranges, k, o, n) ==
    /\ Covers(ranges[k], o) /\ o + n <= end(ranges[k])
    /\ \A j \in 1 .. Len(ranges) : Covers(ranges[j], o) => j = k

\* The range that has the byte at offset o has all that the chunk has from there on
\* without a gap: no other range touches it.
LEMMA OneRange ==
    ASSUME NEW f \in Files, NEW base, NEW ranges, ChunkOK(f, base, ranges),
           NEW o \in Nat, NEW n \in Nat, n >= 1, Gapless(ranges, o, n)
    PROVE  \E k \in 1 .. Len(ranges) : OnlyRange(ranges, k, o, n)
<1>1. /\ \A k \in 1 .. Len(ranges) : ranges[k].offset \in Nat /\ end(ranges[k]) \in Nat
      /\ \A j, k \in 1 .. Len(ranges) : j < k => end(ranges[j]) < ranges[k].offset
  BY Zenon, RangeFacts DEF ChunkOK, Fits
<1>2. \A j, k \in 1 .. Len(ranges) : j < k \/ j = k \/ k < j
  <2>1. Len(ranges) \in Nat
    BY DEF ChunkOK
  <2> QED BY <2>1
<1>4. o <= o /\ o < o + n
  OBVIOUS
<1>5. PICK k \in 1 .. Len(ranges) : Covers(ranges[k], o)
  BY Zenon, <1>4 DEF Gapless
<1>6. ASSUME NEW i \in Nat, NEW a \in 1 .. Len(ranges), NEW b \in 1 .. Len(ranges), a < b,
             i < end(ranges[a]), ranges[b].offset <= i
      PROVE  FALSE
  <2>1. end(ranges[a]) < ranges[b].offset
    BY Zenon, <1>1, <1>6
  <2> DEFINE x == end(ranges[a])
             y == ranges[b].offset
  <2>2. x \in Nat /\ y \in Nat /\ x < y /\ i < x /\ y <= i
    BY Zenon, <1>1, <1>6, <2>1
  <2> HIDE DEF x, y
  <2> QED BY <2>2
<1>7. \A j \in 1 .. Len(ranges) : Covers(ranges[j], o) => j = k
  BY Zenon, <1>2, <1>5, <1>6 DEF Covers
<1>8. o + n <= end(ranges[k])
  <2> SUFFICES ASSUME ~(o + n <= end(ranges[k])) PROVE FALSE
    OBVIOUS
  <2> DEFINE e == end(ranges[k])
  <2>1. e \in Nat /\ o < e /\ ~(o + n <= e)
    BY Zenon, <1>1, <1>5 DEF Covers
  <2> HIDE DEF e
  <2>2. o <= e /\ e < o + n /\ ~(e < e)
    BY <2>1
  <2>3. PICK j \in 1 .. Len(ranges) : Covers(ranges[j], e)
    BY Zenon, <2>1, <2>2 DEF Gapless
  <2>4. ranges[j].offset \in Nat /\ end(ranges[j]) \in Nat /\ ranges[k].offset \in Nat
        /\ ranges[j].offset <= e /\ e < end(ranges[j]) /\ ranges[k].offset <= o
    BY Zenon, <1>1, <1>5, <2>3 DEF Covers
  <2>5. j # k
    BY Zenon, <2>2, <2>4 DEF e
  <2>6. ~(j < k)
    <3>1. o < end(ranges[j])
      BY <2>1, <2>4
    <3> QED BY Zenon, <1>6, <2>4, <3>1
  <2>7. ~(k < j)
    <3> SUFFICES ASSUME k < j PROVE FALSE
      OBVIOUS
    <3>1. e < ranges[j].offset
      BY Zenon, <1>1 DEF e
    <3> QED BY <2>1, <2>4, <3>1
  <2> QED BY Zenon, <1>2, <2>5, <2>6, <2>7
<1> QED BY Zenon, <1>5, <1>7, <1>8 DEF OnlyRange

\* A read of n bytes at o gives nothing if one of them is unknown, else those known.
ReadsKnown(ranges, o, n, known) ==
    /\ \A i \in Nat : o <= i /\ i < o + n /\ known[i] = None => ChunkRead(ranges, o, n) = None
    /\ (\A i \in Nat : o <= i /\ i < o + n => known[i] # None) =>
          /\ ChunkRead(ranges, o, n) # None
          /\ \A i \in Nat : o <= i /\ i < o + n => ChunkRead(ranges, o, n)[i - o + 1] = known[i]

\* The n bytes from offset o of the bytes b at offset a.
LEMMA PartFacts ==
    ASSUME NEW b \in Seq(Byte), NEW a \in Nat, NEW o \in Nat, NEW n \in Nat, n >= 1, a <= o, o + n <= a + Len(b)
    PROVE  /\ SubSeq(b, o - a + 1, o + n - a) \in [1 .. n -> Byte]
           /\ \A x \in 1 .. n : SubSeq(b, o - a + 1, o + n - a)[x] = b[o - a + x]
<1> DEFINE u == o - a + 1
           w == o + n - a
<1>1. u \in 1 .. Len(b) /\ w \in 1 .. Len(b) /\ w - u + 1 = n /\ Len(b) \in Nat
  OBVIOUS
<1>2. \A x \in 1 .. n : u + x - 1 = o - a + x
  OBVIOUS
<1> HIDE DEF u, w
<1>3. /\ SubSeq(b, u, w) \in Seq(Byte) /\ Len(SubSeq(b, u, w)) = w - u + 1
      /\ \A x \in 1 .. w - u + 1 : SubSeq(b, u, w)[x] = b[u + x - 1]
  BY <1>1
<1>4. SubSeq(b, u, w) \in [1 .. Len(SubSeq(b, u, w)) -> Byte]
  <2>1. ASSUME NEW t \in Seq(Byte) PROVE t \in [1 .. Len(t) -> Byte]
    OBVIOUS
  <2> QED BY Zenon, <1>3, <2>1
<1>5. /\ SubSeq(b, u, w) \in [1 .. n -> Byte]
      /\ \A x \in 1 .. n : SubSeq(b, u, w)[x] = b[o - a + x]
  BY Zenon, <1>1, <1>2, <1>3, <1>4
<1> QED BY Zenon, <1>5 DEF u, w

\* CachedChunk::read of a part of the file that lies in one chunk, whose ranges
\* have what is known.
LEMMA ChunkReads ==
    ASSUME NEW f \in Files, NEW base \in Bases(f), NEW ranges, ChunkOK(f, base, ranges),
           NEW known \in [Offsets(f) -> Byte \cup {None}],
           \A i \in Offsets(f) : chunk_base(i) = base => Agree(ranges, i, known[i]),
           NEW o \in Nat, NEW n \in Nat, n >= 1, base <= o, o + n <= base + ChunkSize, o + n <= Size[f]
    PROVE  ReadsKnown(ranges, o, n, known)
<1> DEFINE hits == {i \in 1 .. Len(ranges) : ranges[i].offset <= o /\ end(ranges[i]) >= o + n}
           least == CHOOSE i \in hits : \A j \in hits : i <= j
<1>1. base \in Nat /\ ChunkSize \in Nat /\ Size[f] \in Nat /\ o + n \in Nat
  <2>1. o + n \in Nat
    OBVIOUS
  <2> QED BY Zenon, <2>1, OffsetFacts, ChunkBase
<1>2. ASSUME NEW i \in Nat, o <= i, i < o + n
      PROVE  i \in Offsets(f) /\ chunk_base(i) = base /\ Agree(ranges, i, known[i])
  <2>1. base <= i /\ i < base + ChunkSize /\ i < Size[f]
    BY <1>1, <1>2
  <2> QED BY Zenon, <2>1, OffsetFacts
<1>3. \A k \in 1 .. Len(ranges) : ranges[k] \in CachedRanges /\ ranges[k].offset \in Nat /\ end(ranges[k]) \in Nat
  BY Zenon, RangeFacts DEF ChunkOK, Fits
<1>4. ASSUME NEW k \in hits, NEW i \in Nat, o <= i, i < o + n
      PROVE  k \in 1 .. Len(ranges) /\ Covers(ranges[k], i)
  <2>1. k \in 1 .. Len(ranges) /\ ranges[k].offset <= o /\ end(ranges[k]) >= o + n
    BY Zenon
  <2> DEFINE a == ranges[k].offset
             z == end(ranges[k])
  <2>2. a \in Nat /\ z \in Nat /\ a <= o /\ z >= o + n
    BY Zenon, <1>3, <2>1
  <2> HIDE DEF a, z, hits
  <2>3. a <= i /\ i < z
    BY <1>1, <1>4, <2>2
  <2> QED BY Zenon, <2>1, <2>3 DEF Covers, a, z
<1> HIDE DEF hits
<1>5. ASSUME NEW i \in Nat, o <= i, i < o + n, known[i] = None PROVE ChunkRead(ranges, o, n) = None
  <2>1. ASSUME NEW k \in hits PROVE FALSE
    <3>1. k \in 1 .. Len(ranges) /\ Covers(ranges[k], i)
      BY Zenon, <1>4, <1>5
    <3>2. ByteAt(ranges[k], i) = None
      BY Zenon, <1>2, <1>5, <3>1 DEF Agree
    <3>3. ByteAt(ranges[k], i) \in Byte
      BY Zenon, <1>3, <3>1, RangeFacts
    <3> QED BY Zenon, <3>2, <3>3, CacheAssumptions
  <2>2. hits = {}
    BY Zenon, <2>1
  <2> QED BY Zenon, <2>2 DEF ChunkRead, hits
<1>6. ASSUME \A i \in Nat : o <= i /\ i < o + n => known[i] # None
      PROVE  /\ ChunkRead(ranges, o, n) # None
             /\ \A i \in Nat : o <= i /\ i < o + n => ChunkRead(ranges, o, n)[i - o + 1] = known[i]
  <2>1. \A i \in Nat : o <= i /\ i < o + n => \E k \in 1 .. Len(ranges) : Covers(ranges[k], i)
    BY Zenon, <1>2, <1>6 DEF Agree
  <2>2. PICK k \in 1 .. Len(ranges) : /\ Covers(ranges[k], o) /\ o + n <= end(ranges[k])
                                      /\ \A j \in 1 .. Len(ranges) : Covers(ranges[j], o) => j = k
    <3>1. Gapless(ranges, o, n)
      BY Zenon, <2>1 DEF Gapless
    <3>2. \E k \in 1 .. Len(ranges) : OnlyRange(ranges, k, o, n)
      BY Zenon, <3>1, OneRange
    <3> QED BY Zenon, <3>2 DEF OnlyRange
  <2> DEFINE r == ranges[k]
             s == SubSeq(r.bytes, o - r.offset + 1, o + n - r.offset)
  <2>3. /\ r \in CachedRanges /\ r.offset \in Nat /\ r.bytes \in Seq(Byte) /\ Len(r.bytes) \in Nat
        /\ end(r) = r.offset + Len(r.bytes) /\ r.offset <= o /\ o + n <= end(r)
    BY Zenon, <1>3, <2>2, RangeFacts DEF Covers
  <2>4. o <= o /\ o < o + n /\ (o + n <= end(r) => end(r) >= o + n) /\ k <= k
    BY <1>1, <2>3
  <2>5. k \in hits
    BY Zenon, <2>2, <2>3, <2>4 DEF hits
  <2>6. \A j \in hits : j = k
    BY Zenon, <1>4, <2>2, <2>4
  <2>7. least = k
    <3>1. \E i \in hits : \A j \in hits : i <= j
      BY Zenon, <2>4, <2>5, <2>6
    <3> QED BY Zenon, <2>6, <3>1
  <2>8. ChunkRead(ranges, o, n) = s
    BY Zenon, <2>5, <2>7 DEF ChunkRead, hits
  <2>10. s \in [1 .. n -> Byte] /\ \A x \in 1 .. n : s[x] = r.bytes[o - r.offset + x]
    <3>1. /\ r.bytes \in Seq(Byte) /\ r.offset \in Nat /\ r.offset <= o /\ o + n <= r.offset + Len(r.bytes)
          /\ o \in Nat /\ n \in Nat /\ n >= 1
      BY Zenon, <2>3
    <3> HIDE DEF r
    <3>2. /\ SubSeq(r.bytes, o - r.offset + 1, o + n - r.offset) \in [1 .. n -> Byte]
          /\ \A x \in 1 .. n : SubSeq(r.bytes, o - r.offset + 1, o + n - r.offset)[x] = r.bytes[o - r.offset + x]
      BY ZenonT(60), <3>1, PartFacts
    <3> QED BY Zenon, <3>2
  <2>11. s # None
    <3>1. n \in 1 .. Size[f] - 0
      BY <1>1
    <3>2. s \in Strings(f, 0)
      BY Zenon, <2>10, <3>1 DEF Strings
    <3> QED BY Zenon, <3>2, CacheAssumptions
  <2>12. ASSUME NEW i \in Nat, o <= i, i < o + n PROVE s[i - o + 1] = known[i]
    <3>1. /\ i - o + 1 \in 1 .. n
          /\ \A a \in Nat : o - a + (i - o + 1) = i - a + 1
      BY <2>12
    <3>2. s[i - o + 1] = ByteAt(r, i)
      <4>1. s[i - o + 1] = r.bytes[o - r.offset + (i - o + 1)]
        BY Zenon, <2>10, <3>1
      <4>2. o - r.offset + (i - o + 1) = i - r.offset + 1
        BY Zenon, <2>3, <3>1
      <4> HIDE DEF s, r
      <4> QED BY Zenon, <4>1, <4>2 DEF ByteAt
    <3>3. Covers(r, i)
      BY Zenon, <1>4, <2>5, <2>12
    <3> QED BY Zenon, <1>2, <2>12, <3>2, <3>3 DEF Agree
  <2> HIDE DEF s
  <2> QED BY Zenon, <2>8, <2>11, <2>12
<1> QED BY Zenon, <1>5, <1>6 DEF ReadsKnown

\* CachedFile::read over chunks that have what is known.
LEMMA FileReads ==
    ASSUME NEW f \in Files, NEW chunks, NEW known \in [Offsets(f) -> Byte \cup {None}],
           \A base \in Bases(f) : ChunkOK(f, base, chunks[base]),
           \A i \in Offsets(f) : Agree(chunks[chunk_base(i)], i, known[i]),
           NEW o \in Offsets(f), NEW n \in 1 .. Size[f] - o
    PROVE  FileRead(chunks, o, n) = Lookup(known, o, n)
<1> DEFINE touched == {chunk_base(i) : i \in o .. o + n - 1}
           From(base) == Greater(base, o)
           To(base) == Lesser(base + ChunkSize, o + n)
           Part(base) == ChunkRead(chunks[base], From(base), To(base) - From(base))
<1>1. o \in Nat /\ Size[f] \in Nat /\ ChunkSize \in Nat
  BY Zenon, OffsetFacts, ChunkBase
<1>2. n \in Nat /\ n >= 1 /\ o + n <= Size[f] /\ o + n \in Nat
  BY <1>1
<1>3. \A i : i \in o .. o + n - 1 <=> i \in Nat /\ o <= i /\ i < o + n
  BY <1>1, <1>2
<1>4. ASSUME NEW i \in Nat, o <= i, i < o + n
      PROVE  LET base == chunk_base(i) IN
             /\ base \in Bases(f) /\ From(base) \in Nat /\ To(base) \in Nat
             /\ From(base) <= i /\ i < To(base) /\ o <= From(base) /\ To(base) <= o + n
             /\ ReadsKnown(chunks[base], From(base), To(base) - From(base), known)
             /\ From(base) + (To(base) - From(base)) = To(base)
  <2> DEFINE base == chunk_base(i)
             a == From(base)
             m == To(base) - From(base)
  <2>1. i \in Offsets(f)
    <3>1. i < Size[f]
      BY <1>1, <1>2, <1>4
    <3> QED BY Zenon, <3>1, OffsetFacts
  <2>2. base \in Bases(f) /\ base \in Nat /\ base <= i /\ i < base + ChunkSize
    BY Zenon, <2>1, OffsetFacts, ChunkBase
  <2> HIDE DEF base
  <2>3. /\ From(base) \in Nat /\ To(base) \in Nat /\ From(base) <= i /\ i < To(base)
        /\ o <= From(base) /\ To(base) <= o + n /\ base <= From(base) /\ To(base) <= base + ChunkSize
    BY <1>1, <1>2, <1>4, <2>2 DEF Greater, Lesser
  <2> HIDE DEF From, To
  <2>4. a \in Nat /\ m \in Nat /\ m >= 1 /\ a + m = To(base)
    BY <2>3
  <2>5. To(base) <= Size[f]
    BY <1>1, <1>2, <2>3
  <2>6. base <= a /\ a + m <= base + ChunkSize /\ a + m <= Size[f]
    BY Zenon, <2>3, <2>4, <2>5
  <2>7. /\ ChunkOK(f, base, chunks[base])
        /\ \A j \in Offsets(f) : chunk_base(j) = base => Agree(chunks[base], j, known[j])
    BY Zenon, <2>2
  <2> HIDE DEF a, m
  <2>8. ReadsKnown(chunks[base], a, m, known)
    BY Zenon, <2>2, <2>4, <2>6, <2>7, ChunkReads
  <2> QED BY Zenon, <2>2, <2>3, <2>4, <2>8 DEF base, a, m
<1> HIDE DEF From, To
<1>5. CASE \E i \in o .. o + n - 1 : known[i] = None
  <2>1. PICK i \in Nat : o <= i /\ i < o + n /\ known[i] = None
    BY Zenon, <1>3, <1>5
  <2>2. Part(chunk_base(i)) = None
    BY Zenon, <1>4, <2>1 DEF ReadsKnown
  <2>3. chunk_base(i) \in touched
    BY Zenon, <1>3, <2>1
  <2>4. Lookup(known, o, n) = None
    BY Zenon, <1>5 DEF Lookup
  <2> QED BY Zenon, <2>2, <2>3, <2>4 DEF FileRead, From, To
<1>6. CASE ~\E i \in o .. o + n - 1 : known[i] = None
  <2>1. \A i \in Nat : o <= i /\ i < o + n => known[i] # None
    BY Zenon, <1>3, <1>6
  <2>2. ASSUME NEW i \in Nat, o <= i, i < o + n
        PROVE  /\ Part(chunk_base(i)) # None
               /\ Part(chunk_base(i))[i - From(chunk_base(i)) + 1] = known[i]
    <3> DEFINE base == chunk_base(i)
               a == From(base)
               m == To(base) - From(base)
    <3>1. /\ a \in Nat /\ To(base) \in Nat /\ a <= i /\ i < To(base) /\ o <= a /\ To(base) <= o + n
          /\ ReadsKnown(chunks[base], a, m, known) /\ a + m = To(base)
      BY Zenon, <1>4, <2>2
    <3> HIDE DEF a, m, base
    <3>2. \A j \in Nat : a <= j /\ j < a + m => o <= j /\ j < o + n
      BY <1>1, <1>2, <3>1
    <3>3. \A j \in Nat : a <= j /\ j < a + m => known[j] # None
      BY Zenon, <2>1, <3>2
    <3>4. ChunkRead(chunks[base], a, m) # None /\ ChunkRead(chunks[base], a, m)[i - a + 1] = known[i]
      BY Zenon, <3>1, <3>3 DEF ReadsKnown
    <3> QED BY Zenon, <3>4 DEF a, m, base
  <2>3. ~\E base \in touched : Part(base) = None
    BY Zenon, <1>3, <2>2
  <2>4. FileRead(chunks, o, n) = [i \in 1 .. n |-> Part(chunk_base(o + i - 1))[o + i - From(chunk_base(o + i - 1))]]
    BY Zenon, <2>3 DEF FileRead, From, To
  <2>5. Lookup(known, o, n) = [i \in 1 .. n |-> known[o + i - 1]]
    BY Zenon, <1>6 DEF Lookup
  <2>6. ASSUME NEW k \in 1 .. n
        PROVE  Part(chunk_base(o + k - 1))[o + k - From(chunk_base(o + k - 1))] = known[o + k - 1]
    <3> DEFINE i == o + k - 1
               a == From(chunk_base(i))
    <3>1. i \in Nat /\ o <= i /\ i < o + n
      BY <1>1, <1>2
    <3>2. a \in Nat
      BY Zenon, <1>4, <3>1
    <3> HIDE DEF a
    <3>3. i - a + 1 = o + k - a
      BY <1>1, <1>2, <3>2
    <3> HIDE DEF i
    <3>4. Part(chunk_base(i))[i - a + 1] = known[i]
      BY Zenon, <2>2, <3>1 DEF a
    <3>5. Part(chunk_base(i))[o + k - a] = known[i]
      BY Zenon, <3>3, <3>4
    <3> QED BY Zenon, <3>5 DEF a, i
  <2> HIDE DEF Part
  <2> QED BY Zenon, <2>4, <2>5, <2>6
<1> QED BY Zenon, <1>5, <1>6

\* Whenever no insert is running, a read of any length at any offset, across ranges
\* and chunks, is answered exactly when each of its bytes was recorded, and with the
\* bytes recorded last: the cache keeps the promise of ByteCache.
THEOREM LatestTheorem == Spec => []ReadsLatest
<1>1. CacheInv => ReadsLatest
  <2> SUFFICES ASSUME CacheInv, pc = "Idle", NEW f \in Files, NEW o \in Offsets(f), NEW n \in 1 .. Size[f] - o
               PROVE  FileRead(files[f], o, n) = Lookup(recorded[f], o, n)
    BY Zenon DEF ReadsLatest
  <2>1. pc # "Chunk"
    OBVIOUS
  <2>2. /\ recorded[f] \in [Offsets(f) -> Byte \cup {None}]
        /\ \A base \in Bases(f) : ChunkOK(f, base, files[f][base])
    BY Zenon DEF CacheInv, FilesInv
  <2>3. \A i \in Offsets(f) : Agree(files[f][chunk_base(i)], i, recorded[f][i])
    BY Zenon, <2>1 DEF CacheInv, ContentInv, Pending, Current
  <2> QED BY Zenon, <2>2, <2>3, FileReads
<1> QED BY CacheSafe, <1>1, PTL
=============================================================================
