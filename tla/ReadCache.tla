------------------------------ MODULE ReadCache ------------------------------
(***************************************************************************)
(* The read-through cache of the runtime: per file a map of chunks, per    *)
(* chunk a sorted vector of byte ranges that are merged as they grow       *)
(* together.  An insert runs with the runtime locked and is two nested     *)
(* loops, over the chunks and over the ranges of a chunk; each turn is a   *)
(* step.  Lengths and offsets are far from the limits of u64 here, so that *)
(* the checked and saturating additions of the code are exact.             *)
(***************************************************************************)
EXTENDS ByteCache, Functions

VARIABLES
    files,      \* ReadCache.files: files[f][base]: the ranges of that chunk
    pc,         \* Idle, or in CachedFile::insert (File) or CachedChunk::insert (Chunk)
    call,       \* CachedFile::insert: its file, its cursor and the bytes not consumed
    work,       \* CachedChunk::insert: its chunk, the next range, merged and retained
    recorded    \* history: what was last recorded, byte by byte

vars == <<files, pc, call, work, recorded>>

\* CachedRange and CachedRange::end
CachedRange(o, s) == [offset |-> o, bytes |-> s]
end(range) == range.offset + Len(range.bytes)

Bases(f) == {chunk_base(o) : o \in Offsets(f)}

Lesser(a, b)  == IF a <= b THEN a ELSE b
Greater(a, b) == IF a <= b THEN b ELSE a

CacheTypeOK ==
    \A f \in Files : \A base \in Bases(f) : \A i \in DOMAIN files[f][base] :
        LET range == files[f][base][i] IN
        range.offset \in Offsets(f) /\ range.bytes \in Strings(f, range.offset)

Init ==
    /\ files = [f \in Files |-> [base \in Bases(f) |-> <<>>]]
    /\ pc = "Idle" /\ call = None /\ work = None
    /\ recorded = [f \in Files |-> Nothing(f)]

-----------------------------------------------------------------------------
(* CachedFile *)

\* Mutant: one byte past the end of the file passes the check.
record_past_end(f, o, s) ==
    /\ pc = "Idle" /\ s # <<>> /\ o + Len(s) <= Size[f] + 1
    /\ call' = [file |-> f, cursor |-> o, bytes |-> s]
    /\ recorded' = [recorded EXCEPT ![f] = Record(@, o, s)]
    /\ pc' = "File"
    /\ UNCHANGED <<files, work>>

\* record_cached_read with a policy that caches, for a file: bytes that are not
\* empty and within the file are inserted, others are refused.
record_cached_read(f, o, s) ==
    /\ pc = "Idle" /\ s # <<>> /\ o + Len(s) <= Size[f]
    /\ call' = [file |-> f, cursor |-> o, bytes |-> s]
    /\ recorded' = [recorded EXCEPT ![f] = Record(@, o, s)]
    /\ pc' = "File"
    /\ UNCHANGED <<files, work>>

\* The loop of CachedFile::insert: the bytes that go into the next chunk.
FileInsert ==
    LET base == chunk_base(call.cursor)
        take == Lesser(Len(call.bytes), base + ChunkSize - call.cursor)
    IN
    /\ pc = "File" /\ call.bytes # <<>>
    /\ work' = [base |-> base, next |-> 1, retained |-> <<>>,
                merged |-> CachedRange(call.cursor, SubSeq(call.bytes, 1, take))]
    /\ call' = [file |-> call.file, cursor |-> call.cursor + take,
                bytes |-> SubSeq(call.bytes, take + 1, Len(call.bytes))]
    /\ pc' = "Chunk"
    /\ UNCHANGED <<files, recorded>>

FileInserted ==
    /\ pc = "File" /\ call.bytes = <<>>
    /\ pc' = "Idle" /\ call' = None
    /\ UNCHANGED <<files, work, recorded>>

-----------------------------------------------------------------------------
(* CachedChunk *)

\* Mutant: the old bytes win.
MergeKeepsOld(new, old) ==
    LET first == Lesser(new.offset, old.offset)
        last  == Greater(end(new), end(old))
        Pick(o) == IF o >= old.offset /\ o < end(old)
                   THEN old.bytes[o - old.offset + 1] ELSE new.bytes[o - new.offset + 1]
    IN  CachedRange(first, [i \in 1 .. last - first |-> Pick(first + i - 1)])

\* Two ranges as one, which has the first one's bytes where both have some.
Merge(new, old) ==
    LET first == Lesser(new.offset, old.offset)
        last  == Greater(end(new), end(old))
        Pick(o) == IF o >= new.offset /\ o < end(new)
                   THEN new.bytes[o - new.offset + 1] ELSE old.bytes[o - old.offset + 1]
    IN  CachedRange(first, [i \in 1 .. last - first |-> Pick(first + i - 1)])

\* Mutant: adjacent ranges are not merged.
ApartOrAdjacent(a, b) == end(a) <= b.offset \/ a.offset >= end(b)

\* The ranges neither overlap nor touch.
Apart(a, b) == end(a) < b.offset \/ a.offset > end(b)

\* The ranges of the chunk as the loop finds them.
Ranges == files[call.file][work.base]

\* The loop of CachedChunk::insert: the next range is kept, or merged.
Absorb ==
    LET range == Ranges[work.next]
        Go(merged, retained) == [base |-> work.base, next |-> work.next + 1,
                                 retained |-> retained, merged |-> merged]
    IN
    /\ pc = "Chunk" /\ work.next <= Len(Ranges)
    /\ work' = IF Apart(range, work.merged) THEN Go(work.merged, Append(work.retained, range))
                                            ELSE Go(Merge(work.merged, range), work.retained)
    /\ UNCHANGED <<files, pc, call, recorded>>

\* And its end: sort_by_key puts the merged range in its place.
ChunkInsert ==
    LET all == Append(work.retained, work.merged) IN
    /\ pc = "Chunk" /\ work.next > Len(Ranges)
    /\ \E p \in Bijection(1 .. Len(all), 1 .. Len(all)) :
          LET sorted == [i \in 1 .. Len(all) |-> all[p[i]]] IN
          /\ \A i, j \in 1 .. Len(all) : i < j => sorted[i].offset <= sorted[j].offset
          /\ files' = [files EXCEPT ![call.file][work.base] = sorted]
    /\ pc' = "File" /\ work' = None
    /\ UNCHANGED <<call, recorded>>

\* Byte strings for offset o of file f, of which the longest does not fit.
Responses(f, o) == UNION {[1 .. n -> Byte] : n \in 0 .. Size[f] - o + 1}

Next ==
    \/ \E f \in Files : \E o \in 0 .. Size[f] : \E s \in Responses(f, o) : record_cached_read(f, o, s)
    \/ FileInsert \/ FileInserted \/ Absorb \/ ChunkInsert

Spec == Init /\ [][Next]_vars

-----------------------------------------------------------------------------
(* Reading *)

\* CachedChunk::read: the first range that has all of it.
ChunkRead(ranges, o, n) ==
    LET hits == {i \in 1 .. Len(ranges) : ranges[i].offset <= o /\ end(ranges[i]) >= o + n} IN
    IF hits = {} THEN None
    ELSE LET range == ranges[CHOOSE i \in hits : \A j \in hits : i <= j]
         IN  SubSeq(range.bytes, o - range.offset + 1, o + n - range.offset)

\* CachedFile::read: every chunk of the read must have its part.
FileRead(chunks, o, n) ==
    LET touched == {chunk_base(i) : i \in o .. o + n - 1}
        From(base) == Greater(base, o)
        To(base) == Lesser(base + ChunkSize, o + n)
        Part(base) == ChunkRead(chunks[base], From(base), To(base) - From(base))
    IN  IF \E base \in touched : Part(base) = None THEN None
        ELSE [i \in 1 .. n |-> LET base == chunk_base(o + i - 1)
                               IN  Part(base)[o + i - From(base)]]

\* The ranges of a chunk are sorted, lie within the chunk, and do not touch:
\* what CachedChunk::read relies on when it looks for one range that has it all.
RangesApart ==
    \A f \in Files : \A base \in Bases(f) :
        LET ranges == files[f][base] IN
        /\ \A i \in 1 .. Len(ranges) : base <= ranges[i].offset /\ end(ranges[i]) <= base + ChunkSize
        /\ \A i, j \in 1 .. Len(ranges) : i < j => end(ranges[i]) < ranges[j].offset

\* In whatever pieces and order its bytes were recorded, a read across ranges
\* and chunks is answered exactly when each of its bytes was recorded, and
\* with the byte recorded last (CachedFile::read against CachedFile::insert).
ReadsLatest ==
    pc = "Idle" =>
        \A f \in Files : \A o \in Offsets(f) : \A n \in 1 .. Size[f] - o :
            FileRead(files[f], o, n) = Lookup(recorded[f], o, n)
=============================================================================
