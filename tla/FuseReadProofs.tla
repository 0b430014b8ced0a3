--------------------------- MODULE FuseReadProofs ---------------------------
(***************************************************************************)
(* What a FUSE read returns, for files of any size, any chunk size up to   *)
(* the largest provider read, and reads at any offset: proofs of the       *)
(* safety invariants of FuseRead from one inductive invariant.             *)
(***************************************************************************)
EXTENDS FuseRead, TLAPS

-----------------------------------------------------------------------------
(* The arithmetic of chunks and ranges *)

\* chunk_base gives the start of the chunk that the offset lies in.
LEMMA ChunkBase ==
    ASSUME NEW o \in Nat
    PROVE  /\ chunk_base(o) \in Nat
           /\ chunk_base(o) <= o
           /\ o < chunk_base(o) + ChunkSize
<1>. DEFINE q == o \div ChunkSize
<1>1. ChunkSize \in Nat /\ ChunkSize > 0
  BY CacheAssumptions
<1>2. q \in Nat /\ o = ChunkSize * q + (o % ChunkSize) /\ o % ChunkSize \in 0 .. ChunkSize - 1
  BY <1>1
<1>3. ChunkSize * q = q * ChunkSize /\ q * ChunkSize \in Nat
  BY <1>1, <1>2
<1>. QED
  BY <1>1, <1>2, <1>3 DEF chunk_base

\* The length of a read plan: within the read, the limit and the file.
LEMMA LengthFits ==
    ASSUME NEW f \in Files, NEW o \in Nat, NEW n \in Nat
    PROVE  /\ Length(f, o, n) \in Nat
           /\ Length(f, o, n) <= MaxRead
           /\ Length(f, o, n) > 0 => o + Length(f, o, n) <= Size[f]
<1>1. Size[f] \in Nat /\ MaxRead \in Nat
  BY CacheAssumptions, ReadAssumptions, Zenon
<1>. QED
  BY <1>1 DEF Length, Smaller

\* A slice of the file is a string of bytes of that length.
LEMMA SliceIsString ==
    ASSUME NEW f \in Files, NEW o \in Nat, NEW n \in Nat, n > 0 => o + n <= Size[f]
    PROVE  /\ Slice(f, o, n) \in Seq(Byte)
           /\ Len(Slice(f, o, n)) = n
<1>1. Size[f] \in Nat /\ Content[f] \in [Offsets(f) -> Byte]
  BY CacheAssumptions, ReadAssumptions, Zenon
<1>2. \A i \in 1 .. n : Content[f][o + i - 1] \in Byte
  BY <1>1 DEF Offsets
<1>. QED
  BY <1>2 DEF Slice

\* No bytes are the empty string.
LEMMA EmptySlice ==
    ASSUME NEW f, NEW o
    PROVE  Slice(f, o, 0) = <<>>
BY DEF Slice

\* A part of a slice is a slice.
LEMMA SubSlice ==
    ASSUME NEW f \in Files, NEW o \in Nat, NEW n \in Nat, NEW a \in Nat, NEW k \in Nat,
           n > 0 => o + n <= Size[f], a + k <= n
    PROVE  SubSeq(Slice(f, o, n), a + 1, a + k) = Slice(f, o + a, k)
<1>1. Slice(f, o, n) \in Seq(Byte) /\ Len(Slice(f, o, n)) = n
  BY SliceIsString, Zenon
<1>2. SubSeq(Slice(f, o, n), a + 1, a + k) = [i \in 1 .. k |-> Slice(f, o, n)[a + i]]
  BY <1>1
<1>3. \A i \in 1 .. k : Slice(f, o, n)[a + i] = Content[f][o + a + i - 1]
  BY DEF Slice
<1>. QED
  BY <1>2, <1>3, Zenon DEF Slice

-----------------------------------------------------------------------------
(* The cache *)

CacheOK(kn) ==
    /\ DOMAIN kn = Files
    /\ \A f \in Files : kn[f] \in [Offsets(f) -> Byte \cup {None}]
    /\ \A f \in Files : \A o \in Offsets(f) : kn[f][o] \in {None, Content[f][o]}

\* An answer of a cache that holds only content is content.
LEMMA LookupIsSlice ==
    ASSUME NEW kn, CacheOK(kn), NEW f \in Files, NEW o \in Nat, NEW n \in Nat,
           o + n <= Size[f], Lookup(kn[f], o, n) # None
    PROVE  Lookup(kn[f], o, n) = Slice(f, o, n)
<1>1. Size[f] \in Nat
  BY CacheAssumptions, Zenon
<1>2. ~ \E i \in o .. o + n - 1 : kn[f][i] = None
  BY Zenon DEF Lookup
<1>3. \A i \in 1 .. n : kn[f][o + i - 1] = Content[f][o + i - 1]
  <2>. SUFFICES ASSUME NEW i \in 1 .. n PROVE kn[f][o + i - 1] = Content[f][o + i - 1]
    BY Zenon
  <2>1. o + i - 1 \in Offsets(f) /\ o + i - 1 \in o .. o + n - 1
    BY <1>1 DEF Offsets
  <2>. QED
    BY <2>1, <1>2, Zenon DEF CacheOK
<1>4. Lookup(kn[f], o, n) = [i \in 1 .. n |-> kn[f][o + i - 1]]
  BY <1>2, Zenon DEF Lookup
<1>. QED
  BY <1>3, <1>4, Zenon DEF Slice

\* Recording content at its place keeps the cache right.
LEMMA RecordKeeps ==
    ASSUME NEW kn, CacheOK(kn), NEW f \in Files, NEW o \in Nat, NEW n \in Nat,
           n > 0 => o + n <= Size[f]
    PROVE  CacheOK([kn EXCEPT ![f] = Record(@, o, Slice(f, o, n))])
<1>. DEFINE s == Slice(f, o, n)
            r == Record(kn[f], o, s)
<1>1. Size[f] \in Nat /\ Content[f] \in [Offsets(f) -> Byte]
  BY CacheAssumptions, ReadAssumptions, Zenon
<1>2. Len(s) = n
  BY SliceIsString, Zenon
<1>3. DOMAIN kn[f] = Offsets(f)
  BY Zenon DEF CacheOK
<1>4. \A i \in Offsets(f) : r[i] = IF i >= o /\ i < o + n THEN s[i - o + 1] ELSE kn[f][i]
  BY <1>2, <1>3, Zenon DEF Record
<1>5. \A i \in Offsets(f) : i >= o /\ i < o + n => s[i - o + 1] = Content[f][i]
  BY <1>1 DEF Offsets, Slice
<1>6. \A i \in Offsets(f) : r[i] \in {None, Content[f][i]}
  BY <1>4, <1>5, Zenon DEF CacheOK
<1>7. r \in [Offsets(f) -> Byte \cup {None}]
  <2>1. r = [i \in Offsets(f) |-> r[i]]
    BY <1>3, Zenon DEF Record
  <2>2. \A i \in Offsets(f) : r[i] \in Byte \cup {None}
    BY <1>1, <1>6, Zenon
  <2>. QED
    BY <2>1, <2>2, Zenon
<1>. HIDE DEF r, s
<1>8. [kn EXCEPT ![f] = Record(@, o, Slice(f, o, n))] = [kn EXCEPT ![f] = r]
  BY Zenon DEF r, s
<1>. QED
  BY <1>6, <1>7, <1>8, Zenon DEF CacheOK

-----------------------------------------------------------------------------
(* The inductive invariant *)

\* The length of the read that is going on.
Wanted == Length(call.file, call.offset, call.size)

\* The slice of the response that a read replies with is its place in the request.
SliceFits ==
    pc \in {"Asked", "Answered", "Prefetching"} =>
        /\ Wanted > 0
        /\ slice.offset = call.offset - request.offset
        /\ slice.length = Wanted

\* The response is the first part of what was asked for.
ResponseFits ==
    pc \in {"Answered", "Prefetching"} =>
        /\ Len(response) <= request.length
        /\ response = Slice(call.file, request.offset, Len(response))
        /\ full => Len(response) = request.length

\* A read of a materialized copy is the read that was planned.
LocalFits ==
    pc = "Local" => Wanted > 0 /\ request = Range(call.offset, Wanted)

\* A reply that is right for the read c, and whole if it has to be.
Right(r, c, whole) ==
    LET n == Length(c.file, c.offset, c.size) IN
    /\ r \in [errno : Errnos \cup {"None"}, data : Seq(Byte)]
    /\ Len(r.data) <= n
    /\ r.data = Slice(c.file, c.offset, Len(r.data))
    /\ whole => r = Data(Slice(c.file, c.offset, n))

Replied == pc = "Idle" => Right(reply, call, full)

FuseReadInv ==
    /\ ReadTypeOK
    /\ CacheIsContent
    /\ RequestsFit
    /\ SliceFits
    /\ ResponseFits
    /\ LocalFits
    /\ Replied

\* An error is a right reply to a read that need not be whole.
LEMMA ErrnoIsRight ==
    ASSUME NEW e \in Errnos, NEW c \in [file : Files, offset : Nat, size : Nat], NEW whole, ~whole
    PROVE  Right(Errno(e), c, whole)
<1>1. Length(c.file, c.offset, c.size) \in Nat
  BY LengthFits, Zenon
<1>2. Slice(c.file, c.offset, 0) = <<>>
  BY EmptySlice, Zenon
<1>. QED
  BY <1>1, <1>2 DEF Right, Errno

\* The content the read asked for is a right reply.
LEMMA ContentIsRight ==
    ASSUME NEW c \in [file : Files, offset : Nat, size : Nat], NEW n \in Nat, NEW whole \in BOOLEAN,
           n <= Length(c.file, c.offset, c.size),
           whole => n = Length(c.file, c.offset, c.size)
    PROVE  Right(Data(Slice(c.file, c.offset, n)), c, whole)
<1>. DEFINE k == Length(c.file, c.offset, c.size)
<1>1. k \in Nat /\ (k > 0 => c.offset + k <= Size[c.file]) /\ Size[c.file] \in Nat
  BY LengthFits, CacheAssumptions, Zenon
<1>2. n <= k /\ (whole => n = k)
  BY Zenon
<1>. HIDE DEF k
<1>3. c.file \in Files /\ c.offset \in Nat /\ (n > 0 => c.offset + n <= Size[c.file])
  BY <1>1, <1>2
<1>4. Slice(c.file, c.offset, n) \in Seq(Byte) /\ Len(Slice(c.file, c.offset, n)) = n
  BY <1>3, SliceIsString, Zenon
<1>. QED
  BY <1>2, <1>4, Zenon DEF Right, Data, k

\* provider_reply_bytes: the reply to an answered read is right, and whole if the
\* answer was: coalescing only cuts out the read's own bytes.
LEMMA ReplyIsRight ==
    ASSUME FuseReadInv, pc \in {"Answered", "Prefetching"}
    PROVE  Right(provider_reply_bytes, call, full)
<1>. DEFINE f == call.file
            o == call.offset
            n == Wanted
            got == Len(response)
<1>1. /\ f \in Files /\ o \in Nat /\ call.size \in Nat /\ Size[f] \in Nat
      /\ call \in [file : Files, offset : Nat, size : Nat] /\ full \in BOOLEAN
      /\ request \in Ranges /\ slice \in Ranges /\ response \in Seq(Byte) /\ got \in Nat
  BY CacheAssumptions DEF FuseReadInv, ReadTypeOK
<1>2. /\ request.offset \in Nat /\ request.length \in Nat /\ slice.offset \in Nat /\ slice.length \in Nat
  BY <1>1, Zenon DEF Ranges
<1>3. n \in Nat /\ n > 0 /\ slice.offset = o - request.offset /\ slice.length = n
  BY <1>1, LengthFits, Zenon DEF FuseReadInv, SliceFits, Wanted
<1>4. /\ got <= request.length /\ response = Slice(f, request.offset, got)
      /\ full => got = request.length
  BY Zenon DEF FuseReadInv, ResponseFits
<1>5. /\ request.offset + request.length <= Size[f]
      /\ request.offset <= o /\ o + n <= request.offset + request.length
  BY Zenon DEF FuseReadInv, RequestsFit, Wanted, End
<1>. HIDE DEF f, o, n, got
<1>6. CASE slice.offset = 0 /\ got <= slice.length
  <2>1. o = request.offset
    BY <1>1, <1>2, <1>3, <1>6 DEF o
  <2>2. got <= n /\ (full => got = n)
    BY <1>1, <1>2, <1>3, <1>4, <1>5, <1>6, <2>1
  <2>3. provider_reply_bytes = Data(Slice(f, o, got))
    BY <1>4, <1>6, <2>1, Zenon DEF provider_reply_bytes, got
  <2>. QED
    BY <1>1, <2>2, <2>3, ContentIsRight, Zenon DEF f, o, n, Wanted
<1>7. CASE ~(slice.offset = 0 /\ got <= slice.length) /\ slice.offset + slice.length > got
  <2>1. ~full
    BY <1>1, <1>2, <1>3, <1>4, <1>5, <1>7 DEF o
  <2>2. provider_reply_bytes = Errno("EIO")
    BY <1>7, Zenon DEF provider_reply_bytes, got, End
  <2>3. full = FALSE /\ "EIO" \in Errnos
    BY <1>1, <2>1, ReadAssumptions, Zenon
  <2>. QED
    BY <1>1, <2>2, <2>3, ErrnoIsRight, Zenon
<1>8. CASE ~(slice.offset = 0 /\ got <= slice.length) /\ ~(slice.offset + slice.length > got)
  <2>1. provider_reply_bytes = Data(SubSeq(response, slice.offset + 1, slice.offset + slice.length))
    BY <1>8, Zenon DEF provider_reply_bytes, got, End
  <2>2. request.offset + slice.offset = o
    BY <1>1, <1>2, <1>3 DEF o
  <2>3. slice.offset + slice.length <= got /\ (got > 0 => request.offset + got <= Size[f])
    BY <1>1, <1>2, <1>4, <1>5, <1>8
  <2>4. SubSeq(Slice(f, request.offset, got), slice.offset + 1, slice.offset + slice.length)
        = Slice(f, request.offset + slice.offset, slice.length)
    <3>1. \A a, k \in Nat : a + k <= got =>
             SubSeq(Slice(f, request.offset, got), a + 1, a + k) = Slice(f, request.offset + a, k)
      <4>. SUFFICES ASSUME NEW a \in Nat, NEW k \in Nat, a + k <= got
                    PROVE  SubSeq(Slice(f, request.offset, got), a + 1, a + k) = Slice(f, request.offset + a, k)
        BY Zenon
      <4>1. f \in Files /\ request.offset \in Nat /\ got \in Nat
        BY <1>1, <1>2, Zenon
      <4>. QED
        BY <4>1, <2>3, SubSlice
    <3>. QED
      BY <1>2, <2>3, <3>1, Zenon
  <2>5. provider_reply_bytes = Data(Slice(f, o, n))
    BY <1>3, <1>4, <2>1, <2>2, <2>4, Zenon
  <2>. QED
    BY <1>1, <1>3, <2>5, ContentIsRight DEF f, o, n, Wanted
<1>. QED
  BY <1>6, <1>7, <1>8, Zenon

-----------------------------------------------------------------------------
(* Every step preserves it *)

WorldOK ==
    /\ caching \in BOOLEAN /\ live \in BOOLEAN
    /\ DOMAIN materialized = Files
    /\ \A f \in Files : materialized[f] \in Paths[f] \cup {None}
    /\ intact \subseteq UNION {Paths[f] : f \in Files}

Calls == [file : Files, offset : Nat, size : Nat]

\* The parts of the invariant that most steps leave alone.
LEMMA InvParts ==
    ASSUME FuseReadInv
    PROVE  /\ WorldOK /\ CacheOK(known) /\ call \in Calls /\ full \in BOOLEAN
           /\ reply \in [errno : Errnos \cup {"None"}, data : Seq(Byte)]
           /\ request \in Ranges /\ slice \in Ranges /\ ahead \in Ranges /\ response \in Seq(Byte)
           /\ path \in Paths[call.file] \cup {None}
BY Zenon DEF FuseReadInv, ReadTypeOK, WorldOK, CacheIsContent, CacheOK, Calls

\* A step that replies rightly, and leaves the cache right, preserves the invariant.
LEMMA ReturnKeeps ==
    ASSUME NEW result, Return(result), Right(result, call', full'),
           call' \in Calls, full' \in BOOLEAN, CacheOK(known'), WorldOK'
    PROVE  FuseReadInv'
<1>1. pc' = "Idle" /\ reply' = result
  BY Zenon DEF Return
<1>2. NoRange \in Ranges
  BY Zenon DEF NoRange, Range, Ranges
<1>3. request' \in Ranges /\ slice' \in Ranges /\ ahead' \in Ranges /\ response' \in Seq(Byte)
      /\ path' = None
  BY <1>2 DEF Return
<1>4. reply' \in [errno : Errnos \cup {"None"}, data : Seq(Byte)]
  BY <1>1, Zenon DEF Right
<1>5. ReadTypeOK'
  BY <1>1, <1>3, <1>4, Zenon DEF ReadTypeOK, CacheOK, WorldOK, Calls
<1>6. CacheIsContent'
  BY Zenon DEF CacheIsContent, CacheOK
<1>7. RequestsFit' /\ SliceFits' /\ ResponseFits' /\ LocalFits'
  BY <1>1, Zenon DEF RequestsFit, SliceFits, ResponseFits, LocalFits
<1>8. Replied'
  BY <1>1, Zenon DEF Replied
<1>. QED
  BY <1>5, <1>6, <1>7, <1>8, Zenon DEF FuseReadInv

\* Init
LEMMA FuseReadInit == Init => FuseReadInv
<1>. SUFFICES ASSUME Init PROVE FuseReadInv
  BY Zenon
<1>1. CacheOK(known)
  BY Zenon DEF Init, CacheOK, Nothing
<1>2. call \in Calls /\ call.size = 0
  BY DEF Init, Calls
<1>3. Length(call.file, call.offset, call.size) = 0
  <2>1. call.file \in Files /\ call.offset = 0 /\ call.size = 0
    BY Zenon DEF Init
  <2>2. Size[call.file] \in Nat /\ MaxRead \in Nat
    BY <2>1, CacheAssumptions, ReadAssumptions, Zenon
  <2>. QED
    BY <2>1, <2>2 DEF Length, Smaller
<1>4. Right(reply, call, full)
  <2>1. Slice(call.file, call.offset, 0) = <<>>
    BY EmptySlice, Zenon
  <2>2. reply = Data(<<>>) /\ <<>> \in Seq(Byte) /\ Len(<<>>) = 0
    BY DEF Init
  <2>. QED
    BY <1>3, <2>1, <2>2 DEF Right, Data
<1>5. ReadTypeOK
  <2>1. request \in Ranges /\ slice \in Ranges /\ ahead \in Ranges /\ response \in Seq(Byte)
    BY DEF Init, NoRange, Range, Ranges
  <2>. QED
    BY <1>1, <1>2, <1>4, <2>1, Zenon DEF Init, ReadTypeOK, CacheOK, Calls, Right
<1>6. CacheIsContent
  BY <1>1, Zenon DEF CacheOK, CacheIsContent
<1>7. pc = "Idle"
  BY Zenon DEF Init
<1>. QED
  BY <1>4, <1>5, <1>6, <1>7, Zenon DEF FuseReadInv, RequestsFit, SliceFits, ResponseFits, LocalFits, Replied

\* A step of another thread changes what a later plan decides, and nothing of the
\* read that is going on.
LEMMA OtherKeeps ==
    ASSUME FuseReadInv, UNCHANGED otherVars, WorldOK'
    PROVE  FuseReadInv'
<1>1. /\ UNCHANGED <<caching, known, pc, call, path, request, slice, response, ahead, reply, full>>
  BY Zenon DEF otherVars, cacheVars
<1>2. ReadTypeOK'
  BY <1>1, Zenon DEF FuseReadInv, ReadTypeOK, WorldOK
<1>3. CacheIsContent' /\ RequestsFit' /\ SliceFits' /\ ResponseFits' /\ LocalFits' /\ Replied'
  BY <1>1, Zenon DEF FuseReadInv, CacheIsContent, RequestsFit, SliceFits, ResponseFits, LocalFits, Replied, Wanted
<1>. QED
  BY <1>2, <1>3, Zenon DEF FuseReadInv

\* The plans that reply at once.
LEMMA AtOnceKeeps ==
    ASSUME FuseReadInv, NEW r \in Reads,
           \/ ReadEof(r.file, r.offset, r.size)
           \/ ReadCached(r.file, r.offset, r.size)
           \/ ReadGone(r.file, r.offset, r.size)
    PROVE  FuseReadInv'
<1>. DEFINE n == Length(r.file, r.offset, r.size)
<1>1. r \in Calls /\ r.file \in Files /\ r.offset \in Nat /\ r.size \in Nat
  BY ReadAssumptions, Zenon DEF Calls
<1>2. Enter(r.file, r.offset, r.size)
  BY Zenon DEF ReadEof, ReadCached, ReadGone
<1>3. call' = r /\ call' \in Calls
  BY <1>1, <1>2, Zenon DEF Enter, Calls
<1>4. WorldOK' /\ CacheOK(known')
  BY <1>2, InvParts, Zenon DEF Enter, cacheVars, worldVars, WorldOK
<1>5. n \in Nat /\ (n > 0 => r.offset + n <= Size[r.file])
  BY <1>1, LengthFits, Zenon
<1>. HIDE DEF n
<1>6. Right(Data(Slice(r.file, r.offset, n)), r, TRUE)
  <2>1. r \in [file : Files, offset : Nat, size : Nat] /\ n <= Length(r.file, r.offset, r.size)
    BY <1>1, <1>5 DEF n, Calls
  <2>2. TRUE => n = Length(r.file, r.offset, r.size)
    BY Zenon DEF n
  <2>. QED
    BY <1>5, <2>1, <2>2, ContentIsRight, Zenon
<1>7. CASE ReadEof(r.file, r.offset, r.size)
  <2>1. Return(Data(<<>>)) /\ full' = TRUE /\ n = 0
    BY <1>7, Zenon DEF ReadEof, n
  <2>3. Data(Slice(r.file, r.offset, n)) = Data(<<>>)
    BY <2>1, EmptySlice, Zenon
  <2>4. Right(Data(<<>>), call', full')
    BY <1>3, <1>6, <2>1, <2>3, Zenon
  <2>. QED
    BY <1>3, <1>4, <2>1, <2>4, ReturnKeeps, Zenon
<1>8. CASE ReadCached(r.file, r.offset, r.size)
  <2>1. /\ n > 0 /\ Cached(r.file, r.offset, n) # None
        /\ Return(Data(Cached(r.file, r.offset, n))) /\ full' = TRUE
    BY <1>8, Zenon DEF ReadCached, n
  <2>2. Cached(r.file, r.offset, n) = Lookup(known[r.file], r.offset, n)
    BY <2>1, Zenon DEF Cached
  <2>3. Lookup(known[r.file], r.offset, n) = Slice(r.file, r.offset, n)
    <3>1. r.offset + n <= Size[r.file] /\ Lookup(known[r.file], r.offset, n) # None
      BY <1>5, <2>1, <2>2, Zenon
    <3>2. CacheOK(known)
      BY InvParts, Zenon
    <3>. QED
      BY <1>1, <1>5, <3>1, <3>2, LookupIsSlice, Zenon
  <2>5. Right(Data(Cached(r.file, r.offset, n)), call', full')
    BY <1>3, <1>6, <2>1, <2>2, <2>3, Zenon
  <2>. QED
    BY <1>3, <1>4, <2>1, <2>5, ReturnKeeps, Zenon
<1>9. CASE ReadGone(r.file, r.offset, r.size)
  <2>1. Return(Errno("EIO")) /\ full' = FALSE
    BY <1>9, Zenon DEF ReadGone
  <2>2. Right(Errno("EIO"), call', full')
    BY <1>3, <2>1, ErrnoIsRight, ReadAssumptions, Zenon DEF Calls
  <2>. QED
    BY <1>3, <1>4, <2>1, <2>2, ReturnKeeps, Zenon
<1>. QED
  BY <1>7, <1>8, <1>9, Zenon

\* The plan to read the materialized copy.
LEMMA PlanMaterializedKeeps ==
    ASSUME FuseReadInv, NEW r \in Reads, PlanMaterialized(r.file, r.offset, r.size)
    PROVE  FuseReadInv'
<1>. DEFINE n == Length(r.file, r.offset, r.size)
<1>1. r \in Calls /\ r.file \in Files /\ r.offset \in Nat /\ r.size \in Nat
  BY ReadAssumptions, Zenon DEF Calls
<1>2. /\ n > 0 /\ Enter(r.file, r.offset, r.size) /\ pc' = "Local"
      /\ request' = Range(r.offset, n) /\ path' = materialized[r.file]
      /\ UNCHANGED <<slice, response, ahead, reply, full>>
  BY Zenon DEF PlanMaterialized
<1>3. call' = r /\ call' \in Calls
  BY <1>1, <1>2, Zenon DEF Enter, Calls
<1>4. WorldOK' /\ CacheOK(known')
  BY <1>2, InvParts, Zenon DEF Enter, cacheVars, worldVars, WorldOK
<1>5. n \in Nat
  BY <1>1, LengthFits, Zenon
<1>6. Wanted' = n
  BY <1>3, Zenon DEF Wanted
<1>. HIDE DEF n
<1>7. ReadTypeOK'
  <2>1. request' \in Ranges
    BY <1>1, <1>2, <1>5, Zenon DEF Range, Ranges
  <2>2. path' \in Paths[call'.file] \cup {None}
    BY <1>1, <1>2, <1>3, InvParts, Zenon DEF WorldOK
  <2>. QED
    BY <1>2, <1>3, <1>4, <2>1, <2>2, InvParts, Zenon DEF ReadTypeOK, WorldOK, CacheOK, Calls
<1>8. CacheIsContent'
  BY <1>4, Zenon DEF CacheOK, CacheIsContent
<1>9. RequestsFit' /\ SliceFits' /\ ResponseFits' /\ Replied'
  BY <1>2, Zenon DEF RequestsFit, SliceFits, ResponseFits, Replied
<1>10. LocalFits'
  BY <1>2, <1>3, <1>6, Zenon DEF LocalFits
<1>. QED
  BY <1>7, <1>8, <1>9, <1>10, Zenon DEF FuseReadInv

\* plan_coalesced_provider_read: the request contains the read, lies in the file and
\* is no longer than a provider accepts; the slice is the read's place in it.
LEMMA CoalescedFits ==
    ASSUME NEW f \in Files, NEW o \in Nat, NEW n \in Nat,
           n > 0, n <= MaxRead, o + n <= Size[f], caching \in BOOLEAN
    PROVE  LET plan == plan_coalesced_provider_read(f, o, n)
               q == plan.provider
           IN  /\ q \in Ranges /\ plan.response \in Ranges
               /\ q.length \in 1 .. MaxRead
               /\ q.offset + q.length <= Size[f]
               /\ chunk_base(o) <= q.offset /\ q.offset <= o /\ o + n <= q.offset + q.length
               /\ \/ q.offset + q.length <= chunk_base(o) + ChunkSize
                  \/ q.offset + q.length = o + n
               /\ plan.response.offset = o - q.offset /\ plan.response.length = n
<1>. DEFINE base == chunk_base(o)
            plan == plan_coalesced_provider_read(f, o, n)
            k == Smaller(ChunkSize, Size[f] - base)
<1>1. base \in Nat /\ base <= o /\ o < base + ChunkSize
  BY ChunkBase, Zenon
<1>2. ChunkSize \in Nat /\ MaxRead \in Nat /\ ChunkSize <= MaxRead /\ Size[f] \in Nat
  BY CacheAssumptions, ReadAssumptions, Zenon
<1>. HIDE DEF base
<1>3. CASE Coalesces(o, n)
  <2>1. plan = [provider |-> Range(base, k), response |-> Range(o - base, n)]
    BY <1>3, Zenon DEF plan_coalesced_provider_read, base
  <2>2. o + n <= base + ChunkSize
    BY <1>3, Zenon DEF Coalesces, base
  <2>3. k \in 1 .. MaxRead /\ base + k <= Size[f] /\ k <= ChunkSize /\ o + n <= base + k
    BY <1>1, <1>2, <2>2 DEF Smaller
  <2>. HIDE DEF k, plan
  <2>4. /\ plan.provider.offset = base /\ plan.provider.length = k
        /\ plan.response.offset = o - base /\ plan.response.length = n
        /\ plan.provider \in Ranges /\ plan.response \in Ranges
    BY <1>1, <2>1, <2>3 DEF Range, Ranges
  <2>. QED
    BY <1>1, <1>2, <2>3, <2>4 DEF plan, base
<1>4. CASE ~Coalesces(o, n)
  <2>1. plan = [provider |-> Range(o, n), response |-> Range(0, n)]
    BY <1>4, Zenon DEF plan_coalesced_provider_read
  <2>. HIDE DEF k, plan
  <2>2. /\ plan.provider.offset = o /\ plan.provider.length = n
        /\ plan.response.offset = 0 /\ plan.response.length = n
        /\ plan.provider \in Ranges /\ plan.response \in Ranges
    BY <2>1, Zenon DEF Range, Ranges
  <2>. QED
    BY <1>1, <1>2, <2>2 DEF plan, base
<1>. QED
  BY <1>3, <1>4, Zenon

\* The plan to ask the provider.
LEMMA PlanProviderKeeps ==
    ASSUME FuseReadInv, NEW r \in Reads, PlanProvider(r.file, r.offset, r.size)
    PROVE  FuseReadInv'
<1>. DEFINE n == Length(r.file, r.offset, r.size)
            plan == plan_coalesced_provider_read(r.file, r.offset, n)
            q == plan.provider
<1>1. r \in Calls /\ r.file \in Files /\ r.offset \in Nat /\ r.size \in Nat
  BY ReadAssumptions, Zenon DEF Calls
<1>2. /\ n > 0 /\ Enter(r.file, r.offset, r.size) /\ pc' = "Asked"
      /\ request' = q /\ slice' = plan.response /\ path' = None
      /\ UNCHANGED <<response, ahead, reply, full>>
  BY Zenon DEF PlanProvider
<1>3. call' = r /\ call' \in Calls
  BY <1>1, <1>2, Zenon DEF Enter, Calls
<1>4. WorldOK' /\ CacheOK(known')
  BY <1>2, InvParts, Zenon DEF Enter, cacheVars, worldVars, WorldOK
<1>5. n \in Nat /\ n <= MaxRead /\ (n > 0 => r.offset + n <= Size[r.file])
  BY <1>1, LengthFits, Zenon
<1>6. Wanted' = n
  BY <1>3, Zenon DEF Wanted
<1>7. caching \in BOOLEAN
  BY InvParts, Zenon DEF WorldOK
<1>. HIDE DEF n
<1>8. /\ q \in Ranges /\ plan.response \in Ranges
      /\ q.length \in 1 .. MaxRead
      /\ q.offset + q.length <= Size[r.file]
      /\ chunk_base(r.offset) <= q.offset /\ q.offset <= r.offset /\ r.offset + n <= q.offset + q.length
      /\ \/ q.offset + q.length <= chunk_base(r.offset) + ChunkSize
         \/ q.offset + q.length = r.offset + n
      /\ plan.response.offset = r.offset - q.offset /\ plan.response.length = n
  BY <1>1, <1>2, <1>5, <1>7, CoalescedFits, ZenonT(60)
<1>. HIDE DEF plan, q
<1>9. ReadTypeOK'
  BY <1>2, <1>3, <1>4, <1>8, InvParts, Zenon DEF ReadTypeOK, WorldOK, CacheOK, Calls
<1>10. CacheIsContent'
  BY <1>4, Zenon DEF CacheOK, CacheIsContent
<1>11. RequestsFit'
  BY <1>2, <1>3, <1>8, Zenon DEF RequestsFit, End, n
<1>12. SliceFits'
  BY <1>2, <1>3, <1>6, <1>8, Zenon DEF SliceFits
<1>13. ResponseFits' /\ LocalFits' /\ Replied'
  BY <1>2, Zenon DEF ResponseFits, LocalFits, Replied
<1>. QED
  BY <1>9, <1>10, <1>11, <1>12, <1>13, Zenon DEF FuseReadInv

\* record_cached_read of content at its place.
LEMMA RecordCachedKeeps ==
    ASSUME FuseReadInv, NEW o \in Nat, NEW n \in Nat, n > 0 => o + n <= Size[call.file],
           record_cached_read(o, Slice(call.file, o, n))
    PROVE  CacheOK(known')
<1>1. CacheOK(known) /\ call.file \in Files
  BY InvParts, Zenon DEF Calls
<1>2. CacheOK([known EXCEPT ![call.file] = Record(@, o, Slice(call.file, o, n))])
  BY <1>1, RecordKeeps, Zenon
<1>. QED
  BY <1>1, <1>2, Zenon DEF record_cached_read

\* The provider's answer.
LEMMA ProviderAnswersKeeps ==
    ASSUME FuseReadInv, NEW n \in 0 .. request.length, ProviderAnswers(n)
    PROVE  FuseReadInv'
<1>. DEFINE bytes == Slice(call.file, request.offset, n)
<1>1. /\ pc = "Asked" /\ n <= request.length /\ response' = bytes
      /\ record_cached_read(request.offset, bytes)
      /\ full' = (n = request.length) /\ pc' = "Answered"
      /\ UNCHANGED <<caching, worldVars, call, path, request, slice, ahead, reply>>
  BY Zenon DEF ProviderAnswers
<1>2. /\ request \in Ranges /\ request.offset \in Nat /\ request.length \in Nat /\ n \in Nat
      /\ call \in Calls /\ call.file \in Files /\ Size[call.file] \in Nat
  BY InvParts, CacheAssumptions DEF Ranges, Calls
<1>3. request.offset + request.length <= Size[call.file]
  BY <1>1, Zenon DEF FuseReadInv, RequestsFit, End
<1>4. n > 0 => request.offset + n <= Size[call.file]
  BY <1>1, <1>2, <1>3
<1>5. CacheOK(known')
  BY <1>1, <1>2, <1>4, RecordCachedKeeps, Zenon
<1>6. bytes \in Seq(Byte) /\ Len(bytes) = n
  BY <1>2, <1>4, SliceIsString, Zenon
<1>. HIDE DEF bytes
<1>7. ReadTypeOK'
  <2>1. WorldOK' /\ full' \in BOOLEAN
    BY <1>1, InvParts, Zenon DEF WorldOK, worldVars
  <2>. QED
    BY <1>1, <1>5, <1>6, <2>1, InvParts, Zenon DEF ReadTypeOK, WorldOK, CacheOK, Calls
<1>8. CacheIsContent'
  BY <1>5, Zenon DEF CacheOK, CacheIsContent
<1>9. RequestsFit' /\ SliceFits'
  BY <1>1, Zenon DEF FuseReadInv, RequestsFit, SliceFits, Wanted
<1>10. ResponseFits'
  BY <1>1, <1>6, Zenon DEF ResponseFits, bytes
<1>11. LocalFits' /\ Replied'
  BY <1>1, Zenon DEF LocalFits, Replied
<1>. QED
  BY <1>7, <1>8, <1>9, <1>10, <1>11, Zenon DEF FuseReadInv

\* The prefetch is asked for.
LEMMA PrefetchKeeps ==
    ASSUME FuseReadInv, Prefetch
    PROVE  FuseReadInv'
<1>1. /\ pc = "Answered" /\ Following.offset < Size[call.file]
      /\ ahead' = Following /\ pc' = "Prefetching"
      /\ UNCHANGED <<cacheVars, worldVars, call, path, request, slice, response, reply, full>>
  BY Zenon DEF Prefetch, plan_sequential_prefetch
<1>2. /\ request \in Ranges /\ request.offset \in Nat /\ request.length \in Nat
      /\ call \in Calls /\ call.file \in Files /\ Size[call.file] \in Nat
      /\ ChunkSize \in Nat /\ ChunkSize > 0
  BY InvParts, CacheAssumptions DEF Ranges, Calls
<1>3. /\ Following.offset = request.offset + request.length
      /\ Following.length = Smaller(ChunkSize, Size[call.file] - (request.offset + request.length))
      /\ Following = Range(Following.offset, Following.length)
  BY Zenon DEF Following, Range, End
<1>4. /\ Following.length \in 1 .. ChunkSize
      /\ Following.offset + Following.length <= Size[call.file]
  BY <1>1, <1>2, <1>3 DEF Smaller
<1>5. Following \in Ranges
  BY <1>2, <1>3, <1>4 DEF Range, Ranges
<1>6. /\ UNCHANGED <<caching, known, live, materialized, intact>>
  BY <1>1, Zenon DEF cacheVars, worldVars
<1>7. ReadTypeOK'
  BY <1>1, <1>5, <1>6, InvParts, Zenon DEF FuseReadInv, ReadTypeOK
<1>8. CacheIsContent' /\ SliceFits' /\ ResponseFits' /\ LocalFits' /\ Replied'
  BY <1>1, <1>6, Zenon DEF FuseReadInv, CacheIsContent, SliceFits, ResponseFits, LocalFits, Replied, Wanted
<1>9. RequestsFit'
  BY <1>1, <1>3, <1>4, Zenon DEF FuseReadInv, RequestsFit, End
<1>. QED
  BY <1>7, <1>8, <1>9, Zenon DEF FuseReadInv

\* The steps that end a read.
LEMMA ReplyKeeps ==
    ASSUME FuseReadInv,
           \/ ReadLocal
           \/ \E e \in Errnos : ProviderFails(e)
           \/ ReplyAtOnce
           \/ \E n \in 0 .. ahead.length : PrefetchAnswers(n)
           \/ PrefetchFails
    PROVE  FuseReadInv'
<1>1. call \in Calls /\ full \in BOOLEAN /\ WorldOK /\ CacheOK(known) /\ call.file \in Files /\ ahead \in Ranges
  BY InvParts, Zenon DEF Calls
<1>2. CASE ReadLocal
  <2>1. /\ pc = "Local" /\ full' = (path \in intact)
        /\ UNCHANGED <<cacheVars, worldVars, call>>
        /\ \/ Return(Data(Slice(call.file, request.offset, request.length)))
           \/ path \notin intact /\ \E e \in Errnos : Return(Errno(e))
    BY <1>2, Zenon DEF ReadLocal
  <2>2. WorldOK' /\ CacheOK(known') /\ call' = call /\ full' \in BOOLEAN
    BY <1>1, <2>1 DEF WorldOK, cacheVars, worldVars
  <2>3. CASE Return(Data(Slice(call.file, request.offset, request.length)))
    <3>1. request.offset = call.offset /\ request.length = Length(call.file, call.offset, call.size)
      BY <2>1 DEF FuseReadInv, LocalFits, Wanted, Range
    <3>2. request.length \in Nat
      BY InvParts, Zenon DEF Ranges
    <3>3. request.length <= Length(call.file, call.offset, call.size)
      BY <3>1, <3>2
    <3>4. Right(Data(Slice(call.file, request.offset, request.length)), call, full')
      BY <1>1, <2>2, <3>1, <3>2, <3>3, ContentIsRight, Zenon DEF Calls
    <3>. QED
      BY <1>1, <2>2, <2>3, <3>4, ReturnKeeps, Zenon
  <2>4. CASE path \notin intact /\ \E e \in Errnos : Return(Errno(e))
    <3>1. PICK e \in Errnos : Return(Errno(e))
      BY <2>4, Zenon
    <3>2. ~full'
      BY <2>1, <2>4, Zenon
    <3>3. Right(Errno(e), call', full')
      BY <1>1, <2>2, <3>2, ErrnoIsRight, Zenon DEF Calls
    <3>. QED
      BY <1>1, <2>2, <3>1, <3>3, ReturnKeeps, Zenon
  <2>. QED
    BY <2>1, <2>3, <2>4, Zenon
<1>3. CASE \E e \in Errnos : ProviderFails(e)
  <2>1. PICK e \in Errnos : ProviderFails(e)
    BY <1>3, Zenon
  <2>2. Return(Errno(e)) /\ full' = FALSE /\ UNCHANGED <<cacheVars, worldVars, call>>
    BY <2>1, Zenon DEF ProviderFails
  <2>3. WorldOK' /\ CacheOK(known') /\ call' = call
    BY <1>1, <2>2, Zenon DEF WorldOK, cacheVars, worldVars
  <2>4. Right(Errno(e), call', full')
    BY <1>1, <2>2, <2>3, ErrnoIsRight, Zenon DEF Calls
  <2>. QED
    BY <1>1, <2>2, <2>3, <2>4, ReturnKeeps, Zenon
<1>4. CASE ReplyAtOnce \/ PrefetchFails
  <2>1. /\ pc \in {"Answered", "Prefetching"} /\ Return(provider_reply_bytes)
        /\ UNCHANGED <<cacheVars, worldVars, call, full>>
    BY <1>4, Zenon DEF ReplyAtOnce, PrefetchFails
  <2>2. WorldOK' /\ CacheOK(known') /\ call' = call /\ full' = full
    BY <1>1, <2>1, Zenon DEF WorldOK, cacheVars, worldVars
  <2>3. Right(provider_reply_bytes, call, full)
    BY <2>1, ReplyIsRight, Zenon
  <2>. QED
    BY <1>1, <2>1, <2>2, <2>3, ReturnKeeps, Zenon
<1>5. CASE \E n \in 0 .. ahead.length : PrefetchAnswers(n)
  <2>1. PICK n \in 0 .. ahead.length : PrefetchAnswers(n)
    BY <1>5, Zenon
  <2>2. /\ pc = "Prefetching" /\ Return(provider_reply_bytes)
        /\ record_cached_read(ahead.offset, Slice(call.file, ahead.offset, n))
        /\ UNCHANGED <<caching, worldVars, call, full>>
    BY <2>1, Zenon DEF PrefetchAnswers
  <2>3. ahead.offset \in Nat /\ ahead.length \in Nat /\ n \in Nat /\ Size[call.file] \in Nat
    BY <1>1, CacheAssumptions DEF Ranges
  <2>4. ahead.offset + ahead.length <= Size[call.file]
    BY <2>2, Zenon DEF FuseReadInv, RequestsFit, End
  <2>5. n > 0 => ahead.offset + n <= Size[call.file]
    BY <2>3, <2>4
  <2>6. CacheOK(known')
    BY <2>2, <2>3, <2>5, RecordCachedKeeps, Zenon
  <2>7. WorldOK' /\ call' = call /\ full' = full
    BY <1>1, <2>2, Zenon DEF WorldOK, worldVars
  <2>8. Right(provider_reply_bytes, call, full)
    BY <2>2, ReplyIsRight, Zenon
  <2>. QED
    BY <1>1, <2>2, <2>6, <2>7, <2>8, ReturnKeeps, Zenon
<1>. QED
  BY <1>2, <1>3, <1>4, <1>5, Zenon

\* Every step, of the read or of another thread, preserves the invariant.
LEMMA FuseReadStep == FuseReadInv /\ [Next]_vars => FuseReadInv'
<1>. SUFFICES ASSUME FuseReadInv, [Next]_vars PROVE FuseReadInv'
  BY Zenon
<1>1. ASSUME NEW r \in Reads,
             \/ ReadEof(r.file, r.offset, r.size) \/ ReadCached(r.file, r.offset, r.size)
             \/ ReadGone(r.file, r.offset, r.size)
      PROVE  FuseReadInv'
  BY <1>1, AtOnceKeeps, Zenon
<1>2. ASSUME NEW r \in Reads, PlanMaterialized(r.file, r.offset, r.size) PROVE FuseReadInv'
  BY <1>2, PlanMaterializedKeeps, Zenon
<1>3. ASSUME NEW r \in Reads, PlanProvider(r.file, r.offset, r.size) PROVE FuseReadInv'
  BY <1>3, PlanProviderKeeps, Zenon
<1>4. CASE Step
  <2>1. ASSUME NEW n \in 0 .. request.length, ProviderAnswers(n) PROVE FuseReadInv'
    BY <2>1, ProviderAnswersKeeps, Zenon
  <2>2. CASE Prefetch
    BY <2>2, PrefetchKeeps, Zenon
  <2>. QED
    BY <1>4, <2>1, <2>2, ReplyKeeps, Zenon DEF Step
<1>5. CASE ProviderGoes
  <2>1. UNCHANGED otherVars /\ WorldOK'
    BY <1>5, InvParts, Zenon DEF ProviderGoes, WorldOK, otherVars, cacheVars
  <2>. QED
    BY <2>1, OtherKeeps, Zenon
<1>6. ASSUME NEW f \in Files, NEW p \in Paths[f], mark_node_materialized(f, p) \/ LoseCopy(p) PROVE FuseReadInv'
  <2>0. /\ UNCHANGED otherVars /\ UNCHANGED live
        /\ materialized' \in {materialized, [materialized EXCEPT ![f] = p]}
        /\ intact' \in {intact \cup {p}, intact \ {p}}
    BY <1>6, Zenon DEF mark_node_materialized, LoseCopy
  <2>1. /\ DOMAIN materialized' = Files
        /\ \A g \in Files : materialized'[g] \in Paths[g] \cup {None}
    <3>1. DOMAIN materialized = Files /\ \A g \in Files : materialized[g] \in Paths[g] \cup {None}
      BY InvParts, Zenon DEF WorldOK
    <3>2. CASE materialized' = [materialized EXCEPT ![f] = p]
      <4>1. ASSUME NEW g \in Files PROVE materialized'[g] \in Paths[g] \cup {None}
        BY <3>1, <3>2, <1>6, Zenon
      <4>. QED
        BY <3>1, <3>2, <4>1, Zenon
    <3>. QED
      BY <2>0, <3>1, <3>2, Zenon
  <2>2. intact' \subseteq UNION {Paths[g] : g \in Files}
    <3>1. intact \subseteq UNION {Paths[g] : g \in Files}
      BY InvParts, Zenon DEF WorldOK
    <3>. QED
      BY <1>6, <2>0, <3>1, Zenon
  <2>3. WorldOK'
    BY <2>0, <2>1, <2>2, InvParts, Zenon DEF WorldOK, otherVars, cacheVars
  <2>. QED
    BY <2>0, <2>3, OtherKeeps, Zenon
<1>7. CASE UNCHANGED vars
  <2>1. UNCHANGED otherVars /\ UNCHANGED worldVars
    BY <1>7, Zenon DEF vars, otherVars
  <2>2. WorldOK'
    BY <2>1, InvParts, Zenon DEF WorldOK, worldVars, otherVars, cacheVars
  <2>. QED
    BY <2>1, <2>2, OtherKeeps, Zenon
<1>. QED
  BY <1>1, <1>2, <1>3, <1>4, <1>5, <1>6, <1>7, Zenon DEF Next

-----------------------------------------------------------------------------
\* The inductive invariant holds throughout.
THEOREM FuseReadTheorem == Spec => []FuseReadInv
BY FuseReadInit, FuseReadStep, PTL DEF Spec

\* What a read returns is the file's content at the place that was read, and never
\* more than was asked for, for every file, chunk and read size.
THEOREM DataTheorem == Spec => []DataIsContent
<1>1. FuseReadInv => DataIsContent
  BY Zenon DEF FuseReadInv, Replied, Right, DataIsContent
<1>. QED
  BY <1>1, FuseReadTheorem, PTL

\* A read that was answered in full is returned in full, coalesced or not.
THEOREM WholeTheorem == Spec => []WholeWhenAnsweredInFull
<1>1. FuseReadInv => WholeWhenAnsweredInFull
  BY Zenon DEF FuseReadInv, Replied, Right, WholeWhenAnsweredInFull
<1>. QED
  BY <1>1, FuseReadTheorem, PTL

\* Provider reads and prefetches are valid requests, within the file and near the
\* read that causes them.
THEOREM RequestTheorem == Spec => []RequestsFit
BY FuseReadTheorem, PTL DEF FuseReadInv

\* The cache holds nothing but what the provider serves at that place.
THEOREM CacheTheorem == Spec => [](ReadTypeOK /\ CacheIsContent)
<1>1. FuseReadInv => ReadTypeOK /\ CacheIsContent
  BY Zenon DEF FuseReadInv
<1>. QED
  BY <1>1, FuseReadTheorem, PTL
-----------------------------------------------------------------------------
(* What is not asked for *)

\* A read misses the cache exactly when some byte of it is missing.
LEMMA LookupMisses ==
    ASSUME NEW f \in Files, NEW kn \in [Offsets(f) -> Byte \cup {None}],
           NEW o \in Nat, NEW n \in Nat \ {0}, o + n <= Size[f]
    PROVE  Lookup(kn, o, n) = None <=> \E i \in o .. o + n - 1 : kn[i] = None
<1>1. Size[f] \in Nat /\ None \notin Strings(f, 0)
  BY CacheAssumptions
<1>2. ASSUME ~ \E i \in o .. o + n - 1 : kn[i] = None PROVE Lookup(kn, o, n) # None
  <2>1. \A i \in 1 .. n : kn[o + i - 1] \in Byte
    BY <1>1, <1>2 DEF Offsets
  <2>2. [i \in 1 .. n |-> kn[o + i - 1]] \in [1 .. n -> Byte]
    BY <2>1
  <2>3. n \in 1 .. Size[f] - 0
    BY <1>1
  <2>4. [i \in 1 .. n |-> kn[o + i - 1]] # None
    BY <1>1, <2>2, <2>3 DEF Strings
  <2>. QED
    BY <1>2, <2>4 DEF Lookup
<1>. QED
  BY <1>2 DEF Lookup

\* plan_read looks into the cache for the read, and plan_coalesced_provider_read asks
\* for more: what is missing from the read is missing from the request.
LEMMA RequestMisses ==
    ASSUME FuseReadInv, NEW r \in Reads, PlanProvider(r.file, r.offset, r.size), FuseReadInv'
    PROVE  NeverAsksForKnown'
<1>. DEFINE n == Length(r.file, r.offset, r.size)
            f == r.file
            o == r.offset
<1>1. r \in Calls /\ f \in Files /\ o \in Nat /\ r.size \in Nat /\ Size[f] \in Nat
  BY ReadAssumptions, CacheAssumptions DEF Calls
<1>2. /\ n > 0 /\ Enter(f, o, r.size) /\ pc' = "Asked" /\ Cached(f, o, n) = None
  BY Zenon DEF PlanProvider
<1>3. call' = r /\ caching' = caching /\ known' = known
  BY <1>1, <1>2 DEF Enter, Calls, cacheVars
<1>4. known[f] \in [Offsets(f) -> Byte \cup {None}]
  BY <1>1, InvParts DEF CacheOK
<1>5. n \in Nat /\ o + n <= Size[f]
  BY <1>1, <1>2, LengthFits, ZenonT(60)
<1>6. /\ request'.offset \in Nat /\ request'.length \in Nat
      /\ request'.offset + request'.length <= Size[f]
      /\ request'.offset <= o /\ o + n <= request'.offset + request'.length
  BY <1>2, <1>3 DEF FuseReadInv, RequestsFit, ReadTypeOK, Ranges, End
<1>. HIDE DEF n, f, o
<1>7. ASSUME caching PROVE Lookup(known[f], request'.offset, request'.length) = None
  <2>1. \E i \in o .. o + n - 1 : known[f][i] = None
    BY <1>1, <1>2, <1>4, <1>5, <1>7, LookupMisses DEF Cached
  <2>2. \E i \in request'.offset .. request'.offset + request'.length - 1 : known[f][i] = None
    BY <1>1, <1>5, <1>6, <2>1
  <2>. QED
    BY <2>2 DEF Lookup
<1>. QED
  BY <1>2, <1>3, <1>7 DEF NeverAsksForKnown, f

\* Every step keeps the provider from being asked for what is known.
LEMMA NeverAsksStep ==
    FuseReadInv /\ FuseReadInv' /\ NeverAsksForKnown /\ [Next]_vars => NeverAsksForKnown'
<1>. SUFFICES ASSUME FuseReadInv, FuseReadInv', NeverAsksForKnown, [Next]_vars PROVE NeverAsksForKnown'
  OBVIOUS
<1>1. ASSUME NEW r \in Reads, PlanProvider(r.file, r.offset, r.size) PROVE NeverAsksForKnown'
  BY <1>1, RequestMisses
<1>2. CASE Prefetch
  <2>1. /\ Lookup(known[call.file], Following.offset, Following.length) = None
        /\ ahead' = Following /\ pc' = "Prefetching" /\ UNCHANGED <<call, known>>
    BY <1>2, Zenon DEF Prefetch, plan_sequential_prefetch, cacheVars
  <2>. QED
    BY <2>1 DEF NeverAsksForKnown
<1>3. ASSUME UNCHANGED <<caching, known, pc, call, request, ahead>> PROVE NeverAsksForKnown'
  BY <1>3 DEF NeverAsksForKnown
<1>4. ASSUME pc' \in {"Idle", "Local", "Answered"} PROVE NeverAsksForKnown'
  BY <1>4 DEF NeverAsksForKnown
<1>5. ASSUME NEW r \in Reads,
             \/ ReadEof(r.file, r.offset, r.size) \/ ReadCached(r.file, r.offset, r.size)
             \/ ReadGone(r.file, r.offset, r.size) \/ PlanMaterialized(r.file, r.offset, r.size)
      PROVE  pc' \in {"Idle", "Local", "Answered"}
  BY <1>5, Zenon DEF ReadEof, ReadCached, ReadGone, PlanMaterialized, Return
<1>6. ASSUME Step, ~Prefetch PROVE pc' \in {"Idle", "Local", "Answered"}
  BY <1>6, Zenon DEF Step, ReadLocal, ProviderAnswers, ProviderFails, ReplyAtOnce, PrefetchAnswers,
     PrefetchFails, Return
<1>7. ASSUME ProviderGoes \/ (\E f \in Files : \E p \in Paths[f] : mark_node_materialized(f, p) \/ LoseCopy(p)) \/ UNCHANGED vars
      PROVE  UNCHANGED <<caching, known, pc, call, request, ahead>>
  BY <1>7, Zenon DEF ProviderGoes, mark_node_materialized, LoseCopy, otherVars, cacheVars, vars
<1>. QED
  BY <1>1, <1>2, <1>3, <1>4, <1>5, <1>6, <1>7, Zenon DEF Next

\* Neither a coalesced read nor a prefetch asks the provider for a range of which the
\* cache has every byte, for files, chunks and reads of any size.
THEOREM NeverAsksTheorem == Spec => []NeverAsksForKnown
<1>1. Init => NeverAsksForKnown
  BY DEF Init, NeverAsksForKnown
<1>. QED
  BY <1>1, FuseReadInit, FuseReadStep, NeverAsksStep, PTL DEF Spec
=============================================================================
