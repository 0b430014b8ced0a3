------------------------------ MODULE FuseRead ------------------------------
(***************************************************************************)
(* The read callback of the FUSE adapter, on its one thread: the read plan *)
(* (end of file, materialized copy, cache or provider), the coalescing of  *)
(* a provider read to a cache chunk, the recording of the response, the    *)
(* prefetch that follows it, and the bytes of the reply.  A step is a lock *)
(* section of the thread or its return from route_provider_read, which     *)
(* IpcState models; between two steps the provider may go away, and a      *)
(* materialize, which never writes the cache, may finish.                  *)
(*                                                                         *)
(* Offsets and lengths are far from the limits of u64: the checked         *)
(* additions of the code never fail.                                       *)
(***************************************************************************)
EXTENDS ByteCache

CONSTANTS
    Content,    \* Content[f][o]: what the provider serves
    Paths,      \* Paths[f]: where the local copies of a file may be
    MaxRead,    \* MAX_PROVIDER_READ_LEN
    Errnos,     \* what io_error_to_errno and provider_status_to_errno return
    Reads       \* the reads of the kernel: at any offset, of any size

\* The daemon's chunk size is DEFAULT_READ_THROUGH_CHUNK_SIZE, which is as
\* large as MAX_PROVIDER_READ_LEN.
ASSUME ReadAssumptions ==
    /\ MaxRead \in Nat /\ ChunkSize <= MaxRead
    /\ "EIO" \in Errnos /\ "None" \notin Errnos
    /\ Reads \subseteq [file : Files, offset : Nat, size : Nat]
    /\ DOMAIN Content = Files
    /\ \A f \in Files : Content[f] \in [Offsets(f) -> Byte]
    /\ DOMAIN Paths = Files
    /\ \A f \in Files : None \notin Paths[f] /\ \A g \in Files \ {f} : Paths[f] \cap Paths[g] = {}

VARIABLES
    caching,        \* cache_policy is ReadThrough
    known,          \* the read cache, byte by byte
    live,           \* the promise is Available and its provider Live
    materialized,   \* materialized_path of each file, or None
    intact,         \* the paths at which a local copy is whole
    pc,             \* where the callback is
    call,           \* its arguments: file, offset and size
    path,           \* the local copy that it has planned to read
    request,        \* its provider or local read: offset and length
    slice,          \* response_offset and response_length
    response,       \* the bytes the provider answered with
    ahead,          \* its prefetch: offset and length
    reply,          \* its reply: errno "None" with data, or an errno
    full            \* history: nothing the reply depends on was refused or cut short

cacheVars == <<caching, known>>
worldVars == <<live, materialized, intact>>
vars == <<cacheVars, worldVars, pc, call, path, request, slice, response, ahead, reply, full>>

-----------------------------------------------------------------------------
Smaller(a, b) == IF a <= b THEN a ELSE b

\* n bytes of file f from offset o on.
Slice(f, o, n) == [i \in 1 .. n |-> Content[f][o + i - 1]]

Range(o, n) == [offset |-> o, length |-> n]
Ranges == [offset : Nat, length : Nat]
NoRange == Range(0, 0)
End(r) == r.offset + r.length

Data(bytes) == [errno |-> "None", data |-> bytes]
Errno(e)    == [errno |-> e, data |-> <<>>]

\* How many bytes a read may get: size.min(MAX_PROVIDER_READ_LEN), cut at the
\* end of the file.
Length(f, o, n) == IF o >= Size[f] THEN 0 ELSE Smaller(Smaller(n, MaxRead), Size[f] - o)

ReadTypeOK ==
    /\ caching \in BOOLEAN /\ live \in BOOLEAN /\ full \in BOOLEAN
    /\ DOMAIN known = Files
    /\ \A f \in Files : known[f] \in [Offsets(f) -> Byte \cup {None}]
    /\ DOMAIN materialized = Files
    /\ \A f \in Files : materialized[f] \in Paths[f] \cup {None}
    /\ intact \subseteq UNION {Paths[f] : f \in Files}
    /\ pc \in {"Idle", "Local", "Asked", "Answered", "Prefetching"}
    /\ call \in [file : Files, offset : Nat, size : Nat]
    /\ path \in Paths[call.file] \cup {None}
    /\ request \in Ranges /\ slice \in Ranges /\ ahead \in Ranges
    /\ response \in Seq(Byte)
    /\ reply \in [errno : Errnos \cup {"None"}, data : Seq(Byte)]

Init ==
    /\ caching \in BOOLEAN
    /\ known = [f \in Files |-> Nothing(f)]
    /\ live = TRUE /\ materialized = [f \in Files |-> None] /\ intact = {}
    /\ pc = "Idle"
    /\ call \in [file : Files, offset : {0}, size : {0}]
    /\ path = None /\ request = NoRange /\ slice = NoRange /\ response = <<>> /\ ahead = NoRange
    /\ reply = Data(<<>>)
    /\ full = TRUE

-----------------------------------------------------------------------------
(* plan_read, with the runtime locked *)

Enter(f, o, n) ==
    /\ pc = "Idle"
    /\ call' = [file |-> f, offset |-> o, size |-> n]
    /\ UNCHANGED <<cacheVars, worldVars>>

\* The callback replies and forgets its locals.
Return(result) ==
    /\ pc' = "Idle"
    /\ reply' = result
    /\ path' = None /\ request' = NoRange /\ slice' = NoRange
    /\ response' = <<>> /\ ahead' = NoRange

\* ReadPlan::Eof
ReadEof(f, o, n) ==
    /\ Length(f, o, n) = 0
    /\ Enter(f, o, n)
    /\ Return(Data(<<>>))
    /\ full' = TRUE

\* ReadPlan::Materialized: the copy is read later, without the lock, at the path
\* of now.
PlanMaterialized(f, o, n) ==
    /\ Length(f, o, n) > 0
    /\ materialized[f] # None
    /\ Enter(f, o, n)
    /\ pc' = "Local"
    /\ path' = materialized[f]
    /\ request' = Range(o, Length(f, o, n))
    /\ UNCHANGED <<slice, response, ahead, reply, full>>

Cached(f, o, n) == IF caching THEN Lookup(known[f], o, n) ELSE None

\* ReadPlan::Cached
ReadCached(f, o, n) ==
    LET length == Length(f, o, n) IN
    /\ length > 0
    /\ materialized[f] = None
    /\ Cached(f, o, length) # None
    /\ Enter(f, o, n)
    /\ Return(Data(Cached(f, o, length)))
    /\ full' = TRUE

\* plan_provider_read is Err(ProviderGone).
ReadGone(f, o, n) ==
    LET length == Length(f, o, n) IN
    /\ length > 0
    /\ materialized[f] = None
    /\ Cached(f, o, length) = None
    /\ ~live
    /\ Enter(f, o, n)
    /\ Return(Errno("EIO"))
    /\ full' = FALSE

\* plan_coalesced_provider_read: a read within one chunk asks for the chunk.
Coalesces(o, n) == caching /\ o + n <= chunk_base(o) + ChunkSize

\* Mutant: the chunk is not cut at the end of the file.
plan_coalesced_whole_chunk(f, o, n) ==
    IF Coalesces(o, n)
    THEN [provider |-> Range(chunk_base(o), ChunkSize), response |-> Range(o - chunk_base(o), n)]
    ELSE [provider |-> Range(o, n), response |-> Range(0, n)]

plan_coalesced_provider_read(f, o, n) ==
    IF Coalesces(o, n)
    THEN [provider |-> Range(chunk_base(o), Smaller(ChunkSize, Size[f] - chunk_base(o))),
          response |-> Range(o - chunk_base(o), n)]
    ELSE [provider |-> Range(o, n), response |-> Range(0, n)]

\* ReadPlan::Request
PlanProvider(f, o, n) ==
    LET length == Length(f, o, n) IN
    /\ length > 0
    /\ materialized[f] = None
    /\ Cached(f, o, length) = None
    /\ live
    /\ Enter(f, o, n)
    /\ pc' = "Asked"
    /\ LET plan == plan_coalesced_provider_read(f, o, length)
       IN  request' = plan.provider /\ slice' = plan.response
    /\ path' = None
    /\ UNCHANGED <<response, ahead, reply, full>>

-----------------------------------------------------------------------------
(* read, after the plan *)

\* read_materialized_file: a copy that was deleted or cut short since may give
\* an error, also when there is a newer one elsewhere.
ReadLocal ==
    /\ pc = "Local"
    /\ \/ Return(Data(Slice(call.file, request.offset, request.length)))
       \/ /\ path \notin intact
          /\ \E e \in Errnos : Return(Errno(e))
    /\ full' = (path \in intact)
    /\ UNCHANGED <<cacheVars, worldVars, call>>

\* Runtime::record_cached_read.  Its checks pass: the bytes lie in the file.
record_cached_read(o, bytes) ==
    known' = IF caching /\ bytes # <<>>
             THEN [known EXCEPT ![call.file] = Record(@, o, bytes)] ELSE known

\* Mutant: a coalesced response is recorded where the read began.
ProviderAnswersAtRead(n) ==
    LET bytes == Slice(call.file, request.offset, n) IN
    /\ pc = "Asked"
    /\ n <= request.length
    /\ response' = bytes
    /\ record_cached_read(call.offset, bytes)
    /\ full' = (n = request.length)
    /\ pc' = "Answered"
    /\ UNCHANGED <<caching, worldVars, call, path, request, slice, ahead, reply>>

\* route_provider_read returns a response that is Ok, with n bytes: as many as
\* were asked for or fewer (validate_provider_read_response_for_request).  They
\* are recorded; no other thread writes the cache before that.
ProviderAnswers(n) ==
    LET bytes == Slice(call.file, request.offset, n) IN
    /\ pc = "Asked"
    /\ n <= request.length
    /\ response' = bytes
    /\ record_cached_read(request.offset, bytes)
    /\ full' = (n = request.length)
    /\ pc' = "Answered"
    /\ UNCHANGED <<caching, worldVars, call, path, request, slice, ahead, reply>>

\* It returns an error, or a response with another status.
ProviderFails(e) ==
    /\ pc = "Asked"
    /\ Return(Errno(e))
    /\ full' = FALSE
    /\ UNCHANGED <<cacheVars, worldVars, call>>

\* plan_sequential_prefetch: what follows a full provider read, if it is not
\* cached yet.
Following == Range(End(request), Smaller(ChunkSize, Size[call.file] - End(request)))

\* Mutant: it does not look whether the bytes are cached.
plan_prefetch_again ==
    /\ Len(response) = request.length
    /\ caching
    /\ materialized[call.file] = None
    /\ live
    /\ Following.offset < Size[call.file]

plan_sequential_prefetch ==
    /\ Len(response) = request.length
    /\ caching
    /\ materialized[call.file] = None
    /\ live
    /\ Following.offset < Size[call.file]
    /\ Lookup(known[call.file], Following.offset, Following.length) = None

\* Mutant: the reply begins where the response begins.
reply_bytes_from_start ==
    IF slice.offset = 0 /\ Len(response) <= slice.length THEN Data(response)
    ELSE IF End(slice) > Len(response) THEN Errno("EIO")
    ELSE Data(SubSeq(response, 1, slice.length))

provider_reply_bytes ==
    IF slice.offset = 0 /\ Len(response) <= slice.length THEN Data(response)
    ELSE IF End(slice) > Len(response) THEN Errno("EIO")
    ELSE Data(SubSeq(response, slice.offset + 1, End(slice)))

ReplyAtOnce ==
    /\ pc = "Answered"
    /\ ~plan_sequential_prefetch
    /\ Return(provider_reply_bytes)
    /\ UNCHANGED <<cacheVars, worldVars, call, full>>

\* prefetch_after_provider_read asks for more, and the reply has to wait.
Prefetch ==
    /\ pc = "Answered"
    /\ plan_sequential_prefetch
    /\ ahead' = Following
    /\ pc' = "Prefetching"
    /\ UNCHANGED <<cacheVars, worldVars, call, path, request, slice, response, reply, full>>

PrefetchAnswers(n) ==
    /\ pc = "Prefetching"
    /\ n <= ahead.length
    /\ record_cached_read(ahead.offset, Slice(call.file, ahead.offset, n))
    /\ Return(provider_reply_bytes)
    /\ UNCHANGED <<caching, worldVars, call, full>>

\* Mutant: a prefetch that fails fails the read.
PrefetchFailsRead ==
    /\ pc = "Prefetching"
    /\ Return(Errno("EIO"))
    /\ UNCHANGED <<cacheVars, worldVars, call, full>>

\* Mutant: a prefetch that fails is tried again.
PrefetchRetries ==
    /\ pc = "Prefetching"
    /\ pc' = "Answered"
    /\ UNCHANGED <<cacheVars, worldVars, call, path, request, slice, response, ahead, reply, full>>

\* A prefetch that fails is forgotten.
PrefetchFails ==
    /\ pc = "Prefetching"
    /\ Return(provider_reply_bytes)
    /\ UNCHANGED <<cacheVars, worldVars, call, full>>

-----------------------------------------------------------------------------
(* The other threads, and the user *)

otherVars == <<cacheVars, pc, call, path, request, slice, response, ahead, reply, full>>

\* unregister_provider, on a connection thread.
ProviderGoes ==
    /\ live /\ live' = FALSE
    /\ UNCHANGED <<materialized, intact, otherVars>>

\* mark_node_materialized, at the end of a materialize, which has made or
\* replaced the copy at p.
mark_node_materialized(f, p) ==
    /\ materialized' = [materialized EXCEPT ![f] = p]
    /\ intact' = intact \cup {p}
    /\ UNCHANGED <<live, otherVars>>

\* The user deletes or truncates a local copy.
LoseCopy(p) ==
    /\ p \in intact /\ intact' = intact \ {p}
    /\ UNCHANGED <<live, materialized, otherVars>>

-----------------------------------------------------------------------------
\* The steps of the callback once it has been entered.
Step ==
    \/ ReadLocal
    \/ \E n \in 0 .. request.length : ProviderAnswers(n)
    \/ \E e \in Errnos : ProviderFails(e)
    \/ ReplyAtOnce
    \/ Prefetch
    \/ \E n \in 0 .. ahead.length : PrefetchAnswers(n)
    \/ PrefetchFails

Next ==
    \/ \E r \in Reads :
          \/ ReadEof(r.file, r.offset, r.size)
          \/ PlanMaterialized(r.file, r.offset, r.size)
          \/ ReadCached(r.file, r.offset, r.size)
          \/ ReadGone(r.file, r.offset, r.size)
          \/ PlanProvider(r.file, r.offset, r.size)
    \/ Step
    \/ ProviderGoes
    \/ \E f \in Files : \E p \in Paths[f] : mark_node_materialized(f, p) \/ LoseCopy(p)

Spec == Init /\ [][Next]_vars

\* route_provider_read returns, at the latest when it times out.
FairSpec == Spec /\ WF_vars(Step)

-----------------------------------------------------------------------------
\* The cache holds what the provider serves, at its place: no byte of another
\* file, of another offset, or past a short answer.
CacheIsContent ==
    \A f \in Files : \A o \in Offsets(f) : known[f][o] \in {None, Content[f][o]}

\* Data that a read returns is the file's content at the offset that was read,
\* never more than was asked for, whether it came from the provider, from a slice
\* of a coalesced response, from the cache or from the materialized copy.
DataIsContent ==
    pc = "Idle" =>
        /\ Len(reply.data) <= Length(call.file, call.offset, call.size)
        /\ reply.data = Slice(call.file, call.offset, Len(reply.data))

\* A read that the provider answered in full, or that needed no provider, returns
\* all that the caller asked for: coalescing and a failing prefetch lose nothing.
WholeWhenAnsweredInFull ==
    pc = "Idle" /\ full =>
        reply = Data(Slice(call.file, call.offset, Length(call.file, call.offset, call.size)))

\* A provider is asked for 1 to MAX_PROVIDER_READ_LEN bytes of the file (what
\* validate_read_range accepts), which contain the read, begin in its chunk and
\* end with its chunk or with the read; a prefetch is the chunk size at most: a
\* random read never downloads the file.
RequestsFit ==
    /\ pc \in {"Asked", "Answered", "Prefetching"} =>
          LET o == call.offset
              n == Length(call.file, o, call.size)
          IN  /\ request.length \in 1 .. MaxRead
              /\ End(request) <= Size[call.file]
              /\ chunk_base(o) <= request.offset /\ request.offset <= o
              /\ o + n <= End(request)
              /\ \/ End(request) <= chunk_base(o) + ChunkSize
                 \/ End(request) = o + n
    /\ pc = "Prefetching" =>
          /\ ahead.length \in 1 .. ChunkSize
          /\ ahead.offset = End(request) /\ End(ahead) <= Size[call.file]

\* A provider is not asked for a range that is cached already.
NeverAsksForKnown ==
    /\ pc = "Asked" /\ caching =>
          Lookup(known[call.file], request.offset, request.length) = None
    /\ pc = "Prefetching" =>
          Lookup(known[call.file], ahead.offset, ahead.length) = None

\* Every read callback replies: the prefetch that the reply waits for is one, and
\* is not tried again.
CallReturns == pc # "Idle" ~> pc = "Idle"
=============================================================================
