------------------------------ MODULE ByteCache ------------------------------
(***************************************************************************)
(* What the read-through cache promises: it remembers, byte by byte, what  *)
(* was last recorded of a file, and answers a read exactly when every byte *)
(* of it is remembered.  There are no chunks and no ranges here: ReadCache *)
(* is checked against these operators, and FuseRead is built on them.      *)
(***************************************************************************)
EXTENDS Integers, Sequences

CONSTANTS
    Files,      \* cache keys: (promise_id, relative_path)
    Size,       \* Size[f]: attr.size of the node
    Byte,       \* byte values
    ChunkSize,  \* chunk_size of CachePolicy::ReadThrough
    None        \* no byte, no answer

Offsets(f) == 0 .. Size[f] - 1

\* The byte strings that fit into file f at offset o.
Strings(f, o) == UNION {[1 .. n -> Byte] : n \in 1 .. Size[f] - o}

ASSUME CacheAssumptions ==
    /\ ChunkSize \in Nat \ {0}
    /\ Size \in [Files -> Nat]
    /\ None \notin Byte /\ \A f \in Files : None \notin Strings(f, 0)

\* A file of which nothing is remembered.
Nothing(f) == [o \in Offsets(f) |-> None]

\* The remembered bytes after s was recorded at offset o.
Record(known, o, s) ==
    [i \in DOMAIN known |-> IF i >= o /\ i < o + Len(s) THEN s[i - o + 1] ELSE known[i]]

\* The answer to a read of n bytes at offset o.
Lookup(known, o, n) ==
    IF \E i \in o .. o + n - 1 : known[i] = None
    THEN None ELSE [i \in 1 .. n |-> known[o + i - 1]]

chunk_base(o) == (o \div ChunkSize) * ChunkSize
=============================================================================
