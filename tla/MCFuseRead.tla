----------------------------- MODULE MCFuseRead -----------------------------
(* Small instances of FuseRead.  A byte of content is its file and offset, so *)
(* that a byte at the wrong place differs from the right one.                 *)
EXTENDS FuseRead, TLC

CONSTANTS f1, f2, p1, p2

MCSize    == f1 :> 4 @@ f2 :> 1
MCContent == [f \in Files |-> [o \in Offsets(f) |-> <<f, o>>]]
\* f1 may be copied, lost and copied elsewhere; f2 stays promised.
MCPaths   == f1 :> {p1, p2} @@ f2 :> {}
MCByte    == UNION {{Content[f][o] : o \in Offsets(f)} : f \in Files}
\* Everywhere in f1, past its end and of no bytes; and of f2.
MCReads   ==
    [file : {f1}, offset : 0 .. 3, size : {1, 2, MaxRead + 1}]
        \cup {[file |-> f1, offset |-> 4, size |-> 1], [file |-> f1, offset |-> 0, size |-> 0],
              [file |-> f2, offset |-> 0, size |-> 1]}
=============================================================================
