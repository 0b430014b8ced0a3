---------------------------- MODULE MCMaterialize ----------------------------
(* Small trees for Materialize. *)
EXTENDS Materialize, TLC

CONSTANTS t1, t2, d, s, x, y

\* A directory with a file in it, and one in a directory of its own.
DeepDirs   == <<d, s>>
DeepFiles  == <<x, y>>
DeepParent == d :> None @@ s :> d @@ x :> d @@ y :> s
DeepChunks == x :> 1 @@ y :> 1
ThreadSymmetry == Permutations(Threads)
=============================================================================
