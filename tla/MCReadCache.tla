---------------------------- MODULE MCReadCache ----------------------------
EXTENDS ReadCache, TLC

CONSTANTS f1, f2

MCSize == f1 :> 5 @@ f2 :> 1
=============================================================================
