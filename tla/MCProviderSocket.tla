-------------------------- MODULE MCProviderSocket --------------------------
(* One provider connection for TLC: a FUSE thread and a materialize, buffers *)
(* of one piece down and one frame up.                                      *)
EXTENDS ProviderSocket
=============================================================================
