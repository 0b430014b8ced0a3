---------------------------- MODULE MCPromiseTree ----------------------------
(* A small instance of PromiseTree: the paths in the order of their strings, in *)
(* which "a-" comes between "a" and what is in it.                              *)
EXTENDS PromiseTree

CONSTANT c1

Order == <<<<>>, <<"a">>, <<"a-">>, <<"a", "a">>, <<"a", "a", "a">>>>

MCPaths == {Order[k] : k \in 1 .. Len(Order)}
MCBefore(p, q) ==
    \E k, l \in 1 .. Len(Order) : Order[k] = p /\ Order[l] = q /\ k < l
MCInputs == (MCPaths \ {<<>>}) \cup {<<".">>, <<"..", "a">>, <<"a", ".", "a">>, <<"a", "..", "a-">>}
=============================================================================
