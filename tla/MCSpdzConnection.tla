-------------------------- MODULE MCSpdzConnection --------------------------
(* SpdzConnection on a few proxies and calls, which are interchangeable.   *)
EXTENDS SpdzConnection, TLC

Symmetry == Permutations(Proxies) \union Permutations(Calls)
=============================================================================
