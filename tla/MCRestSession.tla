--------------------------- MODULE MCRestSession ---------------------------
(* RestSession on a few proxies and calls, which are interchangeable.      *)
EXTENDS RestSession, TLC

Symmetry == Permutations(Proxies) \union Permutations(Calls)
=============================================================================
