--------------------------- MODULE MCSocketClient ---------------------------
(* SocketClient on a few proxies and calls, which are interchangeable.     *)
EXTENDS SocketClient, TLC

Symmetry == Permutations(Proxies) \union Permutations(Calls)
=============================================================================
