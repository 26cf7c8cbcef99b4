-------------------------- MODULE MCProxySessions --------------------------
(* TLC's instance of ProxySessions. *)
EXTENDS ProxySessions
CONSTANTS p1, p2, c1
TwoProxies == {p1, p2}
OneCall == {c1}
=============================================================================
