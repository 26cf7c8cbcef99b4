---------------------------- MODULE MCBootstrap ----------------------------
(* TLC's instance of Bootstrap. *)
EXTENDS Bootstrap, TLC
CONSTANTS s1, s2, s3, r1, r2
ThreeSetups == {s1, s2, s3}
TwoRuns == {r1, r2}
ThreeRuns == {r1, r2}
=============================================================================
