---------------------------- MODULE MCSendInputs ----------------------------
(* SendInputs on a few proxies, which are interchangeable.                 *)
EXTENDS SendInputs, TLC

Symmetry == Permutations(Proxies)
=============================================================================
