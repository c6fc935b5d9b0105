--------------------------- MODULE MCSessionCache ---------------------------
(* Small instances of SessionCache: the devices and the addresses are each  *)
(* interchangeable.                                                         *)
EXTENDS SessionCache, TLC

CONSTANTS a, b, p, q, r

MCMacs == {a, b}
MCIps  == {p, q, r}
Symmetry == Permutations(MCMacs) \cup Permutations(MCIps)
=============================================================================
