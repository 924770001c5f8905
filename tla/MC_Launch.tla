------------------------------ MODULE MC_Launch ------------------------------
(* Two arrays are enough for the caller's own and the one the peer decodes  *)
(* from its request, three requests for a first one and two retries.        *)
EXTENDS Launch, TLC

CONSTANTS a1, a2

MCArrayId == {a1, a2}
Symmetry == Permutations(MCArrayId)
=============================================================================
