------------------------- MODULE MCSessionRotation -------------------------
(* An instance of SessionRotation for TLC.  Requests and tokens are         *)
(* interchangeable.                                                         *)
EXTENDS SessionRotation, TLC

Symmetry == Permutations(Tokens) \cup Permutations(Requests)
=============================================================================
