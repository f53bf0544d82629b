---------------------------- MODULE MCEmailCodes ----------------------------
(***************************************************************************)
(* Symmetry of EmailCodes for TLC.                                         *)
(***************************************************************************)
EXTENDS EmailCodes, TLC

Symmetry == Permutations(Users) \cup Permutations(Emails)
            \cup Permutations(Codes) \cup Permutations(Handlers)
=============================================================================
