--------------------------- MODULE MCAccountImport ---------------------------
(* Instances of AccountImport for TLC. *)
EXTENDS AccountImport, TLC

ImportSymmetry ==
    Permutations(Requests) \cup Permutations(Imports) \cup Permutations(Passwords)
=============================================================================
