------------------------------- MODULE MCSignIn -------------------------------
(* Small instances of SignIn for TLC. *)
EXTENDS SignIn, TLC

Symmetry == Permutations(Codes) \cup Permutations(Tokens) \cup Permutations(Requests) \cup Permutations(Checks)
=============================================================================
