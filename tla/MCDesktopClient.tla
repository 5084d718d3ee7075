---------------------------- MODULE MCDesktopClient ----------------------------
(* Small instances of DesktopClient for TLC. *)
EXTENDS DesktopClient, TLC

Symmetry == Permutations(Attempts) \cup Permutations(Ids) \cup Permutations(Clients) \cup Permutations(Exclusive)

=============================================================================
