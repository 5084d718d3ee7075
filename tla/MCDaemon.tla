------------------------------- MODULE MCDaemon -------------------------------
(* Small instances of Daemon for TLC. *)
EXTENDS Daemon, TLC

ClientSymmetry == Permutations(Clients)
=============================================================================
