--------------------------- MODULE MCControlPlane ---------------------------
(* Small instances of ControlPlane for TLC.  Keys and handler
   slots are interchangeable; the bootstrap token is not like the others.     *)
EXTENDS ControlPlane, TLC

PeerSymmetry ==
  Permutations(Keys) \cup Permutations(Handlers)
=============================================================================
