--------------------------- MODULE MCDeviceLifecycle ---------------------------
(* Small instances of DeviceLifecycle for TLC. *)
EXTENDS DeviceLifecycle, TLC

DeviceSymmetry ==
  Permutations(Users) \cup Permutations(Keys) \cup Permutations(Devices) \cup Permutations(Requests)
=============================================================================
