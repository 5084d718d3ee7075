\* One key, one node, another server that peers may be pinned to, two crashes.
CONSTANTS
  Users = {u1}
  Keys = {k1}
  Servers = {s1, s2}
  Credentials = {TRUE, FALSE}
  Absent = Absent
  Unpinned = Unpinned
  Nodes = {s1}
  Order <- DefaultOrder
  Static = StaticKey
  StaticGiven = TRUE
  MaxAttempts = 2
  MaxCrashes = 2
SPECIFICATION FairSpec
INVARIANTS
  NodeTypeOK
  OnlyGranted
  PassSettles
PROPERTIES
  RevokedLeaves
  GrantedArrives
