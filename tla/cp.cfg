\* A user takes up three keys, and nodes register a server, through two overlapping requests;
\* one token comes from the environment, the other is issued.
CONSTANTS
  Users = {u1}
  Keys = {k1, k2, k3}
  Servers = {s1}
  Credentials = {TRUE}
  Tokens = {t1, t2}
  Bootstrap = t1
  Handlers = {h1, h2}
  RegisterBodies = {{}, {"region"}, {"region", "publicIp"}}
  Absent = Absent
  Unpinned = Unpinned
  Faulty = TRUE
SPECIFICATION Spec
SYMMETRY PeerSymmetry
INVARIANTS
  TypeOK
  ActivePeersBounded
  LateRegistrationsBounded
  ReferencesResolve
PROPERTIES
  DirectorySpec
  AddressSticky
