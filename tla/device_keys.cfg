\* Two overlapping requests of two accounts, a machine each and a web client.
CONSTANTS
  Users = {u1, u2}
  Keys = {k1, k2, k3}
  Servers = {s1}
  Credentials = {TRUE, FALSE}
  Absent = Absent
  Unpinned = Unpinned
  Devices = {d1, d2, d3}
  Machines = {m1}
  NoMachine = NoMachine
  Requests = {r1, r2}
  Limits = {1}
  FreeLimit = 1
  Faulty = TRUE
SPECIFICATION Spec
SYMMETRY DeviceSymmetry
INVARIANTS
  TypeOK
  KeysHeld
  MachineDevicesBounded
