\* One account, one request at a time, no failures: its tier allows one device.
CONSTANTS
  Users = {u1}
  Keys = {k1, k2}
  Servers = {s1}
  Credentials = {TRUE, FALSE}
  Absent = Absent
  Unpinned = Unpinned
  Devices = {d1, d2}
  Machines = {m1}
  NoMachine = NoMachine
  Requests = {r1}
  Limits = {1}
  FreeLimit = 1
  Faulty = FALSE
SPECIFICATION Spec
INVARIANTS
  DeviceLimit
