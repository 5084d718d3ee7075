\* Two overlapping checkouts, two events in progress; a subscription that ends once.
CONSTANTS
  Customers = {k1, k2}
  NoCustomer = NoCustomer
  Subs = {s1}
  Calls = {c1, c2}
  Hooks = {h1, h2}
  MaxVersion = 2
SPECIFICATION Spec
SYMMETRY Symmetry
INVARIANTS
  TypeOK
  BilledToAccount
  StatusArrives
  CutoffFollows
