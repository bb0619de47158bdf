CONSTANTS
  k1 = k1
  k2 = k2
  k3 = k3
  k4 = k4
  Keys = {k1, k2, k3, k4}
  Values = {0, 1}
  Absent = Absent
  NoPair = NoPair
  Hash <- Colliding
  Same <- Identity
  FirstCap = 2
  FirstBuckets = 2
SPECIFICATION Spec
INVARIANTS TypeOK NeverFull OneEntryPerKey
PROPERTIES ImplementsStore
