\* Deletion at any point, recreation under the same name, and a pod that fails.
\* Without a resource and with nothing left to collect the system rests.
SPECIFICATION Spec
CONSTANTS
  Nil = Nil
  A = A
  B = B
  p1 = p1
  p2 = p2
  img = img
  io = io
  ptA = ptA
  ptB = ptB
  small = small
  big = big
  odd = odd
  r1 = r1
  r2 = r2
  r3 = r3
  EntityNames = {A}
  PodNames = {p1}
  Images = {img}
  IOConfigs = {io}
  Partitions = {ptA, ptB}
  ResourceKinds = {"cpu"}
  Quantities = {small, big, odd}
  RevisionNames = {r1, r2, r3}
  Specs <- SoleSpecs
  Hash <- SoleHash
  MaxUid = 2
  MaxEdits = 0
  MaxFaults = 1
  MaxCount = 0
  MaxRevision = 4
  Canonical <- CanonicalQuantities
  Faults = {"podFailed"}
  AllowRollback = FALSE
  AllowDelete = TRUE
  AllowForeground = FALSE
INVARIANTS OwnerHeld OwnershipInv
PROPERTIES ImplementsRollout
CHECK_DEADLOCK FALSE
