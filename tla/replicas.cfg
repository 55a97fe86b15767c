\* Two managers, deletion at any point, one failed call or crash of either.
\* Without a resource and with nothing left to collect the system rests.
SPECIFICATION BothSpec
CONSTANTS
  Nil = Nil
  A = A
  B = B
  p1 = p1
  p2 = p2
  img = img
  io = io
  ptA = ptA
  ptB = ptB
  small = small
  big = big
  odd = odd
  r1 = r1
  r2 = r2
  r3 = r3
  EntityNames = {A}
  PodNames = {p1}
  Images = {img}
  IOConfigs = {io}
  Partitions = {ptA, ptB}
  ResourceKinds = {"cpu"}
  Quantities = {small, big, odd}
  RevisionNames = {r1, r2, r3}
  Specs <- BareSpecs
  Hash <- BareHash
  MaxUid = 1
  MaxEdits = 0
  MaxFaults = 1
  MaxCount = 0
  MaxRevision = 4
  Canonical <- CanonicalQuantities
  Faults = {"apiError", "crash"}
  AllowRollback = FALSE
  AllowDelete = TRUE
  AllowForeground = FALSE
 
PROPERTIES ImplementsRollout
CHECK_DEADLOCK FALSE
