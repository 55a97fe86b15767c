\* Two resources with an entity each.
SPECIFICATION BothFairSpec
CONSTANTS
  Nil = Nil
  A = A
  B = B
  p1 = p1
  p2 = p2
  img = img
  io = io
  ptA = ptA
  ptB = ptB
  small = small
  big = big
  odd = odd
  r1 = r1
  r2 = r2
  r3 = r3
  EntityNames = {A, B}
  PodNames = {p1}
  Images = {img}
  IOConfigs = {io}
  Partitions = {ptA, ptB}
  ResourceKinds = {"cpu"}
  Quantities = {small, big, odd}
  RevisionNames = {r1, r2, r3}
  Specs <- NeighbourSpecs
  Hash <- NeighbourHash
  MaxUid = 2
  MaxEdits = 0
  MaxFaults = 0
  MaxCount = 0
  MaxRevision = 4
  Canonical <- CanonicalQuantities
  Faults = {}
  AllowRollback = FALSE
  AllowDelete = TRUE
  AllowForeground = FALSE
  Specs1 <- SpecsA
  Specs2 <- SpecsB
PROPERTIES BothConverge
CHECK_DEADLOCK FALSE
