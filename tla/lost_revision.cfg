\* A crash between the write of CurrentRevision and syncRevisions.
SPECIFICATION FairSpec
CONSTANTS
  Nil = Nil
  A = A
  B = B
  p1 = p1
  p2 = p2
  img = img
  io = io
  ptA = ptA
  ptB = ptB
  small = small
  big = big
  odd = odd
  r1 = r1
  r2 = r2
  r3 = r3
  EntityNames = {A}
  PodNames = {p1}
  Images = {img}
  IOConfigs = {io}
  Partitions = {ptA, ptB}
  ResourceKinds = {"cpu"}
  Quantities = {small, big, odd}
  RevisionNames = {r1, r2, r3}
  Specs <- SoleSpecs
  Hash <- SoleHash
  MaxUid = 1
  MaxEdits = 0
  MaxFaults = 1
  MaxCount = 0
  MaxRevision = 4
  Canonical <- CanonicalQuantities
  Faults = {"crash"}
  AllowRollback = FALSE
  AllowDelete = FALSE
  AllowForeground = FALSE
PROPERTIES CurrentRevisionRecorded
