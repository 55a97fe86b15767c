\* The second edit may bring the first spec back in the middle of a rollout.
SPECIFICATION Spec
CONSTANTS
  Nil = Nil
  A = A
  B = B
  p1 = p1
  p2 = p2
  img = img
  io = io
  ptA = ptA
  ptB = ptB
  small = small
  big = big
  odd = odd
  r1 = r1
  r2 = r2
  r3 = r3
  EntityNames = {A}
  PodNames = {p1}
  Images = {img}
  IOConfigs = {io}
  Partitions = {ptA, ptB}
  ResourceKinds = {"cpu"}
  Quantities = {small, big, odd}
  RevisionNames = {r1, r2, r3}
  Specs <- PairSpecs
  Hash <- PairHash
  MaxUid = 1
  MaxEdits = 2
  MaxFaults = 0
  MaxCount = 0
  MaxRevision = 4
  Canonical <- CanonicalQuantities
  Faults = {}
  AllowRollback = TRUE
  AllowDelete = FALSE
  AllowForeground = FALSE
INVARIANTS RevisionFidelity
