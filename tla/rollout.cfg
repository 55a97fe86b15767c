\* Every pair of a small, a repartitioned and a shrunk deployment; no faults.
SPECIFICATION Spec
CONSTANTS
  Nil = Nil
  A = A
  B = B
  p1 = p1
  p2 = p2
  img = img
  io = io
  ptA = ptA
  ptB = ptB
  small = small
  big = big
  odd = odd
  r1 = r1
  r2 = r2
  r3 = r3
  EntityNames = {A, B}
  PodNames = {p1, p2}
  Images = {img}
  IOConfigs = {io}
  Partitions = {ptA, ptB}
  ResourceKinds = {"cpu"}
  Quantities = {small, big, odd}
  RevisionNames = {r1, r2, r3}
  Specs <- RolloutSpecs
  Hash <- RolloutHash
  MaxUid = 1
  MaxEdits = 1
  MaxFaults = 0
  MaxCount = 1
  MaxRevision = 4
  Canonical <- CanonicalQuantities
  Faults = {}
  AllowRollback = FALSE
  AllowDelete = FALSE
  AllowForeground = FALSE
INVARIANTS TypeOK RestartInv
PROPERTIES RestartJustified
