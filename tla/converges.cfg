\* One edit and one fault; one of the specs makes every pass panic and is not
\* in canonical form.
SPECIFICATION FairSpec
CONSTANTS
  Nil = Nil
  A = A
  B = B
  p1 = p1
  p2 = p2
  img = img
  io = io
  ptA = ptA
  ptB = ptB
  small = small
  big = big
  odd = odd
  r1 = r1
  r2 = r2
  r3 = r3
  EntityNames = {A}
  PodNames = {p1}
  Images = {img}
  IOConfigs = {io}
  Partitions = {ptA, ptB}
  ResourceKinds = {"cpu"}
  Quantities = {small, big, odd}
  RevisionNames = {r1, r2, r3}
  Specs <- PanicSpecs
  Hash <- PanicHash
  MaxUid = 1
  MaxEdits = 1
  MaxFaults = 1
  MaxCount = 0
  MaxRevision = 2
  Canonical <- CanonicalQuantities
  Faults = {"apiError", "crash", "podGone"}
  AllowRollback = FALSE
  AllowDelete = FALSE
  AllowForeground = FALSE
PROPERTIES Converges
