\* Two workers and a reader; the source of the row changes.
CONSTANTS
  Editions = {1}
  OldRows = {}
  Workers = {w1, w2}
  Readers = {r1}
  Stamps = {t1, t2, t3, t4}
  MaxAttempts = 3
  MaxCollisions = 8
  MaxWakes = 1
  MaxVersions = 2
  MaxFaults = 0
  MaxRequests = 2
  NoStamp = NoStamp
  NoEdition = NoEdition
SPECIFICATION Spec
SYMMETRY WorkerSymmetry
INVARIANTS PointsMatchHash
