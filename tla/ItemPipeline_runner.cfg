\* One item: claims, sweeps, an eviction or a failure, ageing leases, each
\* message delivered twice at most, and a request of each kind.
CONSTANTS
  Items = {i1}
  Workers = {w1, w2}
  Stamps = {1, 2}
  MaxRetries = 2
  MaxReclaim = 1
  MaxClaimTries = 2
  MaxDeliveries = 2
  Stages = {"summarizing"}
  Broken = {}
  FaultKinds = {"crash", "content", "transient"}
  Requests = {"nudge", "retry", "regenerate", "repair"}
  MaxFaults = 1
  MaxRequests = 1
  NoStamp = NoStamp
  NoItem = NoItem
  NoWorker = NoWorker
SPECIFICATION Spec
SYMMETRY WorkerSymmetry
INVARIANTS OneRunner RunnerHoldsLease IndexMatchesSummary
PROPERTIES ImplementsSingleFlight
