\* An item that always fails is given up, and its attempts stay bounded, under
\* redelivery.
CONSTANTS
  Items = {i1}
  Workers = {w1, w2}
  Stamps = {1, 2}
  MaxRetries = 2
  MaxReclaim = 1
  MaxClaimTries = 2
  MaxDeliveries = 3
  Stages = {"summarizing"}
  Broken = {i1}
  FaultKinds = {"crash", "content", "transient"}
  Requests = {"nudge"}
  MaxFaults = 1
  MaxRequests = 0
  NoStamp = NoStamp
  NoItem = NoItem
  NoWorker = NoWorker
SPECIFICATION FairSpec
INVARIANTS RetryBudget
PROPERTIES GivesUp
