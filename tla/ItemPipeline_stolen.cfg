\* Redelivery against a live runner.
CONSTANTS
  Items = {i1, i2}
  Workers = {w1, w2}
  Stamps = {1, 2}
  MaxRetries = 2
  MaxReclaim = 1
  MaxClaimTries = 2
  MaxDeliveries = 2
  Stages = {"summarizing"}
  Broken = {}
  FaultKinds = {"crash", "content", "transient"}
  Requests = {}
  MaxFaults = 1
  MaxRequests = 0
  NoStamp = NoStamp
  NoItem = NoItem
  NoWorker = NoWorker
SPECIFICATION Spec
INVARIANTS SingleRunner
