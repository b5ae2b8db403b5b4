\* Liveness: work ends although invocations are evicted and items are sent back,
\* although every message is delivered once only.
CONSTANTS
  Items = {i1}
  Workers = {w1, w2}
  Stamps = {1, 2}
  MaxRetries = 2
  MaxReclaim = 1
  MaxClaimTries = 2
  MaxDeliveries = 1
  Stages = {"summarizing"}
  Broken = {}
  FaultKinds = {"crash"}
  Requests = {"repair", "regenerate", "retry"}
  MaxFaults = 1
  MaxRequests = 1
  NoStamp = NoStamp
  NoItem = NoItem
  NoWorker = NoWorker
SPECIFICATION FairSpec
INVARIANTS DoneIsSummarised
PROPERTIES Settles
