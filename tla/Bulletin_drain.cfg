\* Two workers and a reader on one row.
CONSTANTS
  Editions = {1}
  OldRows = {1}
  Workers = {w1, w2}
  Readers = {r1}
  Stamps = {t1, t2, t3, t4}
  MaxAttempts = 2
  MaxCollisions = 1
  MaxWakes = 1
  MaxVersions = 2
  MaxFaults = 1
  MaxRequests = 2
  NoStamp = NoStamp
  NoEdition = NoEdition
SPECIFICATION FairSpec
INVARIANTS OneTranslator IntroMatchesHash AttemptBudget
PROPERTIES NeverTwice Settles
