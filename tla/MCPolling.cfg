\* One follow, two polls at a time, two entries of which one is too short; two items
\* of two channels and the admin's walk over them, one at a time; two passes of
\* research over two items, the newest of which is enough for a pass.
CONSTANTS
  Follows = {f1}
  Entries = {1, 2}
  Short = {1}
  Old = {}
  Slots = {1, 2}
  MaxNew = 1
  MaxLookups = 2
  MaxFaults = 2
  MaxRequests = 1
  SlowQueue = FALSE
  NoFollow = NoFollow
  Videos = {1, 2}
  Owner <- PublishedBy
  Platform <- PlatformNames
  Linkers = {l1, l2}
  Subs = {s1}
  BatchLimit = 1
  MaxPaths = 2
  MaxBreaks = 1
  NoVideo = NoVideo
  NoOwner = NoOwner
  NoAddress = NoAddress
  Assignments = {1, 2, 3}
  Agents = {2}
  Readers = {1, 2}
  ReaderOf <- AssignedTo
  Studies = {1, 2}
  StudyLimit = 1
  Passes = {p1, p2}
  MaxDisturbances = 1
  NoPair = NoPair
SPECIFICATION PollingSpec
INVARIANTS CursorPassesNothing AttributionKept WalkFindsAll
PROPERTIES ArrivesOn BriefsCatchUpOn
CHECK_DEADLOCK FALSE
