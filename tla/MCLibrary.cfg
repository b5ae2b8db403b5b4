\* Two addresses of one video, two users, two operations and two runs of an item;
\* three follow rows of a user, two of them from before channels; three articles of
\* a source and two invocations that merge them; three callers of a reading summary;
\* two builders of a graph of two chunks that come and go; one item, a side job and a
\* short call in a pool of two containers.
CONSTANTS
  Urls = {u1, u2}
  Video <- VideoOf
  Users = {a, b}
  Operations = {o1, o2}
  MaxOperations = 3
  MaxLive = 2
  NoUrl = NoUrl
  NoUser = NoUser
  Rows = {1, 2, 3}
  Legacy = {1, 2}
  Canonical = canonical
  Alias = alias
  Guids = {1}
  Windows = {1}
  Askers = {k1, k2}
  MaxPolls = 1
  MaxAsks = 2
  MaxDrops = 1
  Absent = Absent
  Loose = Loose
  Keep = Keep
  Articles = {a1, a2, a3}
  Sources = {s1}
  Hands = {h1, h2}
  MaxMergeSteps = 5
  NoArticle = NoArticle
  Callers = {c1, c2, c3}
  MaxSources = 2
  MaxBriefFaults = 2
  MaxCalls = 4
  Builders = {g1, g2}
  ChunkIds = {1, 2}
  MaxBuilds = 2
  MaxDeliveries = 2
  MaxEvictions = 1
  MaxChanges = 3
  Items = {i1}
  Side = {t1}
  Tools = {k1}
  Runs = {r1, r2}
  MaxInstances = 2
  MaxRetries = 1
  MaxGen = 1
  MaxUpsets = 2
  NoJob = NoJob
SPECIFICATION TablesSpec
SYMMETRY Interchangeable
INVARIANTS
  LibraryReflects DemandCounted FollowKept 
  BriefOfSource AskedOnce WholeWhenFresh EditsShown StraysExcused
PROPERTIES ShelfKept
CHECK_DEADLOCK FALSE
