SPECIFICATION Spec
CONSTANTS
  a = a
  b = b
  p = p
  q = q
  g = g
  h = h
  k1 = k1
  k2 = k2
  k3 = k3
  n1 = n1
  n2 = n2
  n3 = n3
  t = t
  v1 = v1
  v2 = v2
  w1 = w1
  w2 = w2
  Themes = {"relay", "offers", "fetch", "mail", "conversation", "social",
    "serving", "notices", "triggers"}
  Clients = {a, b}
  Letters = {1, 2, 3}
  From <- MCFrom
  To <- MCTo
  Everyone = Everyone
  Retention = 2
  Capacity = 3
  Attempts = 2
  MaxFaults = 2
  Peers = {p, q}
  Sound = {p}
  PageCount = 2
  Batch = 1
  MaxMishaps = 1
  Files <- MCFiles
  Queries = {"11", "1", "x", "2"}
  Timeout = 3
  Chunks = 3
  MaxTime = 6
  Keys = {k1, k2, k3}
  Grants = {g, h}
  PageSize = 1
  MaxRows = 2
  MaxPending = 2
  MaxSubs = 1
  MaxPosts = 2
  Nodes = {n1, n2, n3}
  Topics = {t}
  HistorySize = 2
  Counts = {1}
  MaxMessages = 2
  MaxRequests = 1
  MaxSockets = 3
  MaxChats = 3
  MaxSays = 2
  BackoffSteps = 2
  Indexes = {0, 1}
  MaxSends = 2
  MaxCycles = 2
  Profiles = {v1, v2}
  MaxChanges = 2
  MaxBreaks = 2
  Words = {w1, w2}
  MaxTriggers = 4
  MaxTexts = 2
INVARIANTS RelaySound FetchSound FetchTruthful LossIsTold
  SubscriptionsSound DirectStaysPrivate SocialSound ChunksServedSound
  NoticesTellWhoIsHere TriggersRunOnce
CHECK_DEADLOCK FALSE
