SPECIFICATION FairSpec
CONSTANTS
  a = a
  b = b
  s = s
  t = t
  c1 = c1
  c2 = c2
  None = None
  Unknown = Unknown
  Chunks = {c1, c2}
  Nodes = {a, b, s}
  Seeds = {s}
  Corrupt = {}
  Leavers = {s}
  Pairs <- LeavePairs
  PerPeer = 1
  Total = 2
  Slack = 1
  Threshold = 2
  MaxFailures = 3
  Kinds <- LeaveKinds
  MaxMishaps = 1
INVARIANTS KnowledgeSound
PROPERTIES SwarmOutlivesSeeder
