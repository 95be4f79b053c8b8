SPECIFICATION FairSpec
CONSTANTS
  a = a
  b = b
  s = s
  t = t
  c1 = c1
  c2 = c2
  None = None
  Unknown = Unknown
  Chunks = {c1, c2}
  Nodes = {a, s, t}
  Seeds = {s, t}
  Corrupt = {t}
  Leavers = {}
  Pairs <- SourcePairs
  PerPeer = 1
  Total = 2
  Slack = 1
  Threshold = 2
  MaxFailures = 6
  Kinds <- SourceKinds
  MaxMishaps = 1
INVARIANTS SlotsSound
PROPERTIES DownloadCompletes
