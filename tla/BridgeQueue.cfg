SPECIFICATION FairSpec
CONSTANTS
  s1 = s1
  s2 = s2
  u1 = u1
  u2 = u2
  u3 = u3
  None = None
  Streams = {s1}
  Uuids = {u1, u2}
  Labels <- QueueLabels
  Claims <- QueueLabels
  Targets = {s1}
  Refusals = {TRUE, FALSE}
  Listed = {s1}
  Revived = {}
  QueueSize = 2
  MaxMsgs = 3
  MaxViews = 1
INVARIANTS PerTargetFifo LossOnlyByEviction
PROPERTIES BacklogDrains
