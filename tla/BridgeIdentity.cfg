SPECIFICATION Spec
CONSTANTS
  s1 = s1
  s2 = s2
  u1 = u1
  u2 = u2
  u3 = u3
  None = None
  Streams = {s1, s2}
  Uuids = {u1, u2, u3}
  Labels <- IdentityLabels
  Claims <- IdentityClaims
  Targets = {}
  Refusals = {FALSE}
  Listed = {}
  Revived = {s1}
  QueueSize = 1
  MaxMsgs = 0
  MaxViews = 2
INVARIANTS RegistryConsistent FlagsFollowConnection
PROPERTIES IdentityPinned
