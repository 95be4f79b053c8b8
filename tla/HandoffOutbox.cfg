SPECIFICATION FairSpec
CONSTANTS
  h1 = h1
  d1 = d1
  d2 = d2
  p1 = p1
  ra = ra
  rb = rb
  None = None
  Peers = {p1}
  Items = {h1, d1, d2}
  Handoffs = {h1}
  To <- AllToOne
  Readers = {}
  FirstClock = {"live"}
  Faults = {FALSE}
  MaxTaken = 3
  MaxAttempts = 1
  MaxRestarts = 1
INVARIANTS OutboxSound
PROPERTIES HandoffSettles
