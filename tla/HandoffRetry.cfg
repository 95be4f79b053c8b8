SPECIFICATION Spec
CONSTANTS
  h1 = h1
  d1 = d1
  d2 = d2
  p1 = p1
  ra = ra
  rb = rb
  None = None
  Peers = {p1}
  Items = {h1}
  Handoffs = {h1}
  To <- AllToOne
  Readers = {ra, rb}
  FirstClock = {"early", "live"}
  Faults = {TRUE}
  MaxTaken = 0
  MaxAttempts = 2
  MaxRestarts = 1
INVARIANTS StoredIsStored WorkTakenOnce
PROPERTIES ImplementsPromise
