SPECIFICATION Spec
CONSTANTS
  ra = ra
  rb = rb
  k = k
  pr = pr
  t0 = t0
  t1 = t1
  t2 = t2
  n1 = n1
  n2 = n2
  p = p
  q = q
  r = r
  s1 = s1
  s2 = s2
  s3 = s3
  s4 = s4
  Scenes = {"worker lock"}
  Mail = {1, 2}
  Readers = {ra, rb}
  Lookers = {k}
  Pruners = {pr}
  ReadCount = 2
  MaxStores = 2
  Transfers = {t0, t1, t2}
  Size <- MCSize
  Names <- MCNames
  MaxIncomplete = 2
  MaxBytes = 2
  MaxSize = 2
  Free = Free
  Other = Other
  MaxTrouble = 2
  Procs = {p, q, r}
  Nobody = Nobody
  MaxTries = 2
  Workers = {p, q, r}
  NoOne = NoOne
  MaxCrashes = 1
  MaxPids = 3
  Starts = {s1, s2, s3}
  Stops = {s4}
INVARIANT OneWorker
CHECK_DEADLOCK FALSE
