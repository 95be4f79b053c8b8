SPECIFICATION Spec
CONSTANTS
  ra = ra
  rb = rb
  Mail = {1, 2}
  Items = {1, 2}
  Readers = {ra, rb}
  Lookers = {}
  Pruners = {}
  ReadCount = 2
  MaxStores = 1
  Debounce = 1
  Window = 2
  Limit = 1
  MaxRestarts = 1
INVARIANTS MailConserved RateLimited OneCommand
PROPERTIES MailIsRead
