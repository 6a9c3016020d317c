SPECIFICATION MCSpec
CONSTANTS
  None = None
  x1 = x1  x2 = x2  x3 = x3  y1 = y1  y2 = y2
  Accounts = {"a1"}
  Releases = {"l1"}
  Files = {y1, y2}
  Tickets = {"t1"}
  Bytes = {"b1", "b2"}
  Offers = {}
  Rows = {}
  Reqs = {"r1", "r2", "r3"}
  MaxFiles = 1
  MayFail = {}
  Duty <- EveryDuty
SYMMETRY Interchangeable
\* Identifiers and bounds run out: no request is left to serve.
CHECK_DEADLOCK FALSE
INVARIANTS
  TicketsAreEarned
  NobodySkipsTheWait
  CatalogueHolds
 
