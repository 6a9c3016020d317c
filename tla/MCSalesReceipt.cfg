\* Two editors ask for the receipt of one sale at the same time.  Violates OneLiveVoucher.
SPECIFICATION Spec
CONSTANTS
  None = None
  a1 = a1  p1 = p1  p2 = p2  x1 = x1  x2 = x2
  v1 = v1  v2 = v2  v3 = v3
  r1 = r1  r2 = r2  r3 = r3  r4 = r4
  Accounts = {a1}
  Purchases = {p1}
  Payments = {x1}
  Vouchers = {v1, v2, v3}
  Reqs = {r1, r2, r3}
  NumberAttempts = 2
  Duty <- ReceiptDuty
  MayFail = {}
  Overlap = TRUE
\* Every request is answered once; when all are, the system rests.
CHECK_DEADLOCK FALSE
INVARIANTS
  OneLiveVoucher
