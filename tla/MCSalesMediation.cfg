\* A payment disputed and won again, its notifications served one at a time: the second
\* approval is taken for a repetition of the first.  Violates ApprovalsGetThrough.
SPECIFICATION Spec
CONSTANTS
  None = None
  a1 = a1  p1 = p1  p2 = p2  x1 = x1  x2 = x2
  v1 = v1  v2 = v2  v3 = v3
  r1 = r1  r2 = r2  r3 = r3  r4 = r4
  Accounts = {a1}
  Purchases = {p1}
  Payments = {x1}
  Vouchers = {v1, v2, v3}
  Reqs = {r1, r2, r3, r4}
  NumberAttempts = 2
  Duty <- MediationDuty
  MayFail = {}
  Overlap = FALSE
\* Every request is answered once; when all are, the system rests.
CHECK_DEADLOCK FALSE
INVARIANTS
  ApprovalsGetThrough
