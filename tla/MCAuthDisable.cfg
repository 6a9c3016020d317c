\* An exchange that read the account before it was disabled.
SPECIFICATION MCSpec
CONSTANTS
  None = None
  u1 = u1  a1 = a1  a2 = a2  k1 = k1  k2 = k2  c1 = c1  c2 = c2
  s1 = s1  s2 = s2  t1 = t1  t2 = t2  t3 = t3
  r1 = r1  r2 = r2  r3 = r3  r4 = r4  r5 = r5  r6 = r6
  Parts = {"disabling"}
  Users = {u1}
  Clients = {a1}
  Ssos = {k1}
  Codes = {c1}
  Sessions = {s1}
  Tokens = {t1}
  Reqs = {r1, r2, r3}
  Duty <- DisableDuty
  MayFail = {}
  MayExpire = {}
\* Every request is answered once; when all are, the system rests.
CHECK_DEADLOCK FALSE
INVARIANTS
  DisabledMeansSignedOut
