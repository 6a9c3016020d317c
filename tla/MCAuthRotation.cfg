\* The life of one sign-in at the token endpoint, and an account disabled, re-enabled,
\* swept and logged out under traffic.
SPECIFICATION MCSpec
CONSTANTS
  None = None
  u1 = u1  a1 = a1  a2 = a2  k1 = k1  k2 = k2  c1 = c1  c2 = c2
  s1 = s1  s2 = s2  t1 = t1  t2 = t2  t3 = t3
  r1 = r1  r2 = r2  r3 = r3  r4 = r4  r5 = r5  r6 = r6
  Parts = {"rotation", "account"}
  Users = {u1}
  Clients = {a1, a2}
  Ssos = {k1, k2}
  Codes = {c1, c2}
  Sessions = {s1, s2}
  Tokens = {t1, t2, t3}
  Reqs = {r1, r2, r3, r4, r5, r6}
  Duty <- EveryDuty
  MayFail = {r3, r5}
  MayExpire = {t1, k1, k2}
SYMMETRY Symmetry
\* Every request is answered once; when all are, the system rests.
CHECK_DEADLOCK FALSE
INVARIANTS
  OneSessionPerCode
  ChainNeverForks
  NothingForTheBarred
  ReplayEndsTheSession
  TokensOnlyToTheirClient
PROPERTIES
  KeepsThePromise
