SPECIFICATION MCSpec
CONSTANTS
  None = None
  x1 = x1  x2 = x2  x3 = x3  y1 = y1  y2 = y2  z1 = z1  z2 = z2  q1 = q1  q2 = q2
  Roles = {"r1", z1, z2}
  Slugs = {"admin", "editor"}
  Perms = {"roles:write", "users:write", "other"}
  Write = "roles:write"
  Grants = "users:write"
  Guarded = {"roles:write", "users:write"}
  Accounts = {"a1", "a2"}
  First = "a1"
  Admin = "r1"
  Requests = {q1, q2}
  MaxEdits = 4
  Together = TRUE
  Duties = {}
SYMMETRY Interchangeable
INVARIANTS
  NothingDangles
  AccountsHold
PROPERTIES
  AccountMoves
