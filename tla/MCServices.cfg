SPECIFICATION MCSpec
CONSTANTS
  None = None
  x1 = x1  x2 = x2  x3 = x3
  Rules = {"r1", "r2"}
  AppRules = {"r1"}
  Subjects = {"s1"}
  Ids = {x1, x2, x3}
  Evals = {"e1", "e2"}
  Requests = {"q1"}
  MaxRules = 1
  MaxEdits = 6
  Together = TRUE
  Duties = {}
SYMMETRY Interchangeable
INVARIANTS
  OneOpen
  ResolvedNotFirst
  ServicesHold
PROPERTY ServiceMoves
