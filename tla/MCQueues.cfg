SPECIFICATION MCSpec
CONSTANTS
  None = None
  x1 = x1  x2 = x2  x3 = x3  y1 = y1  y2 = y2
  Reports = {x1, x2}
  Reqs = {y1, y2}
  Retention = 2
  MaxTime = 3
  MaxSends = 2
  MaxRetries = 1
  Prompt = TRUE
SYMMETRY Interchangeable
INVARIANTS
  CountsOnce
  SightingsAreExact
  ResolutionHolds
  QueuesHold
PROPERTY QueueMoves
