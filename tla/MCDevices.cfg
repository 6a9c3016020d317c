SPECIFICATION MCSpec
CONSTANTS
  None = None
  x1 = x1  x2 = x2  x3 = x3
  Devices = {"d1", "d2"}
  Installs = {"i1", "i2"}
  Keys = {"k1", "k2", "k3"}
  Pairs = {x1, x2, x3}
  Reqs = {"r1", "r2", "r3"}
  Duty <- EveryDuty
SYMMETRY Interchangeable
INVARIANTS
  RefreshWorksOnce
  OneRowPerDevice
  DevicesHold
PROPERTIES
  RevocationSticks
  RemoteMoves
