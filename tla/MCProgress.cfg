SPECIFICATION MCFairSpec
CONSTANTS
  None = None
  Parts = {"auth", "approval", "runs", "lapse", "alerts", "presence", "commands", "shots", "page", "messages", "updates", "crashes", "digests"}
  MaxCmds = 2
  Reqs = {1, 2}
  Images = {"i1", "i2"}
  CommandTypes = {"restart", "screenshot"}
  TTL = 1
  MaxPerDelivery = 1
  MaxTime = 1
  Duties = {"issue", "take", "ack", "shot", "drop"}
  Faults = TRUE
\* In several parts everything that was asked for gets done, and the system rests.
CHECK_DEADLOCK FALSE
INVARIANT RowsHaveImages
PROPERTIES
  AnswersStand
  CredentialsEnd
  DevicesCatchUp
  WorkIsFinished
