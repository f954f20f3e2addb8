CONSTANTS
  Printers = {p1}
  Keys = {k1, k2, k3}
  Urgent = {k3}
  Perishable = {k1}
  Direct = {k1}
  Failing = {k3}
  Doubtful = {k2}
  Faults = {offline}
  HoldWhileOffline = TRUE
  ByPriority = TRUE
  MaxDepth = 2
  MaxTurns = 2
SPECIFICATION FairSpec
INVARIANTS OnePassPerKey LaneIsSound
PROPERTIES UnknownStopsTheLane DrainInOrder HeldJobsMove
CHECK_DEADLOCK FALSE
