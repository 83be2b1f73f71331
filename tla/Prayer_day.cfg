SPECIFICATION FairSpec
CONSTANTS
  r1 = r1
  z1 = z1
  z2 = z2
  Zones = {z1, z2}
  None = None
  Runs = {r1, r2}
  NumPrayers = 2
  DayLength = 4
  Days = 2
  Configs <- Usual
  ManagerKinds = {"PLAY"}
  Faults = {"fail", "restart", "missed", "timings", "settings"}
  MaxFaults = 2
  MaxQueue = 1
  MaxLag = 0
ACTION_CONSTRAINT Explored
INVARIANTS StartExclusive HeldOnlyInWindow
PROPERTY HeldIsReleased
