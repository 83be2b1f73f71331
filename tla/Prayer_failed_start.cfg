SPECIFICATION Spec
CONSTANTS
  r1 = r1
  z1 = z1
  z2 = z2
  Zones = {z1, z2}
  None = None
  Runs = {r1}
  NumPrayers = 1
  DayLength = 4
  Days = 2
  Configs <- Steady
  ManagerKinds = {}
  Faults = {"fail"}
  MaxFaults = 1
  MaxQueue = 0
  MaxLag = 0
INVARIANT FailedStartIsRetried
