SPECIFICATION FairSpec
CONSTANTS
  r1 = r1
  z1 = z1
  z2 = z2
  Zones = {z1}
  None = None
  Runs = {r1}
  NumPrayers = 1
  DayLength = 3
  Days = 2
  Configs <- Selective
  ManagerKinds = {}
  Faults = {"settings"}
  MaxFaults = 1
  MaxQueue = 0
  MaxLag = 0
PROPERTY PausedIsResumed
