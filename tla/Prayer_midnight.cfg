SPECIFICATION Spec
CONSTANTS
  r1 = r1
  z1 = z1
  z2 = z2
  Zones = {z1, z2}
  None = None
  Runs = {r1}
  NumPrayers = 1
  DayLength = 3
  Days = 2
  Configs <- Late
  ManagerKinds = {"PLAY"}
  Faults = {}
  MaxFaults = 0
  MaxQueue = 1
  MaxLag = 0
INVARIANT HeldOnlyInWindow
