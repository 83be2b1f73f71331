SPECIFICATION Spec
CONSTANTS
  Commands = {c1, c2}
  Zones = {z1}
  None = None
  Polls = {p1}
  Kinds = {"PAUSE"}
  Sources = {"USER"}
  ZoneSync = FALSE
  Faults = {}
  MaxFaults = 0
PROPERTY AppliedNeverRegresses
