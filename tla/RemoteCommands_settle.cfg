SPECIFICATION FairSpec
CONSTANTS
  Commands = {c1, c2}
  Zones = {z1}
  None = None
  Polls = {p1}
  Kinds = {"PAUSE", "NEXT", "SYNC_MUSIC"}
  Sources = {"USER"}
  ZoneSync = TRUE
  Faults = {"ackLost", "pollLost"}
  MaxFaults = 1
ACTION_CONSTRAINT Settled
PROPERTIES AllSettle RequestsAnswered CloudConverges
