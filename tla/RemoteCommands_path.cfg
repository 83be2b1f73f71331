SPECIFICATION Spec
CONSTANTS
  Commands = {c1, c2}
  Zones = {z1}
  None = None
  Polls = {p1, p2}
  Kinds = {"PAUSE", "NEXT", "SYNC_MUSIC"}
  Sources = {"USER", "SCHEDULE"}
  ZoneSync = FALSE
  Faults = {"ackLost", "ackAbort", "pollLost", "agentCrash", "backendCrash"}
  MaxFaults = 2
SYMMETRY Symmetry
ACTION_CONSTRAINT Explored
INVARIANTS IInv SuccessWasPerformed RefusedNeverDelivered AppliedWasPerformed
INVARIANTS AnsweredIsClosed SequencesDistinct PerformedOnce
PROPERTY PromiseKept
