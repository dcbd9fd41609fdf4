CONSTANTS
  Torrents = {t1, t2}
  Actors = {a1, a2}
  Folders = {a}
  Singles = {s}
  Jobs = {1, 2}
  Starts = 2
  Deletes = 1
  Troubles = 1
  Faults = 1
  None = None
SYMMETRY Interchangeable
SPECIFICATION Spec
CONSTRAINT Judged
INVARIANTS
  SeedsExactlyWanted
  ActiveIsRegistered
  VerdictIsDone
  ThreatIsRecorded
  StaysFindable
CHECK_DEADLOCK FALSE
