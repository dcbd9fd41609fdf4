CONSTANTS
  Torrents = {t1}
  Polls = {1, 2, 3}
  Pages = 2
  Scans = {s1, s2}
  Pumps = {p1, p2}
  Runs = {r1, r2}
  None = None
  NoScan = NoScan
SPECIFICATION Spec
CONSTRAINT Judged
INVARIANTS
  ScreenRefreshes
  OneScanPerDoor
  ServesAsSet
  FileFollowsSettings
PROPERTIES
  AwaitingIsOffered
  ScanIsReported
CHECK_DEADLOCK FALSE
