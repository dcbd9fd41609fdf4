CONSTANTS
  FailureCap = 3
  MaxLaunched = 1
  Callers = {c1}
  Prompt = TRUE
  PanicKey = TRUE
SPECIFICATION GateSpec
INVARIANTS
  ManagerFollowsMonitor
PROPERTIES
  EngageNeedsTwoFailures
  CheckPanicReleasedByHit
  DownHolds
  UpReleases
  BannerSettles
