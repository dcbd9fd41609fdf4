CONSTANTS
  Entries = {e1, e2}
  Runs = {r1, r2}
  Procs = {p1, p2}
  None = None
SYMMETRY Interchangeable
SPECIFICATION Spec
INVARIANTS
  DownloadingIsDriven
  NothingElseFlows
  DeliversIntact
