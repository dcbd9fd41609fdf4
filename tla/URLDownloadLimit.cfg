CONSTANTS
  Entries = {e1}
  Runs = {r1}
  Procs = {p1}
  None = None
SYMMETRY Interchangeable
SPECIFICATION Spec
INVARIANTS
  LimitOnlySlows
