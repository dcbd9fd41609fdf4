CONSTANTS
  Ids = {i1}
  Procs = {p1, p2, p3}
SPECIFICATION Spec
INVARIANTS
  NothingLiveInPanic
  AttachedAccounted
  WantedKeepsSource
  WantedIsListed
PROPERTIES
  ImplementsGate
  PanicDrains
