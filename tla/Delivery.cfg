CONSTANTS
  Files = {f1, f2}
  Passes = {p1, p2}
  EventLoop = EventLoop
  OnTheFly = TRUE
  MovesFail = TRUE
  EnginesFail = TRUE
  Interrupts = {"cancel", "pause"}
  MaxAdds = 2
  MaxRestarts = 1
SYMMETRY Interchangeable
SPECIFICATION Spec
CONSTRAINT NotReentered
CHECK_DEADLOCK FALSE
INVARIANTS
  VettedUnlessReentered
  CleanRecordIsDelivered
