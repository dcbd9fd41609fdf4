CONSTANTS
  Files = {f1, f2}
  Passes = {p1, p2}
  EventLoop = EventLoop
  OnTheFly = FALSE
  MovesFail = FALSE
  EnginesFail = TRUE
  Interrupts = {"pause"}
  MaxAdds = 2
  MaxRestarts = 0
SPECIFICATION Spec
CHECK_DEADLOCK FALSE
PROPERTIES
  CompleteIsDelivered
