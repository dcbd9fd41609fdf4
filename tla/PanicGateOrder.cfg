CONSTANTS
  FailureCap = 2
  MaxLaunched = 2
  Callers = {c1}
  Prompt = FALSE
  PanicKey = FALSE
SPECIFICATION GateSpec
INVARIANTS
  PanicHoldsDownloads
