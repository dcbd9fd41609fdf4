CONSTANTS
  NFiles = 2
  Offers = {{}, {1}}
  Choosers = {c1}
  MaxGen = 2
  Choices = 2
  Restarts = 1
  None = None
  NetCounts = {0, 1, 4}
  ExecCounts = {0, 1, 2, 6}
SPECIFICATION Spec
INVARIANTS
  CleanIsFullyChecked
  ThreatIffEvidence
  ChoiceStands
  
  DeliversChosen
PROPERTIES
  
  ChosenIsDelivered
CHECK_DEADLOCK FALSE
