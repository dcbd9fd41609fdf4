CONSTANTS
  Writers <- MCWriters
  Tables <- MCTables
  NoRows <- MCNoRows
  Requests = 3
  Capacity = 1
  Restarts = 1
  Panics = 1
SPECIFICATION Spec
INVARIANTS
  QuietIsDurable
  WholeOnDisk
  RowFollowsManager
  WishSurvives
CHECK_DEADLOCK FALSE
CONSTRAINT FewMoves
