SPECIFICATION ServiceSpec
CONSTANTS
  a = a
  b = b
  c = c
  Capture <- Captures
  Nobody = nobody
  Foreign = foreign
  MaxNames = 2
  Workers = 2
  Backlog = 2
  MaxUpdates = 1
SYMMETRY Symmetry
INVARIANTS TypeOK PublishesItsOwn LeftoversOwned PreparationAnswered
PROPERTIES OthersUntouched
CHECK_DEADLOCK FALSE
