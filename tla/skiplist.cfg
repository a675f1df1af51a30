SPECIFICATION Spec
CONSTANTS
  Keys = {1, 2, 4}
  Values = {0, 3}
  max_height_ = 3
INVARIANTS LevelsSorted GetFindsEntries
PROPERTIES ImplementsSortedMap
