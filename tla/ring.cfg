CONSTANTS
  N = 4
  Word = 16
  Sizes = {1, 3}
SPECIFICATION Spec
INVARIANTS TypeOK WritesMissUnread CopiesAreRight
PROPERTY ImplementsFifo
