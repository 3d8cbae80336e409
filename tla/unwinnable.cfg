\* A pattern-match board of the size the generator serves.
SPECIFICATION Spec
CHECK_DEADLOCK FALSE
CONSTANTS
  Cards = {1, 2, 3, 4, 5, 6, 7, 8, 9, 10, 11, 12}
  Faces <- ServedFaces
  MaxMistakes = 1
INVARIANT
  AllSetsCanBeFound
