\* The nineteen puzzle pages, each on a small puzzle. A finished board may stop.
SPECIFICATION Spec
CHECK_DEADLOCK FALSE
CONSTANT Played = {"word-guess", "quad-words", "word-groups", "word-hive", "word-box", "word-ladder", "word-search", "arithmo", "cryptogram", "crossword", "sudoku", "killer-sudoku", "nonogram", "queens", "tango", "block-slide", "number-path", "pattern-match", "pip-place"}
INVARIANTS
  BoardIsLegal
  BoardIsExplained
  FinishIsRight
  
