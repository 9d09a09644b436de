SPECIFICATION Spec
CONSTANTS
  Workers = {w1, w2}
  MaxKey = 3
  MaxFields = 3
  MaxTotal = 3
  MaxTexts = 2
INVARIANTS TypeOK UndisturbedParse
PROPERTY EntriesStay
SYMMETRY MCSymmetry
CHECK_DEADLOCK FALSE
