SPECIFICATION Spec
CONSTANTS
  Workers = {w1, w2}
  Users = {alice}
  Groups = {g}
  GroupOwner <- MCGroupOwner
  Names = {a}
  NoRow = NoRow
  MaxDirs = 2
  MaxFiles = 1
  MaxDepth = 2
INVARIANTS TypeOK Trees RowHasDirectory
PROPERTY FilesOutliveOthers
SYMMETRY MCSymmetry
CHECK_DEADLOCK FALSE
