SPECIFICATION Spec
CONSTANTS
  Workers = {w1, w2}
  Users = {alice, bob}
  Names = {n1, n2}
  NoUser = NoUser
  NoName = NoName
  MaxGroups = 2
  MaxMembers = 3
  MaxOther = 1
INVARIANTS TypeOK 
PROPERTY GroupsEndByOwner
SYMMETRY MCSymmetry
CHECK_DEADLOCK FALSE
