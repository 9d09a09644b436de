SPECIFICATION Spec
CONSTANTS
  Workers = {w1, w2}
  Users = {alice, bob}
  NoUser = NoUser
  MaxSessions = 3
  MaxOther = 1
INVARIANTS TypeOK NoServiceAfterLogout UndisturbedLogin
CHECK_DEADLOCK FALSE
SYMMETRY MCSymmetry
