SPECIFICATION Spec
CONSTANTS
  Client = {c1, c2, c3}
  MaxSpawn = 1
  MaxPress = 2
  None = None
SYMMETRY Symmetry
INVARIANTS RoleAgreement HeadedSession SizeFollowsWriter
CHECK_DEADLOCK FALSE
