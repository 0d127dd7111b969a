SPECIFICATION Spec
CONSTANTS
  root = root
  member = member
  s1 = s1
  s2 = s2
  Ids = {1, 2}
  Members = {1}
  Roots = {1}
  Emails = {root, member}
  EmailOf <- MCEmailOf
  Passwords = {"old", "new"}
  First = "old"
  Tokens = {1, 2}
  Slots = {s1, s2}
  MaxVersion = 2
  None = None
INVARIANTS
  TypeOK
  AcceptedIsCurrent
  SessionIsCurrent
PROPERTIES
  RotationSpec
SYMMETRY SlotSymmetry
CHECK_DEADLOCK FALSE
