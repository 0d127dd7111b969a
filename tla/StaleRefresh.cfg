SPECIFICATION Spec
CONSTANTS
  root = root
  member = member
  s1 = s1
  s2 = s2
  Ids = {1, 2}
  Members = {1}
  Roots = {1}
  Emails = {root, member}
  EmailOf <- MCEmailOf
  Passwords = {"old", "new"}
  First = "old"
  Tokens = {1, 2, 3}
  Slots = {s1, s2}
  MaxVersion = 1
  None = None
PROPERTIES
  RefreshesHonoured
SYMMETRY SlotSymmetry
CHECK_DEADLOCK FALSE
