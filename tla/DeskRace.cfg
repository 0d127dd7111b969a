SPECIFICATION Spec
CONSTANTS
  Users = {u1, u2, a1}
  Admins = {u2, a1}
  Books = {b1}
  Authors = {"author"}
  Copies = {1}
  Stock = {1}
  BookOf <- OneBookOf
  AuthorOf <- MCAuthorOf
  Slots = {s1, s2}
  MaxLoans = 2
  MaxSize = 1
  Targets = {"AVAILABLE", "LOANED", "DAMAGED", "ARCHIVED"}
  Handlers = {"Borrow", "AdminBorrow", "AskReturn", "ScanReturn", "AdminReturn", "ChangeRole", "DeleteUser"}
  None = None
  b1 = b1
  b2 = b2
  u1 = u1
  u2 = u2
  a1 = a1
  s1 = s1
  s2 = s2
INVARIANTS
  SomeActiveAdmin
  OneUnreturnedLoanPerCopy
PROPERTIES
  UserAuditTrue
  CustodySpec
SYMMETRY SlotSymmetry
CHECK_DEADLOCK FALSE
