SPECIFICATION Spec
CONSTANTS
  Users = {u1, a1}
  Admins = {a1}
  Books = {b1}
  Authors = {"author"}
  Copies = {1}
  Stock = {1}
  BookOf <- OneBookOf
  AuthorOf <- MCAuthorOf
  Slots = {s1, s2}
  MaxLoans = 1
  MaxSize = 1
  Targets = {"AVAILABLE", "LOANED", "DAMAGED", "ARCHIVED"}
  Handlers = {"Borrow", "UpdateStatus"}
  None = None
  b1 = b1
  b2 = b2
  u1 = u1
  u2 = u2
  a1 = a1
  s1 = s1
  s2 = s2
PROPERTIES
  LoanedEndsByReturn
SYMMETRY SlotSymmetry
CHECK_DEADLOCK FALSE
