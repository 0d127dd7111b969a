SPECIFICATION Spec
CONSTANTS
  Users = {u1, a1}
  Admins = {a1}
  Books = {b1, b2}
  Authors = {"first", "second"}
  Copies = {1, 3}
  Stock = {1}
  BookOf <- MCBookOf
  AuthorOf <- TwoAuthorsOf
  Slots = {s1, s2}
  MaxLoans = 1
  MaxSize = 1
  Targets = {"AVAILABLE", "LOANED", "DAMAGED", "ARCHIVED"}
  Handlers = {"Cart", "Checkout", "MoveBook", "CreateBook", "RemoveBook"}
  None = None
  b1 = b1
  b2 = b2
  u1 = u1
  u2 = u2
  a1 = a1
  s1 = s1
  s2 = s2
INVARIANTS
  HistoryKept
  BorrowedBooksCounted
SYMMETRY SlotSymmetry
CHECK_DEADLOCK FALSE
