SPECIFICATION Spec
CONSTANTS
  Users = {u1, a1}
  Admins = {a1}
  Books = {b1, b2}
  Authors = {"author"}
  Copies = {1, 2, 3}
  Stock = {1}
  BookOf <- MCBookOf
  AuthorOf <- MCAuthorOf
  Slots = {s1}
  MaxLoans = 1
  MaxSize = 2
  Targets = {"AVAILABLE", "LOANED", "ARCHIVED"}
  Handlers = {"Borrow", "ScanReturn", "AskReturn", "CreateCopy", "UpdateStatus", "Resize", "CreateBook", "RemoveBook", "Checkout", "Cart", "DeleteUser"}
  None = None
  b1 = b1
  b2 = b2
  u1 = u1
  u2 = u2
  a1 = a1
  s1 = s1
  s2 = s2
INVARIANTS
  CopyMatchesLoans
  DeactivatedCartEmpty
  CountersMatchCopies
PROPERTIES
  ReturnedIsFinal
  CheckoutLendsCart
  LoanedEndsByReturn
CHECK_DEADLOCK FALSE
