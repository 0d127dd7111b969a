---------------------------- MODULE LibraryTypes ----------------------------
(***************************************************************************)
(* The variables of the library keep their types, and a request keeps the  *)
(* parameters its next statement needs.                                    *)
(***************************************************************************)
EXTENDS Library, TLAPS, FiniteSetTheorems

\* The statements a request of kind op passes through.
OpAt(p, op) ==
  \/ p = "idle" /\ op = "none"
  \/ p = "claim" /\ op \in {"borrow", "checkout"}
  \/ p \in Sync /\ op \in {"borrow", "checkout", "return", "create", "status", "resize"}
  \/ p \in {"request", "return", "create", "status", "resize", "move", "remove"} /\ op = p
  \/ p = "cartAdd" /\ op = "cart"
  \/ p \in {"role", "roleWrite"} /\ op = "role"
  \/ p \in {"delete", "deleteWrite"} /\ op = "delete"

\* What a request has been given.
Given(p, r) ==
  /\ p \in Sync \cup {"create", "status", "resize", "move", "remove", "cartAdd"}
       => r.book \in Books
  /\ r.op \in {"borrow", "checkout", "cart", "role", "delete"} => r.user \in Users
  /\ r.op \in {"borrow", "checkout", "move"} => r.author \in [Books -> Authors]
  /\ r.op = "move" => r.newAuthor \in Authors
  /\ r.op \in {"request", "return", "status"} => r.copy \in Copies
  /\ r.op \in {"request", "return"} => r.loan \in DOMAIN loans[r.copy]
  /\ r.op = "status" => r.new \in CopyStatus \ {"LOANED"}
  /\ r.op = "role" => r.new \in Roles

RequestOK == \A s \in Slots : OpAt(pc[s], req[s].op) /\ Given(pc[s], req[s])

Typed == TypeOK /\ RequestOK

-----------------------------------------------------------------------------
(* The set of copies of a book, and any part of it, is finite.              *)

LEMMA FiniteCopies ==
  ASSUME NEW S \in SUBSET Copies
  PROVE  IsFiniteSet(S) /\ Cardinality(S) \in Nat
<1>1. IsFiniteSet(S)
  BY BoundAssumption, FS_Subset
<1> QED
  BY <1>1, FS_CardinalityType

LEMMA FiniteBooks ==
  ASSUME NEW S \in SUBSET Books
  PROVE  IsFiniteSet(S) /\ Cardinality(S) \in Nat
<1>1. IsFiniteSet(S)
  BY BoundAssumption, FS_Subset
<1> QED
  BY <1>1, FS_CardinalityType

\* The initial rows are typed and every slot is idle.
LEMMA TypedInit == Init => Typed
<1> SUFFICES ASSUME Init PROVE Typed
  OBVIOUS
<1> USE DEF Init, DatabaseInit
<1>1. \A b \in Books : Cardinality(CopiesOf(b) \cap Stock) \in Nat
  BY FiniteCopies DEF CopiesOf
<1>2. \A a \in Authors :
        Cardinality({b \in Books : AuthorOf[b] = a /\ CopiesOf(b) \cap Stock # {}}) \in Nat
  BY FiniteBooks
<1>3. NoRequest \in Request
  BY DEF NoRequest, Request, Ops, NoCopy, Word
<1>4. TypeOK
  <2>1. role \in [Users -> Roles] /\ deletedAt \in [Users -> BOOLEAN]
    BY DEF Roles
  <2>2. userAudit \in [Users -> AuditRow]
    BY DEF AuditRow, NoAudit, Word
  <2>3. copy \in [Copies -> CopyRow] /\ copyAudit \in [Copies -> BOOLEAN]
    BY DEF CopyRow, CopyStatus
  <2>4. bookRow \in [Books -> {"NONE", "LIVE", "ARCHIVED", "GONE"}]
    OBVIOUS
  <2>11. authorOf \in [Books -> Authors]
    BY RowAssumption
  <2>5. count \in [Books -> Counter] /\ booksCount \in [Authors -> Nat]
    BY <1>1, <1>2 DEF Counter
  <2>6. borrowedBooksCount \in [Authors -> Nat] /\ cart \in [Users -> SUBSET Books]
    OBVIOUS
  <2>7. loans \in [Copies -> Seq(Loan)]
    OBVIOUS
  <2>8. pc \in [Slots -> PCs] /\ req \in [Slots -> Request]
    BY <1>3 DEF PCs
  <2>9. hold \in [Slots -> [Copies -> CopyStatus \cup {Unwritten}]]
    OBVIOUS
  <2>10. pend \in [Slots -> [Books -> Counter]]
    BY DEF Counter, NoCounter
  <2> QED
    BY <2>1, <2>2, <2>3, <2>4, <2>5, <2>6, <2>7, <2>8, <2>9, <2>10, <2>11
    DEF TypeOK, TablesOK, SlotsOK
<1>5. RequestOK
  BY DEF RequestOK, OpAt, Given, NoRequest, Sync
<1> QED
  BY <1>4, <1>5 DEF Typed

\* Slots other than s keep what they were given, whatever s does to the tables:
\* loans are never deleted.
LEMMA OthersKeep ==
  ASSUME Typed, NEW s \in Slots,
         \A c \in Copies : DOMAIN loans[c] \subseteq DOMAIN loans'[c],
         \A t \in Slots \ {s} : pc'[t] = pc[t] /\ req'[t] = req[t],
         (OpAt(pc[s], req[s].op) /\ Given(pc[s], req[s]))'
  PROVE  RequestOK'
<1> SUFFICES ASSUME NEW t \in Slots
             PROVE  (OpAt(pc[t], req[t].op) /\ Given(pc[t], req[t]))'
  BY DEF RequestOK
<1>1. CASE t = s
  BY <1>1
<1>2. CASE t # s
  BY <1>2 DEF Typed, RequestOK, Given, OpAt
<1> QED
  BY <1>1, <1>2

\* A call that only records its request in an idle slot.
LEMMA TypedBegin ==
  ASSUME Typed, NEW s \in Slots, NEW label \in PCs, NEW r \in Request,
         Begin(s, label, r), OpAt(label, r.op), Given(label, r)
  PROVE  Typed'
<1>1. tables' = tables /\ loans' = loans
  BY DEF Begin, tables, loanTables
<1>2. TypeOK'
  BY DEF Typed, TypeOK, TablesOK, SlotsOK, Begin, At, tables, userTables, copyTables,
         bookTables, loanTables
<1>3. pc'[s] = label /\ req'[s] = r /\ \A t \in Slots \ {s} : pc'[t] = pc[t] /\ req'[t] = req[t]
  BY DEF Typed, TypeOK, SlotsOK, Begin, At
<1>4. RequestOK'
  BY <1>1, <1>3, OthersKeep DEF OpAt, Given
<1> QED
  BY <1>2, <1>4 DEF Typed

\* The end of a request.
LEMMA TypedFinish ==
  ASSUME Typed, NEW s \in Slots, Finish(s), TablesOK',
         \A c \in Copies : DOMAIN loans[c] \subseteq DOMAIN loans'[c]
  PROVE  Typed'
<1>1. NoRequest \in Request
  BY DEF NoRequest, Request, Ops, NoCopy, Word
<1>2. SlotsOK'
  BY <1>1 DEF Typed, TypeOK, SlotsOK, Finish, At, PCs, Counter, NoCounter
<1>3. \A t \in Slots \ {s} : pc'[t] = pc[t] /\ req'[t] = req[t]
  BY DEF Typed, TypeOK, SlotsOK, Finish, At
<1>4. pc'[s] = "idle" /\ req'[s] = NoRequest
  BY DEF Typed, TypeOK, SlotsOK, Finish, At
<1>5. (OpAt(pc[s], req[s].op) /\ Given(pc[s], req[s]))'
  BY <1>4 DEF OpAt, Given, NoRequest, Sync
<1>6. RequestOK'
  BY <1>3, <1>5, OthersKeep
<1> QED
  BY <1>2, <1>6 DEF Typed, TypeOK

\* A statement that leaves the tables alone and moves its slot on.
LEMMA TypedAdvance ==
  ASSUME Typed, NEW s \in Slots, NEW label \in PCs, NEW r \in Request,
         At(s, label), req' = [req EXCEPT ![s] = r], UNCHANGED tables,
         hold' \in [Slots -> [Copies -> CopyStatus \cup {Unwritten}]],
         pend' \in [Slots -> [Books -> Counter]],
         OpAt(label, r.op), Given(label, r)
  PROVE  Typed'
<1>1. loans' = loans
  BY DEF tables, loanTables
<1>2. TablesOK'
  BY DEF Typed, TypeOK, TablesOK, tables, userTables, copyTables, bookTables, loanTables
<1>3. SlotsOK'
  BY DEF Typed, TypeOK, SlotsOK, At
<1>4. pc'[s] = label /\ req'[s] = r /\ \A t \in Slots \ {s} : pc'[t] = pc[t] /\ req'[t] = req[t]
  BY DEF Typed, TypeOK, SlotsOK, At
<1>5. RequestOK'
  BY <1>1, <1>4, OthersKeep DEF OpAt, Given
<1> QED
  BY <1>2, <1>3, <1>5 DEF Typed, TypeOK

-----------------------------------------------------------------------------
(* Calls.                                                                  *)

LEMMA TypedLoanCall ==
  ASSUME Typed, NEW s \in Slots, LoanCall(s)
  PROVE  Typed'
<1> USE DEF PCs, Sync, OpAt, Given
<1>0. authorOf \in [Books -> Authors] /\ authorOf \in [Books -> Authors \cup {None}]
  BY DEF Typed, TypeOK, TablesOK
<1>1. ASSUME NEW u \in Users, NEW b \in Books, NEW w \in Copies \cup {NoCopy},
             Borrow(s, u, b, w) \/ AdminBorrow(s, u, b, w)
      PROVE  Typed'
  <2> DEFINE r == [NoRequest EXCEPT !.op = "borrow", !.user = u, !.todo = {b}, !.copy = w,
                                    !.author = authorOf]
  <2>1. /\ r \in Request /\ r.op = "borrow" /\ r.user = u
        /\ r.author \in [Books -> Authors]
    BY <1>0 DEF NoRequest, Request, Ops, Word
  <2>2. Begin(s, "claim", r)
    BY <1>1 DEF Borrow, AdminBorrow, BorrowRequest
  <2> QED
    BY <2>1, <2>2, TypedBegin
<1>2. ASSUME NEW u \in Users, Checkout(s, u)
      PROVE  Typed'
  <2> DEFINE r == [NoRequest EXCEPT !.op = "checkout", !.user = u, !.todo = cart[u],
                                    !.author = authorOf]
  <2>1. /\ r \in Request /\ r.op = "checkout" /\ r.user = u
        /\ r.author \in [Books -> Authors]
    BY <1>0 DEF NoRequest, Request, Ops, Word, NoCopy, Typed, TypeOK, TablesOK
  <2>2. Begin(s, "claim", r)
    BY <1>2 DEF Checkout
  <2> QED
    BY <2>1, <2>2, TypedBegin
<1>3. ASSUME NEW u \in Users, NEW c \in Copies, NEW i \in LoansOf(c), AskReturn(s, u, c, i)
      PROVE  Typed'
  <2> DEFINE r == [NoRequest EXCEPT !.op = "request", !.copy = c, !.loan = i]
  <2>1. i \in Nat /\ i \in DOMAIN loans[c]
    BY DEF Typed, TypeOK, TablesOK, LoansOf
  <2>2. r \in Request /\ r.op = "request" /\ r.copy = c /\ r.loan = i
    BY <2>1 DEF NoRequest, Request, Ops, Word
  <2>3. Begin(s, "request", r)
    BY <1>3 DEF AskReturn
  <2> QED
    BY <2>1, <2>2, <2>3, TypedBegin
<1>4. ASSUME NEW c \in Copies,
             ScanReturn(s, c) \/ \E i \in LoansOf(c) : AdminReturn(s, c, i)
      PROVE  Typed'
  <2>1. PICK i \in LoansOf(c) :
          Begin(s, "return", [NoRequest EXCEPT !.op = "return", !.copy = c, !.loan = i])
    BY <1>4 DEF ScanReturn, AdminReturn, OpenLoans
  <2> DEFINE r == [NoRequest EXCEPT !.op = "return", !.copy = c, !.loan = i]
  <2>2. i \in Nat /\ i \in DOMAIN loans[c]
    BY DEF Typed, TypeOK, TablesOK, LoansOf
  <2>3. r \in Request /\ r.op = "return" /\ r.copy = c /\ r.loan = i
    BY <2>2 DEF NoRequest, Request, Ops, Word
  <2> QED
    BY <2>1, <2>2, <2>3, TypedBegin
<1> QED
  BY <1>1, <1>2, <1>3, <1>4 DEF LoanCall

LEMMA TypedCreateBook ==
  ASSUME Typed, NEW s \in Slots, NEW b \in Books, NEW n \in 1 .. MaxSize, CreateBook(s, b, n)
  PROVE  Typed'
<1>1. n \in Nat
  BY BoundAssumption
<1>2. copy' \in [Copies -> CopyRow]
  <2>1. PICK new : copy' = [c \in Copies |-> IF c \in new THEN "AVAILABLE" ELSE copy[c]]
    BY DEF CreateBook
  <2> QED
    BY <2>1 DEF Typed, TypeOK, TablesOK, CopyRow, CopyStatus
<1>3. count' \in [Books -> Counter] /\ bookRow' \in [Books -> {"NONE", "LIVE", "ARCHIVED", "GONE"}]
  <2>1. /\ count' = [count EXCEPT ![b] = [total |-> n, available |-> n]]
        /\ bookRow' = [bookRow EXCEPT ![b] = "LIVE"]
    BY DEF CreateBook
  <2> QED
    BY <1>1, <2>1 DEF Typed, TypeOK, TablesOK, Counter
<1>4. booksCount' \in [Authors -> Nat]
  <2>1. booksCount' = [booksCount EXCEPT ![authorOf[b]] = @ + 1]
    BY DEF CreateBook
  <2>2. booksCount \in [Authors -> Nat] /\ authorOf[b] \in Authors
    BY DEF Typed, TypeOK, TablesOK
  <2> QED
    BY <2>1, <2>2
<1>5. UNCHANGED <<userTables, copyAudit, authorOf, loanTables, cart, pc, req, hold, pend>>
  BY DEF CreateBook
<1>6. TablesOK'
  BY <1>2, <1>3, <1>4, <1>5 DEF Typed, TypeOK, TablesOK, userTables, loanTables
<1>7. SlotsOK' /\ RequestOK'
  BY <1>5 DEF Typed, TypeOK, SlotsOK, RequestOK, OpAt, Given, loanTables
<1> QED
  BY <1>6, <1>7 DEF Typed, TypeOK

LEMMA TypedInventoryCall ==
  ASSUME Typed, NEW s \in Slots, InventoryCall(s)
  PROVE  Typed'
<1> USE DEF PCs, Sync, OpAt, Given
<1>1. ASSUME NEW b \in Books, CreateCopy(s, b)
      PROVE  Typed'
  <2> DEFINE r == [NoRequest EXCEPT !.op = "create", !.book = b]
  <2>1. r \in Request /\ r.op = "create" /\ r.book = b
    BY DEF NoRequest, Request, Ops, Word, NoCopy
  <2>2. Begin(s, "create", r)
    BY <1>1 DEF CreateCopy
  <2> QED
    BY <2>1, <2>2, TypedBegin
<1>2. ASSUME NEW b \in Books, RemoveBook(s, b)
      PROVE  Typed'
  <2> DEFINE r == [NoRequest EXCEPT !.op = "remove", !.book = b]
  <2>1. r \in Request /\ r.op = "remove" /\ r.book = b
    BY DEF NoRequest, Request, Ops, Word, NoCopy
  <2>2. Begin(s, "remove", r)
    BY <1>2 DEF RemoveBook
  <2> QED
    BY <2>1, <2>2, TypedBegin
<1>3. ASSUME NEW b \in Books, NEW n \in 1 .. MaxSize, Resize(s, b, n)
      PROVE  Typed'
  <2> DEFINE listed == InService(s, b)
             excess == Cardinality(listed) - n
             gone == Highest(Removable(listed), excess)
             new == IF excess < 0 THEN -excess ELSE 0
             r == [NoRequest EXCEPT !.op = "resize", !.book = b, !.size = n,
                     !.removed = gone, !.added = new]
  <2>1. listed \subseteq Copies /\ gone \subseteq Copies
    BY DEF InService, CopiesOf, Highest, Removable
  <2>2. n \in Nat /\ excess \in Int /\ new \in Nat
    BY <2>1, BoundAssumption, FiniteCopies
  <2> HIDE DEF listed, excess, gone, new
  <2>3. r \in Request /\ r.op = "resize" /\ r.book = b
    BY <2>1, <2>2 DEF NoRequest, Request, Ops, Word, NoCopy
  <2>4. Begin(s, "resize", r)
    BY <1>3 DEF Resize, listed, excess, gone, new
  <2> QED
    BY <2>3, <2>4, TypedBegin
<1>4. ASSUME NEW c \in Copies, NEW new \in CopyStatus, UpdateStatus(s, c, new)
      PROVE  Typed'
  <2> DEFINE r == [NoRequest EXCEPT !.op = "status", !.copy = c, !.book = BookOf[c], !.new = new]
  <2>1. new \in Word /\ new # "LOANED"
    BY <1>4 DEF UpdateStatus, MaySet, Word
  <2>2. r \in Request /\ r.op = "status" /\ r.copy = c /\ r.new = new /\ r.book \in Books
    BY <2>1, RowAssumption DEF NoRequest, Request, Ops, Word
  <2>3. Begin(s, "status", r)
    BY <1>4 DEF UpdateStatus
  <2> QED
    BY <2>1, <2>2, <2>3, TypedBegin
<1>5. ASSUME NEW b \in Books, NEW a \in Authors, MoveBook(s, b, a)
      PROVE  Typed'
  <2> DEFINE r == [NoRequest EXCEPT !.op = "move", !.book = b, !.author = authorOf,
                                    !.newAuthor = a]
  <2>1. authorOf \in [Books -> Authors] /\ authorOf \in [Books -> Authors \cup {None}]
    BY DEF Typed, TypeOK, TablesOK
  <2>2. r \in Request /\ r.op = "move" /\ r.book = b /\ r.author = authorOf /\ r.newAuthor = a
    BY <2>1 DEF NoRequest, Request, Ops, Word, NoCopy
  <2>3. Begin(s, "move", r)
    BY <1>5 DEF MoveBook
  <2> QED
    BY <2>1, <2>2, <2>3, TypedBegin
<1> QED
  BY <1>1, <1>2, <1>3, <1>4, <1>5, TypedCreateBook, TargetAssumption
  DEF InventoryCall, BookCall, CopyCall

LEMMA TypedCartCall ==
  ASSUME Typed, NEW s \in Slots, CartCall(s)
  PROVE  Typed'
<1>1. ASSUME NEW u \in Users, NEW b \in Books, AddToCart(s, u, b)
      PROVE  Typed'
  <2> DEFINE r == [NoRequest EXCEPT !.op = "cart", !.user = u, !.book = b]
  <2>1. r \in Request /\ r.op = "cart" /\ r.user = u /\ r.book = b
    BY DEF NoRequest, Request, Ops, Word, NoCopy
  <2>2. Begin(s, "cartAdd", r)
    BY <1>1 DEF AddToCart
  <2> QED
    BY <2>1, <2>2, TypedBegin DEF PCs, Sync, OpAt, Given
<1>2. ASSUME NEW u \in Users, NEW items, RemoveItems(s, u, items)
      PROVE  Typed'
  <2>1. TablesOK'
    BY <1>2 DEF RemoveItems, Typed, TypeOK, TablesOK, userTables, copyTables, bookTables, loanTables
  <2>2. SlotsOK' /\ RequestOK'
    BY <1>2 DEF RemoveItems, Typed, TypeOK, SlotsOK, RequestOK, OpAt, Given, loanTables
  <2> QED
    BY <2>1, <2>2 DEF Typed, TypeOK
<1> QED
  BY <1>1, <1>2 DEF CartCall, RemoveItem, ClearCart

LEMMA TypedMembersCall ==
  ASSUME Typed, NEW s \in Slots, MembersCall(s)
  PROVE  Typed'
<1>1. ASSUME NEW a \in Users, NEW u \in Users, NEW x \in Roles, ChangeRole(s, a, u, x)
      PROVE  Typed'
  <2> DEFINE r == [NoRequest EXCEPT !.op = "role", !.user = u, !.new = x]
  <2>1. r \in Request /\ r.op = "role" /\ r.user = u /\ r.new = x
    BY DEF NoRequest, Request, Ops, Word, NoCopy
  <2>2. Begin(s, "role", r)
    BY <1>1 DEF ChangeRole
  <2> QED
    BY <2>1, <2>2, TypedBegin DEF PCs, Sync, OpAt, Given
<1>2. ASSUME NEW a \in Users, NEW u \in Users, DeleteUser(s, a, u)
      PROVE  Typed'
  <2> DEFINE r == [NoRequest EXCEPT !.op = "delete", !.user = u]
  <2>1. r \in Request /\ r.op = "delete" /\ r.user = u
    BY DEF NoRequest, Request, Ops, Word, NoCopy
  <2>2. Begin(s, "delete", r)
    BY <1>2 DEF DeleteUser
  <2> QED
    BY <2>1, <2>2, TypedBegin DEF PCs, Sync, OpAt, Given
<1> QED
  BY <1>1, <1>2 DEF MembersCall

-----------------------------------------------------------------------------
(* Statements.                                                             *)

LEMMA TypedCounting ==
  ASSUME Typed, NEW s \in Slots, CountTotal(s) \/ CountAvailable(s)
  PROVE  Typed'
<1>0. req[s] \in Request /\ OpAt(pc[s], req[s].op) /\ Given(pc[s], req[s])
  BY DEF Typed, TypeOK, SlotsOK, RequestOK
<1>1. CASE CountTotal(s)
  <2> DEFINE n == Cardinality(InService(s, req[s].book))
             r == [req[s] EXCEPT !.total = n]
  <2>1. n \in Nat
    BY FiniteCopies DEF InService, CopiesOf
  <2> HIDE DEF n
  <2>2. r \in Request /\ OpAt("countAvailable", r.op) /\ Given("countAvailable", r)
    BY <1>0, <1>1, <2>1 DEF Request, CountTotal, OpAt, Given, Sync
  <2> QED
    BY <1>1, <2>2, TypedAdvance
    DEF CountTotal, n, Typed, TypeOK, SlotsOK, PCs, Sync
<1>2. CASE CountAvailable(s)
  <2> DEFINE n == Cardinality(OnShelf(s, req[s].book))
             r == [req[s] EXCEPT !.available = n]
  <2>1. n \in Nat
    BY FiniteCopies DEF OnShelf, CopiesOf
  <2> HIDE DEF n
  <2>2. r \in Request /\ OpAt("write", r.op) /\ Given("write", r)
    BY <1>0, <1>2, <2>1 DEF Request, CountAvailable, OpAt, Given, Sync
  <2> QED
    BY <1>2, <2>2, TypedAdvance
    DEF CountAvailable, n, Typed, TypeOK, SlotsOK, PCs, Sync
<1> QED
  BY <1>1, <1>2

\* What a transaction commits to the inventory is typed.
LEMMA TypedInventory ==
  ASSUME Typed, NEW s \in Slots, CommitInventory(s)
  PROVE  copy' \in [Copies -> CopyRow] /\ count' \in [Books -> Counter]
<1>1. copy' \in [Copies -> CopyRow]
  BY DEF CommitInventory, Sees, Typed, TypeOK, TablesOK, SlotsOK, CopyRow, Unwritten
<1>2. Counted(s) \in Counter
  BY DEF Counted, Counter, Typed, TypeOK, SlotsOK, Request
<1>3. count' \in [Books -> Counter]
  BY <1>2 DEF CommitInventory, Typed, TypeOK, TablesOK, SlotsOK
<1> QED
  BY <1>1, <1>3

LEMMA TypedLending ==
  ASSUME Typed, NEW s \in Slots, ClaimCopy(s) \/ LendNext(s) \/ CommitLoans(s)
  PROVE  Typed'
<1>0. req[s] \in Request /\ OpAt(pc[s], req[s].op) /\ Given(pc[s], req[s])
  BY DEF Typed, TypeOK, SlotsOK, RequestOK
<1>1. CASE ClaimCopy(s)
  <2>0. PICK b \in req[s].todo : \E c \in CopiesOf(b) :
          /\ hold' = [hold EXCEPT ![s][c] = "LOANED"]
          /\ req' = [req EXCEPT ![s] = [req[s] EXCEPT !.book = b, !.copy = c,
                                                      !.todo = req[s].todo \ {b}]]
    BY <1>1 DEF ClaimCopy
  <2>1. PICK c \in CopiesOf(b) :
          /\ hold' = [hold EXCEPT ![s][c] = "LOANED"]
          /\ req' = [req EXCEPT ![s] = [req[s] EXCEPT !.book = b, !.copy = c,
                                                      !.todo = req[s].todo \ {b}]]
    BY <2>0
  <2> DEFINE r == [req[s] EXCEPT !.book = b, !.copy = c, !.todo = req[s].todo \ {b}]
  <2>2. b \in Books /\ c \in Copies
    BY <1>0 DEF Request, CopiesOf
  <2>3. /\ r \in Request /\ r.book = b /\ r.copy = c /\ r.op = req[s].op /\ r.user = req[s].user
        /\ r.author = req[s].author
    BY <1>0, <2>2 DEF Request
  <2>4. OpAt("count", r.op) /\ Given("count", r)
    <3> HIDE DEF r
    <3> QED
      BY <1>0, <1>1, <2>2, <2>3 DEF ClaimCopy, OpAt, Given, Sync
  <2>5. hold' \in [Slots -> [Copies -> CopyStatus \cup {Unwritten}]]
    BY <2>1, <2>2 DEF Typed, TypeOK, SlotsOK, CopyStatus
  <2> HIDE DEF r
  <2> QED
    BY <1>1, <2>1, <2>3, <2>4, <2>5, TypedAdvance
    DEF ClaimCopy, r, Typed, TypeOK, SlotsOK, PCs, Sync
<1>2. CASE LendNext(s)
  <2> DEFINE r == [req[s] EXCEPT !.copy = NoCopy, !.book = None, !.total = 0, !.available = 0]
  <2>1. r \in Request /\ r.op = req[s].op /\ r.user = req[s].user
    BY <1>0 DEF Request
  <2>2. Counted(s) \in Counter
    BY <1>0 DEF Counted, Counter, Request
  <2>3. pend' \in [Slots -> [Books -> Counter]]
    BY <1>2, <2>2 DEF LendNext, Typed, TypeOK, SlotsOK
  <2>4. OpAt("claim", r.op) /\ Given("claim", r)
    BY <1>0, <1>2, <2>1 DEF LendNext, Lending, OpAt, Given, Sync
  <2>5. req' = [req EXCEPT ![s] = r] /\ At(s, "claim") /\ UNCHANGED <<tables, hold>>
    BY <1>2 DEF LendNext
  <2> HIDE DEF r
  <2> QED
    BY <2>1, <2>3, <2>4, <2>5, TypedAdvance DEF Typed, TypeOK, SlotsOK, PCs, Sync
<1>3. CASE CommitLoans(s)
  <2> DEFINE new(c) == [user |-> req[s].user, status |-> "ACTIVE", author |-> Credited(s, c)]
  <2>1. \A c \in Copies : new(c) \in Loan
    BY <1>0, <1>3, RowAssumption
    DEF CommitLoans, Lending, Given, Loan, LoanStatus, Credited
  <2>2. \A c \in Copies : loans'[c] = loans[c] \/ loans'[c] = Append(loans[c], new(c))
    BY <1>3 DEF CommitLoans, Lend
  <2>3. ASSUME NEW c \in Copies
        PROVE  loans'[c] \in Seq(Loan) /\ DOMAIN loans[c] \subseteq DOMAIN loans'[c]
    <3>1. loans[c] \in Seq(Loan)
      BY DEF Typed, TypeOK, TablesOK
    <3>2. /\ Append(loans[c], new(c)) \in Seq(Loan)
          /\ DOMAIN loans[c] \subseteq DOMAIN Append(loans[c], new(c))
      <4> HIDE DEF new
      <4> QED
        BY <2>1, <3>1
    <3> QED
      BY <2>2, <3>1, <3>2
  <2>4. loans' \in [Copies -> Seq(Loan)]
    BY <1>3, <2>3 DEF CommitLoans, Lend
  <2>5. borrowedBooksCount' \in [Authors -> Nat]
    <3> DEFINE n(a) == Cardinality({c \in Claimed(s) : Credited(s, c) = a})
    <3>1. \A a \in Authors : n(a) \in Nat
      BY FiniteCopies DEF Claimed
    <3>2. borrowedBooksCount' = [a \in Authors |-> borrowedBooksCount[a] + n(a)]
      BY <1>3 DEF CommitLoans, CountBorrowed
    <3> HIDE DEF n
    <3>3. borrowedBooksCount \in [Authors -> Nat]
      BY DEF Typed, TypeOK, TablesOK
    <3> QED
      BY <3>1, <3>2, <3>3
  <2>6. cart' \in [Users -> SUBSET Books]
    BY <1>3 DEF CommitLoans, Typed, TypeOK, TablesOK
  <2>7. TablesOK'
    BY <1>3, <2>4, <2>5, <2>6, TypedInventory
    DEF CommitLoans, Typed, TypeOK, TablesOK, userTables
  <2> QED
    BY <1>3, <2>3, <2>7, TypedFinish DEF CommitLoans
<1> QED
  BY <1>1, <1>2, <1>3

\* Changing the status of a loan keeps the loans typed and in place.
LEMMA TypedSetStatus ==
  ASSUME Typed, NEW c \in Copies, NEW i \in DOMAIN loans[c], NEW status \in LoanStatus,
         SetStatus(c, i, status)
  PROVE  /\ loans' \in [Copies -> Seq(Loan)]
         /\ \A d \in Copies : DOMAIN loans'[d] = DOMAIN loans[d]
<1>1. loans[c] \in Seq(Loan) /\ loans[c][i] \in Loan
  BY DEF Typed, TypeOK, TablesOK
<1>2. [loans[c][i] EXCEPT !.status = status] \in Loan
  BY <1>1 DEF Loan
<1>3. loans' = [loans EXCEPT ![c] = [loans[c] EXCEPT ![i] =
                                        [loans[c][i] EXCEPT !.status = status]]]
  BY DEF SetStatus
<1> QED
  BY <1>1, <1>2, <1>3 DEF Typed, TypeOK, TablesOK

LEMMA TypedReturning ==
  ASSUME Typed, NEW s \in Slots, RequestReturn(s) \/ ReturnCopy(s) \/ CommitReturn(s)
  PROVE  Typed'
<1>0. req[s] \in Request /\ OpAt(pc[s], req[s].op) /\ Given(pc[s], req[s])
  BY DEF Typed, TypeOK, SlotsOK, RequestOK
<1>1. CASE RequestReturn(s)
  <2>1. req[s].copy \in Copies /\ req[s].loan \in DOMAIN loans[req[s].copy]
    BY <1>0, <1>1 DEF RequestReturn, OpAt, Given, Sync
  <2>2. /\ loans' \in [Copies -> Seq(Loan)]
        /\ \A c \in Copies : DOMAIN loans'[c] = DOMAIN loans[c]
    BY <1>1, <2>1, TypedSetStatus DEF RequestReturn, LoanStatus
  <2>3. TablesOK'
    BY <1>1, <2>2 DEF RequestReturn, Typed, TypeOK, TablesOK, userTables, copyTables, bookTables
  <2> QED
    BY <1>1, <2>2, <2>3, TypedFinish DEF RequestReturn
<1>2. CASE ReturnCopy(s)
  <2> DEFINE c == req[s].copy
             r == [req[s] EXCEPT !.book = BookOf[c]]
  <2>1. req[s].op = "return" /\ c \in Copies /\ req[s].loan \in DOMAIN loans[c]
    BY <1>0, <1>2 DEF ReturnCopy, OpAt, Given, Sync
  <2>2. BookOf[c] \in Books
    BY <2>1, RowAssumption
  <2>3. r \in Request /\ r.op = "return" /\ r.copy = c /\ r.loan = req[s].loan /\ r.book \in Books
    BY <1>0, <2>1, <2>2 DEF Request
  <2>4. OpAt("count", r.op) /\ Given("count", r)
    BY <2>1, <2>3 DEF OpAt, Given, Sync
  <2>5. hold' \in [Slots -> [Copies -> CopyStatus \cup {Unwritten}]]
    BY <1>2, <2>1 DEF ReturnCopy, ReleaseCopy, Typed, TypeOK, SlotsOK, CopyStatus
  <2>6. req' = [req EXCEPT ![s] = r] /\ At(s, "count") /\ UNCHANGED <<tables, pend>>
    BY <1>2 DEF ReturnCopy
  <2> HIDE DEF r, c
  <2> QED
    BY <2>3, <2>4, <2>5, <2>6, TypedAdvance DEF Typed, TypeOK, SlotsOK, PCs, Sync
<1>3. CASE CommitReturn(s)
  <2>1. req[s].copy \in Copies /\ req[s].loan \in DOMAIN loans[req[s].copy]
    BY <1>0, <1>3 DEF CommitReturn, Given
  <2>2. /\ loans' \in [Copies -> Seq(Loan)]
        /\ \A c \in Copies : DOMAIN loans'[c] = DOMAIN loans[c]
    BY <1>3, <2>1, TypedSetStatus DEF CommitReturn, LoanStatus
  <2>3. TablesOK'
    BY <1>3, <2>2, TypedInventory DEF CommitReturn, Typed, TypeOK, TablesOK, userTables
  <2> QED
    BY <1>3, <2>2, <2>3, TypedFinish DEF CommitReturn
<1> QED
  BY <1>1, <1>2, <1>3

LEMMA TypedStock ==
  ASSUME Typed, NEW s \in Slots, InsertCopy(s) \/ WriteStatus(s) \/ WriteCopies(s)
  PROVE  Typed'
<1>0. req[s] \in Request /\ OpAt(pc[s], req[s].op) /\ Given(pc[s], req[s])
  BY DEF Typed, TypeOK, SlotsOK, RequestOK
<1>1. pc[s] \in {"create", "status", "resize"}
  BY DEF InsertCopy, WriteStatus, WriteCopies
<1>2. At(s, "count") /\ UNCHANGED <<tables, req, pend>>
  BY DEF InsertCopy, WriteStatus, WriteCopies
<1>3. hold' \in [Slots -> [Copies -> CopyStatus \cup {Unwritten}]]
  <2>1. CASE InsertCopy(s)
    <3>1. PICK c : hold' = [hold EXCEPT ![s][c] = "AVAILABLE"]
      BY <2>1 DEF InsertCopy
    <3> QED
      BY <3>1 DEF Typed, TypeOK, SlotsOK, CopyStatus
  <2>2. CASE WriteStatus(s)
    <3>1. req[s].new \in CopyStatus
      BY <1>0, <2>2 DEF WriteStatus, OpAt, Given, Sync
    <3> QED
      BY <2>2, <3>1 DEF WriteStatus, Typed, TypeOK, SlotsOK
  <2>3. CASE WriteCopies(s)
    BY <2>3 DEF WriteCopies, Typed, TypeOK, SlotsOK, CopyStatus
  <2> QED
    BY <2>1, <2>2, <2>3
<1>4. req[s].op \in {"create", "status", "resize"}
  BY <1>0, <1>1 DEF OpAt, Sync
<1>5. req[s].book \in Books
  BY <1>0, <1>1
  DEF Given, Sync
<1>6. OpAt("count", req[s].op) /\ Given("count", req[s])
  BY <1>0, <1>4, <1>5 DEF OpAt, Given, Sync
<1>7. req' = [req EXCEPT ![s] = req[s]] /\ pend' \in [Slots -> [Books -> Counter]]
  BY <1>2 DEF Typed, TypeOK, SlotsOK
<1> QED
  BY <1>0, <1>2, <1>3, <1>6, <1>7, TypedAdvance DEF PCs, Sync

LEMMA TypedCommitStock ==
  ASSUME Typed, NEW s \in Slots, CommitStock(s)
  PROVE  Typed'
<1>1. copyAudit' \in [Copies -> BOOLEAN]
  BY DEF CommitStock, Typed, TypeOK, TablesOK
<1>2. TablesOK'
  BY <1>1, TypedInventory DEF CommitStock, Typed, TypeOK, TablesOK, userTables, loanTables
<1> QED
  BY <1>2, TypedFinish DEF CommitStock, loanTables

LEMMA TypedRemoval ==
  ASSUME Typed, NEW s \in Slots, NEW b \in Books, ArchiveBook(s, b) \/ DeleteBook(s, b)
  PROVE  Typed'
<1>1. CanRemove(s, b) /\ UNCHANGED <<userTables, copyAudit, authorOf, loanTables>> /\ Finish(s)
  BY DEF ArchiveBook, DeleteBook
<1>2. booksCount' \in [Authors -> Nat]
  <2>1. authorOf[b] \in Authors
    BY DEF Typed, TypeOK, TablesOK
  <2>2. booksCount[authorOf[b]] > 0
    BY <1>1 DEF CanRemove, CounterMayDrop
  <2> QED
    BY <1>1, <2>1, <2>2 DEF CanRemove, Typed, TypeOK, TablesOK
<1>3. copy' \in [Copies -> CopyRow]
  BY DEF ArchiveBook, DeleteBook, Withdraw, Typed, TypeOK, TablesOK, CopyRow, CopyStatus
<1>4. count' \in [Books -> Counter]
  <2>1. \/ count' = [count EXCEPT ![b] = [count[b] EXCEPT !.available = 0]]
        \/ count' = [count EXCEPT ![b] = NoCounter]
    BY DEF ArchiveBook, DeleteBook
  <2>2. NoCounter \in Counter /\ [count[b] EXCEPT !.available = 0] \in Counter
    BY DEF Typed, TypeOK, TablesOK, Counter, NoCounter
  <2> QED
    BY <2>1, <2>2 DEF Typed, TypeOK, TablesOK
<1>5. bookRow' \in [Books -> {"NONE", "LIVE", "ARCHIVED", "GONE"}]
  BY DEF ArchiveBook, DeleteBook, Typed, TypeOK, TablesOK
<1>6. cart' \in [Users -> SUBSET Books]
  BY DEF ArchiveBook, DeleteBook, Typed, TypeOK, TablesOK
<1>7. TablesOK'
  BY <1>1, <1>2, <1>3, <1>4, <1>5, <1>6
  DEF Typed, TypeOK, TablesOK, userTables, loanTables
<1> QED
  BY <1>1, <1>7, TypedFinish DEF loanTables

\* A move gives the book an author and one counter what it takes from the other.
LEMMA TypedMove ==
  ASSUME Typed, NEW s \in Slots, NEW b \in Books, WriteMove(s, b)
  PROVE  Typed'
<1> DEFINE from == req[s].author[b]
           to == req[s].newAuthor
<1>1. from \in Authors /\ to \in Authors
  BY DEF WriteMove, Typed, RequestOK, OpAt, Given, Sync
<1>2. /\ from # to => booksCount[from] > 0
      /\ booksCount' = IF from = to THEN booksCount
                       ELSE [booksCount EXCEPT ![from] = @ - 1, ![to] = @ + 1]
      /\ authorOf' = [authorOf EXCEPT ![b] = to]
  BY DEF WriteMove, CounterMayDrop
<1>3. UNCHANGED <<userTables, copyTables, bookRow, count, loanTables, cart>> /\ Finish(s)
  BY DEF WriteMove
<1> HIDE DEF from, to
<1>4. booksCount' \in [Authors -> Nat] /\ authorOf' \in [Books -> Authors]
  <2>1. booksCount \in [Authors -> Nat] /\ authorOf \in [Books -> Authors]
    BY DEF Typed, TypeOK, TablesOK
  <2>2. ASSUME from # to PROVE booksCount' \in [Authors -> Nat]
    <3>1. booksCount[from] - 1 \in Nat /\ booksCount[to] + 1 \in Nat
      BY <1>1, <1>2, <2>1, <2>2
    <3>2. booksCount' = [booksCount EXCEPT ![from] = booksCount[from] - 1,
                                           ![to] = booksCount[to] + 1]
      BY <1>1, <1>2, <2>1, <2>2
    <3> QED
      BY <1>1, <2>1, <3>1, <3>2
  <2> QED
    BY <1>1, <1>2, <2>1, <2>2
<1>5. TablesOK'
  BY <1>3, <1>4 DEF Typed, TypeOK, TablesOK, userTables, copyTables, loanTables
<1> QED
  BY <1>3, <1>5, TypedFinish DEF loanTables

LEMMA TypedInsertItem ==
  ASSUME Typed, NEW s \in Slots, InsertItem(s)
  PROVE  Typed'
<1>1. req[s].book \in Books
  BY DEF Typed, RequestOK, Given, InsertItem
<1>2. cart' \in [Users -> SUBSET Books]
  BY <1>1 DEF InsertItem, Typed, TypeOK, TablesOK
<1>3. TablesOK'
  BY <1>2 DEF InsertItem, Typed, TypeOK, TablesOK, userTables, copyTables, bookTables, loanTables
<1> QED
  BY <1>3, TypedFinish DEF InsertItem, loanTables

LEMMA TypedMembersStep ==
  ASSUME Typed, NEW s \in Slots, MembersStep(s)
  PROVE  Typed'
<1>0. req[s] \in Request /\ OpAt(pc[s], req[s].op) /\ Given(pc[s], req[s])
  BY DEF Typed, TypeOK, SlotsOK, RequestOK
<1>1. ASSUME NEW label \in {"roleWrite", "deleteWrite"},
             pc[s] = (IF label = "roleWrite" THEN "role" ELSE "delete"),
             At(s, label), req' = [req EXCEPT ![s] = [req[s] EXCEPT !.old = role[req[s].user]]],
             UNCHANGED <<tables, hold, pend>>
      PROVE  Typed'
  <2> DEFINE r == [req[s] EXCEPT !.old = role[req[s].user]]
  <2>1. req[s].op = (IF label = "roleWrite" THEN "role" ELSE "delete")
    BY <1>0, <1>1 DEF OpAt, Sync
  <2>2. role[req[s].user] \in Word
    BY <1>0, <2>1 DEF Given, Typed, TypeOK, TablesOK, Word
  <2>3. r \in Request
    BY <1>0, <2>2 DEF Request
  <2>4. OpAt(label, r.op) /\ Given(label, r)
    BY <1>0, <2>1, <2>3 DEF OpAt, Given, Sync, Request
  <2> HIDE DEF r
  <2> QED
    BY <1>1, <2>3, <2>4, TypedAdvance DEF r, Typed, TypeOK, SlotsOK, PCs, Sync
<1>2. CASE LockRole(s)
  BY <1>1, <1>2 DEF LockRole
<1>3. CASE LockUser(s)
  BY <1>1, <1>3 DEF LockUser
<1>4. CASE WriteRole(s)
  <2>1. req[s].user \in Users /\ req[s].new \in Roles /\ req[s].old \in Word /\ req[s].new \in Word
    BY <1>0, <1>4 DEF WriteRole, OpAt, Given, Sync, Request
  <2>2. role' \in [Users -> Roles] /\ userAudit' \in [Users -> AuditRow]
    BY <1>4, <2>1 DEF WriteRole, Typed, TypeOK, TablesOK, AuditRow
  <2>3. TablesOK'
    BY <1>4, <2>2 DEF WriteRole, Typed, TypeOK, TablesOK, copyTables, bookTables, loanTables
  <2> QED
    BY <1>4, <2>3, TypedFinish DEF WriteRole, loanTables
<1>5. CASE WriteDelete(s)
  <2>1. req[s].user \in Users /\ req[s].old \in Word /\ "DELETED" \in Word
    BY <1>0, <1>5 DEF WriteDelete, OpAt, Given, Sync, Request, Word
  <2>2. deletedAt' \in [Users -> BOOLEAN] /\ userAudit' \in [Users -> AuditRow]
    BY <1>5, <2>1 DEF WriteDelete, Typed, TypeOK, TablesOK, AuditRow
  <2>3. cart' \in [Users -> SUBSET Books]
    BY <1>5 DEF WriteDelete, EmptyCart, Typed, TypeOK, TablesOK
  <2>4. TablesOK'
    BY <1>5, <2>2, <2>3 DEF WriteDelete, Typed, TypeOK, TablesOK, copyTables, bookTables, loanTables
  <2> QED
    BY <1>5, <2>4, TypedFinish DEF WriteDelete, loanTables
<1> QED
  BY <1>2, <1>3, <1>4, <1>5 DEF MembersStep

LEMMA TypedRollback ==
  ASSUME Typed, NEW s \in Slots, Rollback(s)
  PROVE  Typed'
<1>1. TablesOK' /\ loans' = loans
  BY DEF Rollback, tables, userTables, copyTables, bookTables, loanTables, Typed, TypeOK, TablesOK
<1> QED
  BY <1>1, TypedFinish DEF Rollback

-----------------------------------------------------------------------------
(* Every request, and the specification.                                   *)

LEMMA TypedNext == Typed /\ [Next]_vars => Typed'
<1> SUFFICES ASSUME Typed, [Next]_vars PROVE Typed'
  OBVIOUS
<1>1. ASSUME NEW s \in Slots, Call(s) PROVE Typed'
  BY <1>1, TypedLoanCall, TypedInventoryCall, TypedCartCall, TypedMembersCall DEF Call
<1>2. ASSUME NEW s \in Slots, Step(s) PROVE Typed'
  BY <1>2, TypedCounting, TypedLending, TypedReturning, TypedStock, TypedCommitStock,
     TypedRemoval, TypedMove, TypedInsertItem, TypedMembersStep
  DEF Step, LoanStep, InventoryStep, CartStep
<1>3. ASSUME NEW s \in Slots, Rollback(s) PROVE Typed'
  BY <1>3, TypedRollback
<1>4. CASE UNCHANGED vars
  BY <1>4 DEF vars, tables, userTables, copyTables, bookTables, loanTables,
     Typed, TypeOK, TablesOK, SlotsOK, RequestOK, Given, OpAt
<1> QED
  BY <1>1, <1>2, <1>3, <1>4 DEF Next

\* Whatever the constants, every reachable state is typed, and each slot has
\* been given what its next statement reads.
THEOREM AlwaysTyped == Spec => []Typed
BY TypedInit, TypedNext, PTL DEF Spec

\* Type correctness: no counter goes below zero, no copy has a status the code
\* does not know, no statement writes a row that does not exist.
THEOREM TypeCorrect == Spec => []TypeOK
<1>1. Typed => TypeOK
  BY DEF Typed
<1> QED
  BY AlwaysTyped, <1>1, PTL
=============================================================================
