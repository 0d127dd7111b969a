------------------------------ MODULE LoanDesk ------------------------------
(***************************************************************************)
(* Borrowing, cart checkout and returning: loans.service.ts,               *)
(* prisma-loans.repository.ts and the barcode return of                    *)
(* book-copies.service.ts.  A conflict found by a guard below is an        *)
(* exception in the code: the slot is left with Rollback.                  *)
(***************************************************************************)
EXTENDS Database

-----------------------------------------------------------------------------
(* Borrowing.                                                              *)

\* borrow reads the book outside any transaction; w is the requested copy.
BorrowRequest(s, u, b, w) ==
  /\ IsAvailable(b)
  /\ w = NoCopy \/ (w \in CopiesOf(b) /\ Exists(w))
  /\ Begin(s, "claim", [NoRequest EXCEPT !.op = "borrow", !.user = u,
                                         !.todo = {b}, !.copy = w,
                                         !.author = authorOf])

\* POST /loans, for members.
Borrow(s, u, b, w) ==
  /\ "Borrow" \in Handlers
  /\ IsMember(u)
  /\ BorrowRequest(s, u, b, w)

\* POST /admin/loans: findUserRole does not ask whether the user is deactivated.
AdminBorrow(s, u, b, w) ==
  /\ "AdminBorrow" \in Handlers
  /\ AdminCalls
  /\ role[u] = "USER"
  /\ BorrowRequest(s, u, b, w)

\* POST /loans/from-cart: the cart is read, and the loans of its books counted.
Checkout(s, u) ==
  /\ "Checkout" \in Handlers
  /\ IsMember(u)
  /\ cart[u] # {}
  /\ ~ \E c \in Copies : /\ BookOf[c] \in cart[u]
                         /\ \E i \in OpenLoans(c) : loans[c][i].user = u
  /\ Begin(s, "claim", [NoRequest EXCEPT !.op = "checkout", !.user = u,
                                         !.todo = cart[u], !.author = authorOf])

\* FOR UPDATE SKIP LOCKED picks the lowest available copy no other transaction
\* has written; the update of a requested copy waits for its lock instead.
Claimable(s, b) == {c \in CopiesOf(b) : Sees(s, c) = "AVAILABLE" /\ CopyFree(s, c)}

ClaimsCopy(s, b, c) ==
  /\ c \in Claimable(s, b)
  /\ IF req[s].copy = NoCopy
       THEN \A d \in Claimable(s, b) : c <= d
       ELSE c = req[s].copy

\* claimAvailableCopy, for the next book of the request.
ClaimCopy(s) ==
  /\ pc[s] = "claim"
  /\ \E b \in req[s].todo : \E c \in CopiesOf(b) :
       /\ ClaimsCopy(s, b, c)
       /\ Len(loans[c]) < MaxLoans
       /\ hold' = [hold EXCEPT ![s][c] = "LOANED"]
       /\ req' = [req EXCEPT ![s] = [@ EXCEPT !.book = b, !.copy = c,
                                              !.todo = req[s].todo \ {b}]]
  /\ At(s, "count")
  /\ UNCHANGED <<tables, pend>>

Claimed(s) == {c \in Copies : hold[s][c] = "LOANED"}

\* Mutant: the checkout is committed after its first book.
LastBook_NotAwaited(s) == TRUE
LastBook(s) == req[s].todo = {}

Lending(s) == req[s].op \in {"borrow", "checkout"} /\ CanSync(s)

\* One cart book is lent, more are to come: the Book row stays locked.
LendNext(s) ==
  /\ Lending(s)
  /\ ~LastBook(s)
  /\ OpenLoans(req[s].copy) = {}
  /\ pend' = [pend EXCEPT ![s][req[s].book] = Counted(s)]
  /\ req' = [req EXCEPT ![s] = [@ EXCEPT !.copy = NoCopy, !.book = None,
                                         !.total = 0, !.available = 0]]
  /\ At(s, "claim")
  /\ UNCHANGED <<tables, hold>>

\* The Loan rows of the request, and the author each is counted for: the one its
\* book had when the request read it, though PATCH may have moved the book since.
Credited(s, c) == req[s].author[BookOf[c]]

Lend(s) ==
  loans' = [c \in Copies |->
              IF c \in Claimed(s)
                THEN Append(loans[c], [user |-> req[s].user, status |-> "ACTIVE",
                                      author |-> Credited(s, c)])
                ELSE loans[c]]

\* Mutant: the author is counted once for a whole checkout.
CountBorrowed_Once(s) ==
  borrowedBooksCount' =
    [a \in Authors |-> IF \E c \in Claimed(s) : Credited(s, c) = a
                         THEN borrowedBooksCount[a] + 1 ELSE borrowedBooksCount[a]]

CountBorrowed(s) ==
  borrowedBooksCount' =
    [a \in Authors |-> borrowedBooksCount[a]
       + Cardinality({c \in Claimed(s) : Credited(s, c) = a})]

\* The last book: its Loan row is inserted and the transaction commits.  The
\* unique index on unreturned loans admits a row only for a copy that has none.
CommitLoans(s) ==
  /\ Lending(s)
  /\ LastBook(s)
  /\ \A c \in Claimed(s) : OpenLoans(c) = {}
  /\ Lend(s)
  /\ CountBorrowed(s)
  /\ cart' = IF req[s].op = "checkout"
               THEN [cart EXCEPT ![req[s].user] = {}] ELSE cart
  /\ CommitInventory(s)
  /\ Finish(s)
  /\ UNCHANGED <<userTables, copyAudit, bookRow, authorOf, booksCount>>

-----------------------------------------------------------------------------
(* Returning.                                                              *)

\* Mutant: the loan may have any status when its return is requested.
Returnable_AnyStatus(c, i) == TRUE
Returnable(c, i) == loans[c][i].status = "ACTIVE"

\* PATCH /loans/:id/return by the member who holds the loan.
AskReturn(s, u, c, i) ==
  /\ "AskReturn" \in Handlers
  /\ IsMember(u)
  /\ i \in LoansOf(c)
  /\ loans[c][i].user = u
  /\ Returnable(c, i)
  /\ Begin(s, "request", [NoRequest EXCEPT !.op = "request", !.copy = c, !.loan = i])

SetStatus(c, i, status) == loans' = [loans EXCEPT ![c][i].status = status]

\* The unique index on unreturned loans admits loan i of copy c: no other is open,
\* and none is being inserted.
\* Mutant: the index is missing.
IndexAdmits_Any(c, i) == TRUE
IndexAdmits(c, i) ==
  /\ OpenLoans(c) \subseteq {i}
  /\ \A t \in Slots : ~ (c \in Claimed(t) /\ pend[t][BookOf[c]] # NoCounter)

\* requestReturn: an update by id, whatever the status has become.
RequestReturn(s) ==
  /\ pc[s] = "request"
  /\ LET c == req[s].copy
         i == req[s].loan
     IN /\ LoanFree(s, c, i)
        /\ IndexAdmits(c, i)
        /\ SetStatus(c, i, "RETURN_REQUESTED")
  /\ Finish(s)
  /\ UNCHANGED <<userTables, copyTables, bookTables, borrowedBooksCount, cart>>

\* PATCH /loans/:id/return by an administrator, and PATCH /admin/loans/:id with
\* status RETURNED.
AdminReturn(s, c, i) ==
  /\ "AdminReturn" \in Handlers
  /\ AdminCalls
  /\ i \in OpenLoans(c)
  /\ Begin(s, "return", [NoRequest EXCEPT !.op = "return", !.copy = c, !.loan = i])

\* PATCH /book-copies/barcode/:barcode/return: the unreturned loan of the copy.
ScanReturn(s, c) ==
  /\ "ScanReturn" \in Handlers
  /\ AdminCalls
  /\ \E i \in OpenLoans(c) :
       Begin(s, "return", [NoRequest EXCEPT !.op = "return", !.copy = c, !.loan = i])

\* Mutant: the second update has no condition on the status of the copy.
CopyIsLoaned_Unchecked(c) == TRUE
CopyIsLoaned(c) == copy[c] = "LOANED"

\* Mutant: the loan is closed and the copy forgotten.
ReleaseCopy_Forgotten(s, c) == UNCHANGED hold
ReleaseCopy(s, c) == hold' = [hold EXCEPT ![s][c] = "AVAILABLE"]

\* returnLoan: two guarded updates, of the loan and of its copy.
ReturnCopy(s) ==
  /\ pc[s] = "return"
  /\ LET c == req[s].copy
     IN /\ LoanFree(s, c, req[s].loan)
        /\ Open(c, req[s].loan)
        /\ CopyFree(s, c)
        /\ CopyIsLoaned(c)
        /\ ReleaseCopy(s, c)
        /\ req' = [req EXCEPT ![s] = [@ EXCEPT !.book = BookOf[c]]]
  /\ At(s, "count")
  /\ UNCHANGED <<tables, pend>>

CommitReturn(s) ==
  /\ req[s].op = "return"
  /\ CanSync(s)
  /\ SetStatus(req[s].copy, req[s].loan, "RETURNED")
  /\ CommitInventory(s)
  /\ Finish(s)
  /\ UNCHANGED <<userTables, copyAudit, bookRow, authorOf, booksCount,
                 borrowedBooksCount, cart>>

-----------------------------------------------------------------------------
LoanCall(s) ==
  \/ \E u \in Users, b \in Books, w \in Copies \cup {NoCopy} :
       Borrow(s, u, b, w) \/ AdminBorrow(s, u, b, w)
  \/ \E u \in Users : Checkout(s, u)
  \/ \E u \in Users, c \in Copies : \E i \in LoansOf(c) : AskReturn(s, u, c, i)
  \/ \E c \in Copies : ScanReturn(s, c)
  \/ \E c \in Copies : \E i \in LoansOf(c) : AdminReturn(s, c, i)

LoanStep(s) ==
  \/ ClaimCopy(s) \/ LendNext(s) \/ CommitLoans(s)
  \/ RequestReturn(s)
  \/ ReturnCopy(s) \/ CommitReturn(s)
=============================================================================
