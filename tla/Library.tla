------------------------------ MODULE Library -------------------------------
(***************************************************************************)
(* The library: every request of LoanDesk, Inventory, Cart and Members over *)
(* one database, and what must hold of it.  The properties come in two     *)
(* groups: those that hold however requests interleave, and those that hold *)
(* when requests are served one at a time.                                 *)
(***************************************************************************)
EXTENDS LoanDesk, Inventory, Cart, Members

Init == DatabaseInit

Call(s) == LoanCall(s) \/ InventoryCall(s) \/ CartCall(s) \/ MembersCall(s)

Step(s) ==
  \/ CountTotal(s) \/ CountAvailable(s)
  \/ LoanStep(s) \/ InventoryStep(s) \/ CartStep(s) \/ MembersStep(s)

Next == \E s \in Slots : Call(s) \/ Step(s) \/ Rollback(s)

Spec == Init /\ [][Next]_vars

-----------------------------------------------------------------------------
(* However requests interleave.                                            *)

\* The variables hold rows, requests and transaction writes of their types.
TablesOK ==
  /\ role \in [Users -> Roles]
  /\ deletedAt \in [Users -> BOOLEAN]
  /\ userAudit \in [Users -> AuditRow]
  /\ copy \in [Copies -> CopyRow]
  /\ copyAudit \in [Copies -> BOOLEAN]
  /\ bookRow \in [Books -> {"NONE", "LIVE", "ARCHIVED", "GONE"}]
  /\ authorOf \in [Books -> Authors]
  /\ count \in [Books -> Counter]
  /\ booksCount \in [Authors -> Nat]
  /\ borrowedBooksCount \in [Authors -> Nat]
  /\ loans \in [Copies -> Seq(Loan)]
  /\ cart \in [Users -> SUBSET Books]

SlotsOK ==
  /\ pc \in [Slots -> PCs]
  /\ req \in [Slots -> Request]
  /\ hold \in [Slots -> [Copies -> CopyStatus \cup {Unwritten}]]
  /\ pend \in [Slots -> [Books -> Counter]]

TypeOK == TablesOK /\ SlotsOK

\* What a transaction has written about copies and what it relies on until it
\* commits.  Only a loan takes a copy, from the shelf; a return gives back the
\* one copy of its loan, still marked LOANED; nobody else has changed the row.
Lenders == {"borrow", "checkout"}
Lock(s, c) ==
  /\ hold[s][c] # Unwritten => pc[s] \in Sync \cup {"claim"}
  /\ hold[s][c] = "LOANED" => req[s].op \in Lenders /\ copy[c] = "AVAILABLE"
  /\ req[s].op \in Lenders => hold[s][c] \in {Unwritten, "LOANED"}
  /\ req[s].op = "return" /\ pc[s] \in Sync =>
       IF c = req[s].copy THEN hold[s][c] = "AVAILABLE" /\ copy[c] = "LOANED"
       ELSE hold[s][c] = Unwritten
LocksHeld == \A s \in Slots, c \in Copies : Lock(s, c)

\* No copy is lent to two people: it has at most one loan not yet returned.
OneUnreturnedLoanPerCopy ==
  \A c \in Copies : \A i, j \in OpenLoans(c) : i = j

\* A copy is marked LOANED only while some loan of it is open: claiming and
\* returning a copy commit together with the loan, also against each other.
LoanedCopyHasLoan ==
  \A c \in Copies : copy[c] = "LOANED" => OpenLoans(c) # {}

\* A loan is closed together with its copy going back on the shelf, never
\* while the copy is somewhere else: the two guarded updates of returnLoan.
LoanClosesWithItsCopy ==
  [][\A c \in Copies : \A i \in OpenLoans(c) :
       loans'[c][i].status = "RETURNED"
         => copy[c] = "LOANED" /\ copy'[c] = "AVAILABLE"]_vars

\* Author.borrowedBooksCount counts every recorded loan once, for the author its
\* request read, also when transactions increment it at once, roll back halfway
\* through a cart, or lend a book that is being moved to another author.
LoansCredited(a) ==
  {l \in Copies \X (1 .. MaxLoans) :
     l[2] \in LoansOf(l[1]) /\ loans[l[1]][l[2]].author = a}
BorrowedBooksCounted ==
  \A a \in Authors : borrowedBooksCount[a] = Cardinality(LoansCredited(a))

\* A book, once lent, is archived and never deleted, though deleteOrArchive may
\* run beside a loan of it; and no cart holds a deleted book.
HistoryKept ==
  \A b \in Books : bookRow[b] = "GONE" =>
    /\ \A c \in CopiesOf(b) : loans[c] = <<>> /\ ~copyAudit[c]
    /\ \A u \in Users : b \notin cart[u]

\* Some administrator stays active, though administrators demote and delete
\* each other at the same time.
SomeActiveAdmin == ActiveAdmins # {}

\* An AdminAuditLog row says what the change replaced.
UserAuditTrue ==
  [][\A u \in Users : userAudit'[u] # userAudit[u] => userAudit'[u].old = role[u]]_vars

\* The lending desk implements Custody: the person who has a copy marked LOANED
\* is the borrower of its open loan.
Holder(c) ==
  IF copy[c] # "LOANED" THEN None
  ELSE IF OpenLoans(c) = {} THEN "unaccounted"
  ELSE loans[c][CHOOSE i \in OpenLoans(c) : TRUE].user

Desk == INSTANCE Custody WITH Nobody <- None, holder <- [c \in Copies |-> Holder(c)]

CustodySpec == Desk!Spec

-----------------------------------------------------------------------------
(* When requests are served one at a time.                                 *)

\* A loan is open exactly while its copy is marked LOANED, so that every open
\* loan can be returned and every copy on the shelf can be lent.
CopyMatchesLoans ==
  \A c \in Copies : copy[c] = "LOANED" <=> OpenLoans(c) # {}

\* The counters of a book in the catalogue agree with its physical copies.
CountersMatchCopies ==
  \A b \in Books : bookRow[b] = "LIVE" =>
    /\ count[b].total =
         Cardinality({c \in CopiesOf(b) : copy[c] \in CopyStatus \ {"ARCHIVED"}})
    /\ count[b].available =
         Cardinality({c \in CopiesOf(b) : copy[c] = "AVAILABLE"})

\* A returned loan is never reopened.
ReturnedIsFinal ==
  [][\A c \in Copies : \A i \in LoansOf(c) :
       loans[c][i].status = "RETURNED" => loans'[c][i].status = "RETURNED"]_vars

\* A copy stops being LOANED only by the return of its loan, and then it is
\* AVAILABLE: LOANED is managed by the loan workflow alone.
LoanedEndsByReturn ==
  [][\A c \in Copies : copy[c] = "LOANED" /\ copy'[c] # "LOANED" =>
       /\ copy'[c] = "AVAILABLE"
       /\ \E i \in OpenLoans(c) : loans'[c][i].status = "RETURNED"]_vars

\* The cart of a deactivated user is empty, and stays so.
DeactivatedCartEmpty ==
  \A u \in Users : deletedAt[u] => cart[u] = {}

\* A checkout lends every book it takes out of the cart, and lends them all in
\* the step that empties the cart.
CheckoutLendsCart ==
  [][\A u \in Users, s \in Slots :
       req[s].op = "checkout" /\ req[s].user = u /\ loans' # loans =>
         /\ cart'[u] = {}
         /\ \A b \in cart[u] : \E c \in CopiesOf(b) :
              Len(loans'[c]) > Len(loans[c]) /\ loans'[c][Len(loans'[c])].user = u]_vars

-----------------------------------------------------------------------------
(* What the documentation says and the code, which checks before it opens the *)
(* transaction, does not keep.                                             *)

\* A user is deactivated only while no loan of theirs is open.
DeactivatedOwesNothing ==
  [][\A u \in Users : deletedAt'[u] /\ ~deletedAt[u] => ~Owes(u)]_vars
=============================================================================
