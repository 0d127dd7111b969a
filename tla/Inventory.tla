----------------------------- MODULE Inventory ------------------------------
(***************************************************************************)
(* The administrators' side of the stock: book-copies.service.ts           *)
(* (cataloguing a copy, changing its status) and books.service.ts with     *)
(* prisma-books.repository.ts (creating, resizing and removing a book).    *)
(***************************************************************************)
EXTENDS Database

Unused(s, b) == {c \in CopiesOf(b) : copy[c] = "NONE" /\ CopyFree(s, c)}
Lowest(S, n) == {c \in S : Cardinality({d \in S : d < c}) < n}
Highest(S, n) == {c \in S : Cardinality({d \in S : d > c}) < n}

-----------------------------------------------------------------------------
(* Copies.                                                                 *)

\* POST /book-copies: the book is read before the transaction.
CreateCopy(s, b) ==
  /\ "CreateCopy" \in Handlers
  /\ AdminCalls
  /\ bookRow[b] = "LIVE"
  /\ Begin(s, "create", [NoRequest EXCEPT !.op = "create", !.book = b])

\* Ids come from a sequence, so a new copy has the lowest id not used yet.
InsertCopy(s) ==
  /\ pc[s] = "create"
  /\ bookRow[req[s].book] # "GONE"
  /\ \E c \in Lowest(Unused(s, req[s].book), 1) :
       hold' = [hold EXCEPT ![s][c] = "AVAILABLE"]
  /\ At(s, "count")
  /\ UNCHANGED <<tables, req, pend>>

\* LOANED is neither left nor entered here.
\* Mutants: without the first condition, without the second.
MaySet_OfLoaned(c, new) == Exists(c) /\ new # "LOANED"
MaySet_ToLoaned(c, new) == Exists(c) /\ copy[c] # "LOANED"
MaySet(c, new) == Exists(c) /\ copy[c] # "LOANED" /\ new # "LOANED"

\* PATCH /book-copies/:id/status: the row is read before the transaction.
UpdateStatus(s, c, new) ==
  /\ "UpdateStatus" \in Handlers
  /\ AdminCalls
  /\ MaySet(c, new)
  /\ Begin(s, "status", [NoRequest EXCEPT !.op = "status", !.copy = c,
                           !.book = BookOf[c], !.new = new])

\* An update by id: the status read before is not looked at again.
WriteStatus(s) ==
  /\ pc[s] = "status"
  /\ Exists(req[s].copy)
  /\ CopyFree(s, req[s].copy)
  /\ hold' = [hold EXCEPT ![s][req[s].copy] = req[s].new]
  /\ At(s, "count")
  /\ UNCHANGED <<tables, req, pend>>

-----------------------------------------------------------------------------
(* Books.                                                                  *)

\* POST /books: the book, its copies and its author's counter in one commit.
CreateBook(s, b, n) ==
  /\ "CreateBook" \in Handlers
  /\ AdminCalls
  /\ Idle(s)
  /\ bookRow[b] = "NONE"
  /\ n > 0
  /\ LET new == Lowest(Unused(s, b), n)
     IN /\ Cardinality(new) = n
        /\ copy' = [c \in Copies |-> IF c \in new THEN "AVAILABLE" ELSE copy[c]]
  /\ bookRow' = [bookRow EXCEPT ![b] = "LIVE"]
  /\ count' = [count EXCEPT ![b] = [total |-> n, available |-> n]]
  /\ booksCount' = [booksCount EXCEPT ![authorOf[b]] = @ + 1]
  /\ UNCHANGED <<userTables, copyAudit, authorOf, loanTables, cart, pc, req, hold, pend>>

\* The copies a smaller book may lose.  Mutant: those on loan too.
Removable_LoanedToo(S) == S
Removable(S) == {c \in S : copy[c] # "LOANED"}

\* PATCH /books/:id with totalCopies = n.  The service compares n with the
\* unreturned loans; the transaction lists the copies in service and decides
\* how many to add or which to archive.
Resize(s, b, n) ==
  /\ "Resize" \in Handlers
  /\ AdminCalls
  /\ bookRow[b] = "LIVE"
  /\ n >= Cardinality({c \in CopiesOf(b) : OpenLoans(c) # {}})
  /\ LET listed == InService(s, b)
         excess == Cardinality(listed) - n
         removable == Removable(listed)
     IN /\ Cardinality(removable) >= excess
        /\ Begin(s, "resize",
             [NoRequest EXCEPT !.op = "resize", !.book = b, !.size = n,
                !.removed = Highest(removable, excess),
                !.added = IF excess < 0 THEN -excess ELSE 0])

\* createMany, or an updateMany of the ids listed before, whatever their status is now.
WriteCopies(s) ==
  /\ pc[s] = "resize"
  /\ bookRow[req[s].book] # "GONE"
  /\ \A c \in req[s].removed : CopyFree(s, c)
  /\ LET new == Lowest(Unused(s, req[s].book), req[s].added)
     IN /\ Cardinality(new) = req[s].added
        /\ hold' = [hold EXCEPT ![s] =
                      [c \in Copies |-> IF c \in req[s].removed THEN "ARCHIVED"
                                        ELSE IF c \in new THEN "AVAILABLE"
                                        ELSE Unwritten]]
  /\ At(s, "count")
  /\ UNCHANGED <<tables, req, pend>>

\* The commit of the three transactions above; a status change adds an audit row.
CommitStock(s) ==
  /\ req[s].op \in {"create", "status", "resize"}
  /\ CanSync(s)
  /\ req[s].op = "resize" => req[s].total = req[s].size
  /\ CommitInventory(s)
  /\ copyAudit' = [c \in Copies |-> copyAudit[c]
                     \/ (req[s].op = "status" /\ c = req[s].copy)]
  /\ Finish(s)
  /\ UNCHANGED <<userTables, bookRow, authorOf, booksCount, loanTables, cart>>

\* The CHECK constraint of Author.booksCount.  Mutant: there is none.
CounterMayDrop_Unchecked(a) == TRUE
CounterMayDrop(a) == booksCount[a] > 0

\* PATCH /books/:id with authorId = a: the transaction reads the present author.
MoveBook(s, b, a) ==
  /\ "MoveBook" \in Handlers
  /\ AdminCalls
  /\ bookRow[b] = "LIVE"
  /\ Begin(s, "move", [NoRequest EXCEPT !.op = "move", !.book = b,
                         !.author = authorOf, !.newAuthor = a])

\* The Book row is updated by id, then booksCount of the author read before and of
\* the new one; borrowedBooksCount of neither.
WriteMove(s, b) ==
  LET from == req[s].author[b]
      to == req[s].newAuthor
  IN /\ pc[s] = "move"
     /\ b = req[s].book
     /\ bookRow[b] \in {"LIVE", "ARCHIVED"}
     /\ BookFree(s, b)
     /\ from # to => CounterMayDrop(from)
     /\ booksCount' = IF from = to THEN booksCount
                       ELSE [booksCount EXCEPT ![from] = @ - 1, ![to] = @ + 1]
     /\ authorOf' = [authorOf EXCEPT ![b] = to]
     /\ Finish(s)
     /\ UNCHANGED <<userTables, copyTables, bookRow, count, loanTables, cart>>

\* DELETE /books/:id: the unreturned loans are counted before the transaction.
RemoveBook(s, b) ==
  /\ "RemoveBook" \in Handlers
  /\ AdminCalls
  /\ bookRow[b] = "LIVE"
  /\ ~BookOnLoan(b)
  /\ Begin(s, "remove", [NoRequest EXCEPT !.op = "remove", !.book = b])

\* Loans and audit rows, which are never deleted; this library has no reviews.
HasHistory(b) ==
  \E c \in CopiesOf(b) : loans[c] # <<>> \/ copyAudit[c]

\* deleteOrArchive does not look at deletedAt: it runs on an archived book too.
CanRemove(s, b) ==
  /\ pc[s] = "remove"
  /\ b = req[s].book
  /\ bookRow[b] # "GONE"
  /\ \A c \in CopiesOf(b) : Exists(c) => CopyFree(s, c)
  /\ BookFree(s, b)
  /\ CounterMayDrop(authorOf[b])
  /\ booksCount' = [booksCount EXCEPT ![authorOf[b]] = @ - 1]

Withdraw(b, row) ==
  copy' = [c \in Copies |-> IF BookOf[c] = b /\ Exists(c) THEN row ELSE copy[c]]

ArchiveBook(s, b) ==
  /\ HasHistory(b)
  /\ CanRemove(s, b)
  /\ Withdraw(b, "ARCHIVED")
  /\ bookRow' = [bookRow EXCEPT ![b] = "ARCHIVED"]
  /\ count' = [count EXCEPT ![b].available = 0]
  /\ Finish(s)
  /\ UNCHANGED <<userTables, copyAudit, authorOf, loanTables, cart>>

\* Without history the rows are deleted, and with them the cart items; a copy
\* being inserted keeps the book from being deleted.
DeleteBook(s, b) ==
  /\ ~HasHistory(b)
  /\ \A c \in CopiesOf(b) : CopyFree(s, c)
  /\ CanRemove(s, b)
  /\ Withdraw(b, "GONE")
  /\ bookRow' = [bookRow EXCEPT ![b] = "GONE"]
  /\ count' = [count EXCEPT ![b] = NoCounter]
  /\ cart' = [u \in Users |-> cart[u] \ {b}]
  /\ Finish(s)
  /\ UNCHANGED <<userTables, copyAudit, authorOf, loanTables>>

-----------------------------------------------------------------------------
BookCall(s) ==
  \/ \E b \in Books : RemoveBook(s, b)
  \/ \E b \in Books, n \in 1 .. MaxSize : CreateBook(s, b, n) \/ Resize(s, b, n)
  \/ \E b \in Books, a \in Authors : MoveBook(s, b, a)

CopyCall(s) ==
  \/ \E b \in Books : CreateCopy(s, b)
  \/ \E c \in Copies, new \in Targets : UpdateStatus(s, c, new)

InventoryCall(s) == BookCall(s) \/ CopyCall(s)

InventoryStep(s) ==
  \/ InsertCopy(s) \/ WriteStatus(s) \/ WriteCopies(s) \/ CommitStock(s)
  \/ \E b \in Books : WriteMove(s, b) \/ ArchiveBook(s, b) \/ DeleteBook(s, b)
=============================================================================
