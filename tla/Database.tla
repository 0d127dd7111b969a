------------------------------ MODULE Database ------------------------------
(***************************************************************************)
(* The PostgreSQL tables behind NexRead's lending desk and the requests    *)
(* being served over them.                                                 *)
(*                                                                         *)
(* A slot is one HTTP request in flight.  Its program counter names the    *)
(* next database statement it will issue; between two statements any other *)
(* slot may run, as it may in the Node process and its connection pool.    *)
(* Transactions run at READ COMMITTED: a statement sees the committed rows *)
(* and the rows its own transaction wrote (hold, pend), and a row written  *)
(* by an open transaction is locked until that transaction ends.           *)
(***************************************************************************)
EXTENDS Integers, Sequences, FiniteSets

CONSTANTS
  Users,      \* User.id
  Admins,     \* the users that are administrators at the start
  Books,      \* Book.id
  Authors,    \* Author.id
  Copies,     \* BookCopy.id: numbers, for the lowest one is lent first
  Stock,      \* the copies catalogued at the start
  BookOf,     \* BookCopy.bookId
  AuthorOf,   \* the author each book is created with
  Slots,      \* requests served at the same time
  MaxLoans,   \* bound: loans recorded for one copy
  MaxSize,    \* bound: totalCopies an administrator asks for
  Targets,    \* bound: statuses an administrator asks for
  Handlers,   \* the endpoints clients call in this instance
  None        \* no user, no book

ASSUME RowAssumption ==
  /\ Admins \subseteq Users /\ Admins # {}
  /\ Copies \subseteq Nat \ {0} /\ Stock \subseteq Copies
  /\ BookOf \in [Copies -> Books]
  /\ AuthorOf \in [Books -> Authors]
  /\ None \notin Users

ASSUME BoundAssumption ==
  /\ IsFiniteSet(Users) /\ IsFiniteSet(Books) /\ IsFiniteSet(Copies)
  /\ MaxLoans \in Nat /\ MaxSize \in Nat

VARIABLES
  role,         \* User.role
  deletedAt,    \* User.deletedAt is set
  userAudit,    \* the latest AdminAuditLog row about a user
  copy,         \* BookCopy.status; NONE before the row exists, GONE after
  copyAudit,    \* a BookCopyAuditLog row of the copy exists
  bookRow,      \* NONE, LIVE, ARCHIVED (Book.deletedAt is set) or GONE
  authorOf,     \* Book.authorId
  count,        \* Book.totalCopies and Book.availableCopies
  booksCount,          \* Author.booksCount
  borrowedBooksCount,  \* Author.borrowedBooksCount
  loans,        \* the Loan rows of each copy, oldest first
  cart,         \* CartItem: the books in a user's cart
  pc,           \* the next statement of each slot
  req,          \* what the request asked for and what it has read
  hold,         \* BookCopy rows its transaction wrote, not yet committed
  pend          \* Book counters its transaction wrote, not yet committed

userTables == <<role, deletedAt, userAudit>>
copyTables == <<copy, copyAudit>>
bookTables == <<bookRow, authorOf, count, booksCount>>
loanTables == <<loans, borrowedBooksCount>>
tables == <<userTables, copyTables, bookTables, loanTables, cart>>
vars == <<tables, pc, req, hold, pend>>

-----------------------------------------------------------------------------
(* Rows.  DAMAGED stands for DAMAGED and LOST, which the code never tells   *)
(* apart.                                                                   *)

Roles == {"USER", "ADMIN"}
CopyStatus == {"AVAILABLE", "LOANED", "DAMAGED", "ARCHIVED"}
ASSUME TargetAssumption == Targets \subseteq CopyStatus

CopyRow == CopyStatus \cup {"NONE", "GONE"}
LoanStatus == {"ACTIVE", "RETURN_REQUESTED", "RETURNED"}
Unreturned == {"ACTIVE", "RETURN_REQUESTED"}
\* author is no column: it is the author whose counter the loan incremented.
Loan == [user : Users, status : LoanStatus, author : Authors]
Counter == [total : Nat, available : Nat]
Word == CopyStatus \cup Roles \cup {"-", "DELETED"}
AuditRow == [old : Word, new : Word]

NoCopy == 0
NoCounter == [total |-> 0, available |-> 0]
NoAudit == [old |-> "-", new |-> "-"]
Unwritten == "-"

Exists(c) == copy[c] \in CopyStatus
CopiesOf(b) == {c \in Copies : BookOf[c] = b}
LoansOf(c) == DOMAIN loans[c]
Open(c, i) == loans[c][i].status \in Unreturned
OpenLoans(c) == {i \in LoansOf(c) : Open(c, i)}
BookOnLoan(b) == \E c \in CopiesOf(b) : OpenLoans(c) # {}
Owes(u) == \E c \in Copies : \E i \in OpenLoans(c) : loans[c][i].user = u

\* isAvailable is kept equal to availableCopies > 0 by a CHECK constraint.
IsAvailable(b) == bookRow[b] = "LIVE" /\ count[b].available > 0

\* The CHECK constraints of the Book table.
CheckBook(n) == n.total > 0 /\ n.available <= n.total

\* Callers: JwtStrategy.validate reads the user row, RolesGuard its role.
IsUser(u) == ~deletedAt[u]
IsMember(u) == IsUser(u) /\ role[u] = "USER"
IsAdmin(u) == IsUser(u) /\ role[u] = "ADMIN"
ActiveAdmins == {u \in Users : IsAdmin(u)}
AdminCalls == ActiveAdmins # {}

-----------------------------------------------------------------------------
(* Requests.                                                               *)

Ops == {"none", "borrow", "checkout", "request", "return", "create",
        "status", "resize", "move", "remove", "cart", "role", "delete"}

Sync == {"count", "countAvailable", "write"}
PCs == {"idle", "claim", "request", "return", "create", "status", "resize",
        "move", "remove", "cartAdd", "role", "roleWrite", "delete", "deleteWrite"} \cup Sync

Request ==
  [op : Ops, user : Users \cup {None}, todo : SUBSET Books,
   book : Books \cup {None}, copy : Copies \cup {NoCopy}, loan : Nat,
   author : [Books -> Authors \cup {None}], newAuthor : Authors \cup {None},
   old : Word, new : Word, size : Nat, added : Nat,
   removed : SUBSET Copies, total : Nat, available : Nat]

NoRequest ==
  [op |-> "none", user |-> None, todo |-> {}, book |-> None, copy |-> NoCopy,
   loan |-> 0, author |-> [b \in Books |-> None], newAuthor |-> None,
   old |-> "-", new |-> "-", size |-> 0, added |-> 0, removed |-> {},
   total |-> 0, available |-> 0]

Idle(s) == pc[s] = "idle"
At(s, label) == pc' = [pc EXCEPT ![s] = label]

\* A request that passed its first checks: it will next run the statement label.
Begin(s, label, r) ==
  /\ Idle(s)
  /\ At(s, label)
  /\ req' = [req EXCEPT ![s] = r]
  /\ UNCHANGED <<tables, hold, pend>>

-----------------------------------------------------------------------------
(* Transactions.                                                           *)

Sees(s, c) == IF hold[s][c] = Unwritten THEN copy[c] ELSE hold[s][c]
CopyFree(s, c) == \A t \in Slots \ {s} : hold[t][c] = Unwritten
BookFree(s, b) == \A t \in Slots \ {s} : pend[t][b] = NoCounter

\* A returning transaction has updated its Loan row and not yet committed.
LoanFree(s, c, i) ==
  \A t \in Slots \ {s} :
    ~ (req[t].op = "return" /\ pc[t] \in Sync /\ req[t].copy = c /\ req[t].loan = i)

\* The slot answers its client and keeps nothing.
Finish(s) ==
  /\ At(s, "idle")
  /\ req' = [req EXCEPT ![s] = NoRequest]
  /\ hold' = [hold EXCEPT ![s] = [c \in Copies |-> Unwritten]]
  /\ pend' = [pend EXCEPT ![s] = [b \in Books |-> NoCounter]]

\* An exception, a constraint violation, a deadlock PostgreSQL resolves, the
\* time limit of Prisma's interactive transactions or a stopped server: the
\* transaction rolls back, so nothing it wrote is seen.
Rollback(s) == ~Idle(s) /\ Finish(s) /\ UNCHANGED tables

-----------------------------------------------------------------------------
(* syncBookInventory: two counts, each a snapshot of its own, and an update *)
(* of the Book row with what they returned.                                *)

InService(s, b) == {c \in CopiesOf(b) : Sees(s, c) \in CopyStatus \ {"ARCHIVED"}}
\* Mutant: the copies on loan are counted as available.
OnShelf_LoanedToo(s, b) == {c \in CopiesOf(b) : Sees(s, c) \in {"AVAILABLE", "LOANED"}}
OnShelf(s, b) == {c \in CopiesOf(b) : Sees(s, c) = "AVAILABLE"}

CountTotal(s) ==
  /\ pc[s] = "count"
  /\ At(s, "countAvailable")
  /\ req' = [req EXCEPT ![s] = [@ EXCEPT !.total = Cardinality(InService(s, req[s].book))]]
  /\ UNCHANGED <<tables, hold, pend>>

CountAvailable(s) ==
  /\ pc[s] = "countAvailable"
  /\ At(s, "write")
  /\ req' = [req EXCEPT ![s] = [@ EXCEPT !.available = Cardinality(OnShelf(s, req[s].book))]]
  /\ UNCHANGED <<tables, hold, pend>>

Counted(s) == [total |-> req[s].total, available |-> req[s].available]

\* The Book row can be written: its lock is free and its constraints hold.
CanSync(s) ==
  /\ pc[s] = "write"
  /\ BookFree(s, req[s].book)
  /\ bookRow[req[s].book] \in {"LIVE", "ARCHIVED"}
  /\ CheckBook(Counted(s))

\* What the tables hold once the transaction of s commits its inventory.
CommitInventory(s) ==
  /\ copy' = [c \in Copies |-> Sees(s, c)]
  /\ count' = [b \in Books |->
                 IF b = req[s].book THEN Counted(s)
                 ELSE IF pend[s][b] # NoCounter THEN pend[s][b]
                 ELSE count[b]]

DatabaseInit ==
  /\ role = [u \in Users |-> IF u \in Admins THEN "ADMIN" ELSE "USER"]
  /\ deletedAt = [u \in Users |-> FALSE]
  /\ userAudit = [u \in Users |-> NoAudit]
  /\ copy = [c \in Copies |-> IF c \in Stock THEN "AVAILABLE" ELSE "NONE"]
  /\ copyAudit = [c \in Copies |-> FALSE]
  /\ bookRow = [b \in Books |->
                  IF CopiesOf(b) \cap Stock # {} THEN "LIVE" ELSE "NONE"]
  /\ authorOf = AuthorOf
  /\ count = [b \in Books |->
                [total |-> Cardinality(CopiesOf(b) \cap Stock),
                 available |-> Cardinality(CopiesOf(b) \cap Stock)]]
  /\ booksCount = [a \in Authors |->
                     Cardinality({b \in Books :
                       AuthorOf[b] = a /\ CopiesOf(b) \cap Stock # {}})]
  /\ borrowedBooksCount = [a \in Authors |-> 0]
  /\ loans = [c \in Copies |-> <<>>]
  /\ cart = [u \in Users |-> {}]
  /\ pc = [s \in Slots |-> "idle"]
  /\ req = [s \in Slots |-> NoRequest]
  /\ hold = [s \in Slots |-> [c \in Copies |-> Unwritten]]
  /\ pend = [s \in Slots |-> [b \in Books |-> NoCounter]]
=============================================================================
