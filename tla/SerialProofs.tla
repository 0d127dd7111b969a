---------------------------- MODULE SerialProofs -----------------------------
(***************************************************************************)
(* Requests served one at a time: what a request reads stays true until it *)
(* writes, and so loans, copies, counters and carts stay in agreement.     *)
(***************************************************************************)
EXTENDS CustodyProofs

\* Requests are served one at a time.
OneAtATime == \A s, t \in Slots : s = t

\* What a request has read, and decided on, is what the tables still hold.
StillTrue(s) ==
  /\ req[s].op = "status" =>
       copy[req[s].copy] # "LOANED" /\ BookOf[req[s].copy] = req[s].book
  /\ req[s].op = "resize" =>
       \A c \in req[s].removed : copy[c] # "LOANED" /\ BookOf[c] = req[s].book
  /\ req[s].op = "request" => loans[req[s].copy][req[s].loan].status = "ACTIVE"
  /\ req[s].op = "return" => Open(req[s].copy, req[s].loan)
  /\ req[s].op = "remove" => ~BookOnLoan(req[s].book)
  /\ req[s].op = "cart" => ~deletedAt[req[s].user]

\* A checkout has claimed a copy of every book of the cart that it has left behind.
CartTaken(s) ==
  req[s].op = "checkout" =>
    \A b \in cart[req[s].user] : b \in req[s].todo \/ \E c \in Claimed(s) : BookOf[c] = b

\* The copies a transaction has written are of the book it is counting, or of one
\* whose counters it has written; an administrator's are none on loan.
WrittenCopies(s) ==
  \A c \in Copies : hold[s][c] # Unwritten =>
    /\ (pc[s] \in Sync /\ BookOf[c] = req[s].book) \/ pend[s][BookOf[c]] # NoCounter
    /\ req[s].op \in {"create", "status", "resize"} => copy[c] # "LOANED"

\* The counts a transaction has made are what it sees, and it has written counters of
\* books that exist only.
Total(s, b) == Cardinality(InService(s, b))
Available(s, b) == Cardinality(OnShelf(s, b))
CountsTrue(s) ==
  /\ pc[s] \in {"countAvailable", "write"} => req[s].total = Total(s, req[s].book)
  /\ pc[s] = "write" => req[s].available = Available(s, req[s].book)
  /\ \A b \in Books : pend[s][b] # NoCounter =>
       /\ req[s].op \in Lenders /\ bookRow[b] \in {"LIVE", "ARCHIVED"}
       /\ \/ pc[s] \in Sync /\ b = req[s].book
          \/ pend[s][b].total = Total(s, b) /\ pend[s][b].available = Available(s, b)

\* A book that is not catalogued yet has no copies.
NotYetStocked == \A b \in Books : bookRow[b] = "NONE" => \A c \in CopiesOf(b) : copy[c] = "NONE"

Served(s) == StillTrue(s) /\ CartTaken(s) /\ WrittenCopies(s) /\ CountsTrue(s)

Tidy == CopyMatchesLoans /\ CountersMatchCopies /\ DeactivatedCartEmpty /\ NotYetStocked

Serial == OneAtATime /\ Lent /\ Tidy /\ \A s \in Slots : Served(s)

-----------------------------------------------------------------------------
\* What is known of the one request.
LEMMA SerialFacts ==
  ASSUME Serial, NEW s \in Slots
  PROVE  /\ TablesOK /\ SlotsOK /\ Lent /\ Locking /\ Typed
         /\ req[s] \in Request /\ OpAt(pc[s], req[s].op) /\ Given(pc[s], req[s])
         /\ \A c \in Copies : Lock(s, c)
         /\ StillTrue(s) /\ CartTaken(s) /\ WrittenCopies(s) /\ CountsTrue(s)
BY AtStatement DEF Serial, Lent, Locking, Typed, TypeOK, SlotsOK, Served

\* The only request is that of s.
LEMMA OnlyRequest ==
  ASSUME OneAtATime, NEW s \in Slots, Served(s)'
  PROVE  (\A t \in Slots : Served(t))'
<1> SUFFICES ASSUME NEW t \in Slots PROVE Served(t)'
  OBVIOUS
<1>1. t = s
  BY DEF OneAtATime
<1> QED
  BY <1>1

\* Between requests there is nothing to be true.
LEMMA ServedAtRest ==
  ASSUME NEW s \in Slots, pc[s] = "idle", req[s] = NoRequest,
         \A c \in Copies : hold[s][c] = Unwritten,
         \A b \in Books : pend[s][b] = NoCounter
  PROVE  Served(s)
<1>1. StillTrue(s) /\ CartTaken(s)
  BY DEF StillTrue, CartTaken, NoRequest
<1>2. WrittenCopies(s) /\ CountsTrue(s)
  BY DEF WrittenCopies, CountsTrue, NoRequest
<1> QED
  BY <1>1, <1>2 DEF Served

LEMMA ServedFinish ==
  ASSUME Lent, NEW s \in Slots, Finish(s)
  PROVE  Served(s)'
<1>1. /\ pc'[s] = "idle" /\ req'[s] = NoRequest
      /\ \A c \in Copies : hold'[s][c] = Unwritten
      /\ \A b \in Books : pend'[s][b] = NoCounter
  BY DEF Finish, At, Lent, Locking, Typed, TypeOK, SlotsOK
<1>2. StillTrue(s)' /\ CartTaken(s)'
  BY <1>1 DEF StillTrue, CartTaken, NoRequest
<1>3. WrittenCopies(s)' /\ CountsTrue(s)'
  BY <1>1 DEF WrittenCopies, CountsTrue, NoRequest
<1> QED
  BY <1>2, <1>3 DEF Served

LEMMA SerialInit == OneAtATime /\ Init => Serial
<1> SUFFICES ASSUME OneAtATime, Init PROVE Serial
  OBVIOUS
<1> USE DEF Init, DatabaseInit
<1>1. \A s \in Slots : Served(s)
  BY ServedAtRest
<1>2. CopyMatchesLoans
  BY DEF CopyMatchesLoans, OpenLoans, LoansOf
<1>3. CountersMatchCopies
  <2> SUFFICES ASSUME NEW b \in Books
               PROVE  /\ count[b].total =
                           Cardinality({c \in CopiesOf(b) : copy[c] \in CopyStatus \ {"ARCHIVED"}})
                      /\ count[b].available =
                           Cardinality({c \in CopiesOf(b) : copy[c] = "AVAILABLE"})
    BY DEF CountersMatchCopies
  <2>1. /\ {c \in CopiesOf(b) : copy[c] \in CopyStatus \ {"ARCHIVED"}} = CopiesOf(b) \cap Stock
        /\ {c \in CopiesOf(b) : copy[c] = "AVAILABLE"} = CopiesOf(b) \cap Stock
    BY RowAssumption DEF CopiesOf, CopyStatus
  <2> QED
    BY <2>1
<1>4. DeactivatedCartEmpty /\ NotYetStocked
  BY DEF DeactivatedCartEmpty, NotYetStocked, CopiesOf
<1> QED
  BY <1>1, <1>2, <1>3, <1>4, LentInit DEF Serial, Tidy

-----------------------------------------------------------------------------
(* Calls.                                                                  *)

\* An idle slot holds nothing.
LEMMA RestHolds ==
  ASSUME Serial, NEW s \in Slots, Idle(s)
  PROVE  /\ req[s].op = "none"
         /\ \A c \in Copies : hold[s][c] = Unwritten
         /\ \A b \in Books : pend[s][b] = NoCounter
<1>1. req[s].op = "none"
  BY SerialFacts DEF Idle, OpAt, Sync
<1>2. \A c \in Copies : hold[s][c] = Unwritten
  BY SerialFacts DEF Lock, Idle, Sync
<1>3. \A b \in Books : pend[s][b] = NoCounter
  BY <1>1, SerialFacts DEF CountsTrue, Lenders
<1> QED
  BY <1>1, <1>2, <1>3

\* A call is served as soon as what it recorded is true.
LEMMA ServedBegin ==
  ASSUME Serial, NEW s \in Slots, NEW label \in PCs \ Sync, NEW r, Begin(s, label, r),
         StillTrue(s)', CartTaken(s)'
  PROVE  Served(s)'
<1>1. /\ pc'[s] = label /\ hold' = hold /\ pend' = pend /\ Idle(s)
  BY SerialFacts DEF Begin, At, SlotsOK
<1>2. /\ \A c \in Copies : hold'[s][c] = Unwritten
      /\ \A b \in Books : pend'[s][b] = NoCounter
  BY <1>1, RestHolds
<1>3. WrittenCopies(s)' /\ CountsTrue(s)'
  BY <1>1, <1>2 DEF WrittenCopies, CountsTrue, Sync
<1> QED
  BY <1>3 DEF Served

LEMMA ServedLoanCall ==
  ASSUME Serial, NEW s \in Slots, LoanCall(s)
  PROVE  Served(s)'
<1>0. SlotsOK /\ "claim" \in PCs \ Sync /\ "request" \in PCs \ Sync /\ "return" \in PCs \ Sync
  BY SerialFacts DEF PCs, Sync
<1>1. ASSUME NEW u \in Users, NEW b \in Books, NEW w \in Copies \cup {NoCopy},
             Borrow(s, u, b, w) \/ AdminBorrow(s, u, b, w)
      PROVE  Served(s)'
  <2> DEFINE r == [NoRequest EXCEPT !.op = "borrow", !.user = u, !.todo = {b}, !.copy = w,
                     !.author = authorOf]
  <2>1. Begin(s, "claim", r)
    BY <1>1 DEF Borrow, AdminBorrow, BorrowRequest
  <2>2. r.op = "borrow"
    BY DEF NoRequest
  <2> HIDE DEF r
  <2>3. req'[s].op = "borrow" /\ pc'[s] = "claim"
    BY <1>0, <2>1, <2>2 DEF Begin, At, SlotsOK
  <2>4. StillTrue(s)' /\ CartTaken(s)'
    BY <2>3 DEF StillTrue, CartTaken
  <2> QED
    BY <1>0, <2>1, <2>4, ServedBegin
<1>2. ASSUME NEW u \in Users, Checkout(s, u) PROVE Served(s)'
  <2> DEFINE r == [NoRequest EXCEPT !.op = "checkout", !.user = u, !.todo = cart[u],
                     !.author = authorOf]
  <2>1. Begin(s, "claim", r)
    BY <1>2 DEF Checkout
  <2>2. r.op = "checkout" /\ r.user = u /\ r.todo = cart[u]
    BY DEF NoRequest
  <2> HIDE DEF r
  <2>3. req'[s] = r /\ pc'[s] = "claim" /\ cart' = cart
    BY <1>0, <2>1 DEF Begin, At, SlotsOK, tables
  <2>4. StillTrue(s)' /\ CartTaken(s)'
    BY <2>2, <2>3 DEF StillTrue, CartTaken
  <2> QED
    BY <1>0, <2>1, <2>4, ServedBegin
<1>3. ASSUME NEW u \in Users, NEW c \in Copies, NEW i \in LoansOf(c), AskReturn(s, u, c, i)
      PROVE  Served(s)'
  <2> DEFINE r == [NoRequest EXCEPT !.op = "request", !.copy = c, !.loan = i]
  <2>1. Begin(s, "request", r) /\ loans[c][i].status = "ACTIVE"
    BY <1>3 DEF AskReturn, Returnable
  <2>2. r.op = "request" /\ r.copy = c /\ r.loan = i
    BY DEF NoRequest
  <2> HIDE DEF r
  <2>3. req'[s] = r /\ pc'[s] = "request" /\ loans' = loans
    BY <1>0, <2>1 DEF Begin, At, SlotsOK, tables, loanTables
  <2>4. StillTrue(s)' /\ CartTaken(s)'
    BY <2>1, <2>2, <2>3 DEF StillTrue, CartTaken
  <2> QED
    BY <1>0, <2>1, <2>4, ServedBegin
<1>4. ASSUME NEW c \in Copies, NEW i \in OpenLoans(c),
             Begin(s, "return", [NoRequest EXCEPT !.op = "return", !.copy = c, !.loan = i])
      PROVE  Served(s)'
  <2> DEFINE r == [NoRequest EXCEPT !.op = "return", !.copy = c, !.loan = i]
  <2>2. r.op = "return" /\ r.copy = c /\ r.loan = i
    BY DEF NoRequest
  <2>1. Begin(s, "return", r) /\ Open(c, i)
    BY <1>4 DEF OpenLoans
  <2> HIDE DEF r
  <2>3. req'[s] = r /\ pc'[s] = "return" /\ loans' = loans
    BY <1>0, <2>1 DEF Begin, At, SlotsOK, tables, loanTables
  <2>4. StillTrue(s)' /\ CartTaken(s)'
    BY <2>1, <2>2, <2>3 DEF StillTrue, CartTaken, Open
  <2> QED
    BY <1>0, <2>1, <2>4, ServedBegin
<1> QED
  BY <1>1, <1>2, <1>3, <1>4 DEF LoanCall, ScanReturn, AdminReturn, OpenLoans, LoansOf

LEMMA ServedInventoryCall ==
  ASSUME Serial, NEW s \in Slots, InventoryCall(s)
  PROVE  Served(s)'
<1>0. /\ SlotsOK /\ "create" \in PCs \ Sync /\ "remove" \in PCs \ Sync
      /\ "resize" \in PCs \ Sync /\ "status" \in PCs \ Sync /\ "move" \in PCs \ Sync
  BY SerialFacts DEF PCs, Sync
<1>1. ASSUME NEW b \in Books, CreateCopy(s, b) PROVE Served(s)'
  <2> DEFINE r == [NoRequest EXCEPT !.op = "create", !.book = b]
  <2>1. Begin(s, "create", r)
    BY <1>1 DEF CreateCopy
  <2>2. r.op = "create"
    BY DEF NoRequest
  <2> HIDE DEF r
  <2>3. req'[s] = r /\ pc'[s] = "create"
    BY <1>0, <2>1 DEF Begin, At, SlotsOK
  <2>4. StillTrue(s)' /\ CartTaken(s)'
    BY <2>2, <2>3 DEF StillTrue, CartTaken
  <2> QED
    BY <1>0, <2>1, <2>4, ServedBegin
<1>2. ASSUME NEW b \in Books, RemoveBook(s, b) PROVE Served(s)'
  <2> DEFINE r == [NoRequest EXCEPT !.op = "remove", !.book = b]
  <2>1. Begin(s, "remove", r) /\ ~BookOnLoan(b)
    BY <1>2 DEF RemoveBook
  <2>2. r.op = "remove" /\ r.book = b
    BY DEF NoRequest
  <2> HIDE DEF r
  <2>3. req'[s] = r /\ pc'[s] = "remove" /\ loans' = loans
    BY <1>0, <2>1 DEF Begin, At, SlotsOK, tables, loanTables
  <2>4. StillTrue(s)' /\ CartTaken(s)'
    BY <2>1, <2>2, <2>3
    DEF StillTrue, CartTaken, BookOnLoan, OpenLoans, LoansOf, Open, CopiesOf
  <2> QED
    BY <1>0, <2>1, <2>4, ServedBegin
<1>3. ASSUME NEW b \in Books, NEW n \in 1 .. MaxSize, Resize(s, b, n) PROVE Served(s)'
  <2>1. PICK excess, added : Begin(s, "resize",
             [NoRequest EXCEPT !.op = "resize", !.book = b, !.size = n,
                !.removed = Highest(Removable(InService(s, b)), excess), !.added = added])
    BY <1>3 DEF Resize
  <2> DEFINE S == Highest(Removable(InService(s, b)), excess)
             r == [NoRequest EXCEPT !.op = "resize", !.book = b, !.size = n,
                     !.removed = S, !.added = added]
  <2>2. \A c \in S : copy[c] # "LOANED" /\ BookOf[c] = b
    BY DEF Highest, Removable, InService, CopiesOf
  <2>3. Begin(s, "resize", r)
    BY <2>1
  <2> HIDE DEF S
  <2>4. r.op = "resize" /\ r.book = b /\ r.removed = S
    BY DEF NoRequest
  <2> HIDE DEF r
  <2>5. req'[s] = r /\ pc'[s] = "resize" /\ copy' = copy
    BY <1>0, <2>3 DEF Begin, At, SlotsOK, tables, copyTables
  <2>6. StillTrue(s)' /\ CartTaken(s)'
    BY <2>2, <2>4, <2>5 DEF StillTrue, CartTaken
  <2> QED
    BY <1>0, <2>3, <2>6, ServedBegin
<1>4. ASSUME NEW c \in Copies, NEW new \in CopyStatus, UpdateStatus(s, c, new) PROVE Served(s)'
  <2> DEFINE r == [NoRequest EXCEPT !.op = "status", !.copy = c, !.book = BookOf[c],
                     !.new = new]
  <2>1. Begin(s, "status", r) /\ copy[c] # "LOANED"
    BY <1>4 DEF UpdateStatus, MaySet
  <2>2. r.op = "status" /\ r.copy = c /\ r.book = BookOf[c]
    BY DEF NoRequest
  <2> HIDE DEF r
  <2>3. req'[s] = r /\ pc'[s] = "status" /\ copy' = copy
    BY <1>0, <2>1 DEF Begin, At, SlotsOK, tables, copyTables
  <2>4. StillTrue(s)' /\ CartTaken(s)'
    BY <2>1, <2>2, <2>3 DEF StillTrue, CartTaken
  <2> QED
    BY <1>0, <2>1, <2>4, ServedBegin
<1>5. ASSUME NEW b \in Books, NEW n \in 1 .. MaxSize, CreateBook(s, b, n) PROVE Served(s)'
  <2>1. Idle(s) /\ UNCHANGED <<pc, req, hold, pend>>
    BY <1>5 DEF CreateBook
  <2>2. /\ req'[s].op = "none" /\ pc'[s] = "idle"
        /\ \A c \in Copies : hold'[s][c] = Unwritten
        /\ \A d \in Books : pend'[s][d] = NoCounter
    BY <2>1, RestHolds DEF Idle
  <2> QED
    BY <2>2 DEF Served, StillTrue, CartTaken, WrittenCopies, CountsTrue
<1>6. ASSUME NEW b \in Books, NEW a \in Authors, MoveBook(s, b, a) PROVE Served(s)'
  <2> DEFINE r == [NoRequest EXCEPT !.op = "move", !.book = b, !.author = authorOf,
                     !.newAuthor = a]
  <2>1. Begin(s, "move", r)
    BY <1>6 DEF MoveBook
  <2>2. r.op = "move"
    BY DEF NoRequest
  <2> HIDE DEF r
  <2>3. req'[s] = r /\ pc'[s] = "move"
    BY <1>0, <2>1 DEF Begin, At, SlotsOK
  <2>4. StillTrue(s)' /\ CartTaken(s)'
    BY <2>2, <2>3 DEF StillTrue, CartTaken
  <2> QED
    BY <1>0, <2>1, <2>4, ServedBegin
<1> QED
  BY <1>1, <1>2, <1>3, <1>4, <1>5, <1>6, TargetAssumption DEF InventoryCall, BookCall, CopyCall

LEMMA ServedCartCall ==
  ASSUME Serial, NEW s \in Slots, CartCall(s)
  PROVE  Served(s)'
<1>0. SlotsOK /\ "cartAdd" \in PCs \ Sync
  BY SerialFacts DEF PCs, Sync
<1>1. ASSUME NEW u \in Users, NEW b \in Books, AddToCart(s, u, b) PROVE Served(s)'
  <2> DEFINE r == [NoRequest EXCEPT !.op = "cart", !.user = u, !.book = b]
  <2>1. Begin(s, "cartAdd", r) /\ ~deletedAt[u]
    BY <1>1 DEF AddToCart, IsUser
  <2>2. r.op = "cart" /\ r.user = u
    BY DEF NoRequest
  <2> HIDE DEF r
  <2>3. req'[s] = r /\ pc'[s] = "cartAdd" /\ deletedAt' = deletedAt
    BY <1>0, <2>1 DEF Begin, At, SlotsOK, tables, userTables
  <2>4. StillTrue(s)' /\ CartTaken(s)'
    BY <2>1, <2>2, <2>3 DEF StillTrue, CartTaken
  <2> QED
    BY <1>0, <2>1, <2>4, ServedBegin
<1>2. ASSUME NEW u \in Users, NEW items, RemoveItems(s, u, items) PROVE Served(s)'
  <2>1. Idle(s) /\ UNCHANGED <<pc, req, hold, pend>>
    BY <1>2 DEF RemoveItems
  <2>2. /\ req'[s].op = "none" /\ pc'[s] = "idle"
        /\ \A c \in Copies : hold'[s][c] = Unwritten
        /\ \A d \in Books : pend'[s][d] = NoCounter
    BY <2>1, RestHolds DEF Idle
  <2> QED
    BY <2>2 DEF Served, StillTrue, CartTaken, WrittenCopies, CountsTrue
<1> QED
  BY <1>1, <1>2 DEF CartCall, RemoveItem, ClearCart

LEMMA ServedMembersCall ==
  ASSUME Serial, NEW s \in Slots, MembersCall(s)
  PROVE  Served(s)'
<1>1. ASSUME NEW label \in {"role", "delete"}, NEW r, Begin(s, label, r), r.op = label
      PROVE  Served(s)'
  <2>1. req'[s] = r /\ pc'[s] = label
    BY <1>1, SerialFacts DEF Begin, At, SlotsOK
  <2>2. StillTrue(s)' /\ CartTaken(s)'
    BY <1>1, <2>1 DEF StillTrue, CartTaken
  <2>3. label \in PCs \ Sync
    BY DEF PCs, Sync
  <2> QED
    BY <1>1, <2>2, <2>3, ServedBegin
<1>2. ASSUME NEW a \in Users, NEW u \in Users, NEW x \in Roles, ChangeRole(s, a, u, x)
      PROVE  Served(s)'
  <2> DEFINE r == [NoRequest EXCEPT !.op = "role", !.user = u, !.new = x]
  <2>1. Begin(s, "role", r) /\ r.op = "role"
    BY <1>2 DEF ChangeRole, NoRequest
  <2> HIDE DEF r
  <2> QED
    BY <1>1, <2>1
<1>3. ASSUME NEW a \in Users, NEW u \in Users, DeleteUser(s, a, u) PROVE Served(s)'
  <2> DEFINE r == [NoRequest EXCEPT !.op = "delete", !.user = u]
  <2>1. Begin(s, "delete", r) /\ r.op = "delete"
    BY <1>3 DEF DeleteUser, NoRequest
  <2> HIDE DEF r
  <2> QED
    BY <1>1, <2>1
<1> QED
  BY <1>2, <1>3 DEF MembersCall

-----------------------------------------------------------------------------
(* Statements before the commit.                                           *)

\* What a statement sees of a book it has written no copy of, and of one when nothing
\* changes.
LEMMA SameCounts ==
  ASSUME NEW s \in Slots, NEW b \in Books, \A c \in CopiesOf(b) : Sees(s, c)' = Sees(s, c)
  PROVE  Total(s, b)' = Total(s, b) /\ Available(s, b)' = Available(s, b)
<1>1. InService(s, b)' = InService(s, b) /\ OnShelf(s, b)' = OnShelf(s, b)
  BY DEF InService, OnShelf, CopiesOf
<1> QED
  BY <1>1 DEF Total, Available

\* What a request read stays true while it only goes on.
LEMMA StillTrueOn ==
  ASSUME Serial, NEW s \in Slots, UNCHANGED tables,
         req'[s].op = req[s].op, req'[s].loan = req[s].loan,
         req'[s].removed = req[s].removed, req'[s].user = req[s].user,
         req[s].op \notin Lenders => req'[s].copy = req[s].copy,
         req[s].op \in {"status", "resize", "remove"} => req'[s].book = req[s].book
  PROVE  StillTrue(s)'
<1>1. copy' = copy /\ loans' = loans /\ deletedAt' = deletedAt
  BY DEF tables, copyTables, loanTables, userTables
<1>2. StillTrue(s)
  BY SerialFacts
<1> QED
  BY <1>1, <1>2
  DEF StillTrue, Lenders, Open, BookOnLoan, OpenLoans, LoansOf, CopiesOf

\* The two counts.
LEMMA ServedCounting ==
  ASSUME Serial, NEW s \in Slots, CountTotal(s) \/ CountAvailable(s)
  PROVE  Served(s)'
<1>0. /\ req[s] \in Request /\ SlotsOK /\ req[s].book \in Books
      /\ StillTrue(s) /\ CartTaken(s) /\ WrittenCopies(s) /\ CountsTrue(s)
  BY SerialFacts DEF CountTotal, CountAvailable, Given, Sync
<1>1. /\ UNCHANGED <<tables, hold, pend>>
      /\ req'[s].op = req[s].op /\ req'[s].loan = req[s].loan
      /\ req'[s].removed = req[s].removed /\ req'[s].user = req[s].user
      /\ req'[s].copy = req[s].copy /\ req'[s].book = req[s].book
      /\ req'[s].todo = req[s].todo
      /\ pc[s] \in Sync /\ pc'[s] \in {"countAvailable", "write"}
  BY <1>0 DEF CountTotal, CountAvailable, At, SlotsOK, Request, Sync
<1>2. StillTrue(s)'
  BY <1>1, StillTrueOn
<1>3. CartTaken(s)' /\ WrittenCopies(s)'
  BY <1>0, <1>1 DEF CartTaken, WrittenCopies, Claimed, tables, copyTables, Sync
<1>4. CountsTrue(s)'
  <2>1. \A b \in Books : Total(s, b)' = Total(s, b) /\ Available(s, b)' = Available(s, b)
    BY <1>1, SameCounts DEF Sees, tables, copyTables
  <2>2. bookRow' = bookRow
    BY <1>1 DEF tables, bookTables
  <2>3. CASE CountTotal(s)
    <3>1. pc'[s] = "countAvailable" /\ req'[s].total = Total(s, req[s].book)
      BY <1>0, <2>3 DEF CountTotal, At, SlotsOK, Request, Total
    <3> QED
      BY <1>0, <1>1, <2>1, <2>2, <3>1 DEF CountsTrue, Sync
  <2>4. CASE CountAvailable(s)
    <3>1. /\ pc[s] = "countAvailable" /\ pc'[s] = "write" /\ req'[s].total = req[s].total
          /\ req'[s].available = Available(s, req[s].book)
      BY <1>0, <2>4 DEF CountAvailable, At, SlotsOK, Request, Available
    <3> QED
      BY <1>0, <1>1, <2>1, <2>2, <3>1 DEF CountsTrue, Sync
  <2> QED
    BY <2>3, <2>4
<1> QED
  BY <1>2, <1>3, <1>4 DEF Served

\* A transaction that has written nothing.
LEMMA NothingWritten ==
  ASSUME Serial, NEW s \in Slots, pc[s] \notin Sync \cup {"claim"}
  PROVE  /\ req[s].op \notin Lenders
         /\ \A c \in Copies : hold[s][c] = Unwritten
         /\ \A b \in Books : pend[s][b] = NoCounter
<1>1. req[s].op \notin Lenders
  BY SerialFacts DEF OpAt, Lenders
<1>2. \A c \in Copies : hold[s][c] = Unwritten
  BY SerialFacts DEF Lock
<1>3. \A b \in Books : pend[s][b] = NoCounter
  BY <1>1, SerialFacts DEF CountsTrue
<1> QED
  BY <1>1, <1>2, <1>3

\* The locks on the accounts.
LEMMA ServedLocking ==
  ASSUME Serial, NEW s \in Slots, LockRole(s) \/ LockUser(s)
  PROVE  Served(s)'
<1>0. req[s] \in Request /\ SlotsOK /\ OpAt(pc[s], req[s].op)
  BY SerialFacts
<1>1. /\ pc[s] \in {"role", "delete"} /\ UNCHANGED <<tables, hold, pend>>
      /\ req[s].op = pc[s] /\ req'[s].op = req[s].op /\ req'[s].user = req[s].user
      /\ pc'[s] \in {"roleWrite", "deleteWrite"}
  BY <1>0 DEF LockRole, LockUser, At, SlotsOK, Request, OpAt, Sync
<1>2. /\ \A c \in Copies : hold'[s][c] = Unwritten
      /\ \A b \in Books : pend'[s][b] = NoCounter
  BY <1>1, NothingWritten DEF Sync
<1>3. StillTrue(s)'
  BY <1>1 DEF StillTrue
<1>4. CartTaken(s)' /\ WrittenCopies(s)' /\ CountsTrue(s)'
  BY <1>1, <1>2 DEF CartTaken, WrittenCopies, CountsTrue
<1> QED
  BY <1>3, <1>4 DEF Served

\* A copy of the next book is claimed.
LEMMA ServedClaim ==
  ASSUME Serial, NEW s \in Slots, ClaimCopy(s)
  PROVE  Served(s)'
<1>0. /\ req[s] \in Request /\ SlotsOK /\ OpAt(pc[s], req[s].op) /\ pc[s] = "claim"
      /\ CartTaken(s) /\ WrittenCopies(s) /\ CountsTrue(s) /\ UNCHANGED <<tables, pend>>
  BY SerialFacts DEF ClaimCopy
<1>1. PICK b \in req[s].todo, c \in Copies :
        /\ BookOf[c] = b
        /\ hold' = [hold EXCEPT ![s][c] = "LOANED"]
        /\ req' = [req EXCEPT ![s] = [req[s] EXCEPT !.book = b, !.copy = c,
                                                    !.todo = req[s].todo \ {b}]]
  BY DEF ClaimCopy, CopiesOf
<1>2. /\ req[s].op \in Lenders /\ c \in Copies /\ BookOf[c] = b /\ b \in Books
      /\ pc'[s] = "count" /\ req'[s].op = req[s].op /\ req'[s].user = req[s].user
      /\ req'[s].book = b /\ req'[s].todo = req[s].todo \ {b}
      /\ hold'[s][c] = "LOANED" /\ \A d \in Copies \ {c} : hold'[s][d] = hold[s][d]
      /\ cart' = cart /\ copy' = copy /\ bookRow' = bookRow /\ pend' = pend
  BY <1>0, <1>1 DEF ClaimCopy, At, SlotsOK, Request, OpAt, Sync, Lenders, CopiesOf, tables,
                    copyTables, bookTables
<1>3. StillTrue(s)'
  BY <1>2 DEF StillTrue, Lenders
<1>4. CartTaken(s)'
  <2> SUFFICES ASSUME req[s].op = "checkout", NEW x \in cart[req[s].user], x # b
               PROVE  x \in req[s].todo \ {b} \/ \E d \in Claimed(s)' : BookOf[d] = x
    BY <1>2 DEF CartTaken, Claimed
  <2>1. CASE x \in req[s].todo
    BY <2>1
  <2>2. ASSUME NEW d \in Claimed(s), BookOf[d] = x PROVE d \in Claimed(s)'
    BY <1>2 DEF Claimed
  <2> QED
    BY <1>0, <2>1, <2>2 DEF CartTaken
<1>5. WrittenCopies(s)'
  <2> SUFFICES ASSUME NEW d \in Copies, hold'[s][d] # Unwritten
               PROVE  BookOf[d] = b \/ pend[s][BookOf[d]] # NoCounter
    BY <1>2 DEF WrittenCopies, Sync, Lenders
  <2>1. CASE d # c
    BY <1>0, <1>2, <2>1 DEF WrittenCopies, Sync
  <2> QED
    BY <1>2, <2>1
<1>6. CountsTrue(s)'
  <2>1. ASSUME NEW x \in Books, x # b, pend[s][x] # NoCounter
        PROVE  /\ bookRow[x] \in {"LIVE", "ARCHIVED"}
               /\ pend[s][x].total = Total(s, x)' /\ pend[s][x].available = Available(s, x)'
    <3>1. \A d \in CopiesOf(x) : Sees(s, d)' = Sees(s, d)
      BY <1>2, <2>1 DEF CopiesOf, Sees
    <3>2. Total(s, x)' = Total(s, x) /\ Available(s, x)' = Available(s, x)
      BY <3>1, SameCounts
    <3> QED
      BY <1>0, <2>1, <3>2 DEF CountsTrue, Sync
  <2>2. pend[s][b] # NoCounter => bookRow[b] \in {"LIVE", "ARCHIVED"}
    BY <1>0, <1>2 DEF CountsTrue
  <2> QED
    BY <1>2, <2>1, <2>2 DEF CountsTrue, Sync
<1> QED
  BY <1>3, <1>4, <1>5, <1>6 DEF Served

\* The counters of a book are written, more books are to come.
LEMMA ServedLendNext ==
  ASSUME Serial, NEW s \in Slots, LendNext(s)
  PROVE  Served(s)'
<1>0. /\ req[s] \in Request /\ SlotsOK /\ pc[s] = "write"
      /\ CartTaken(s) /\ WrittenCopies(s) /\ CountsTrue(s) /\ UNCHANGED <<tables, hold>>
      /\ req[s].op \in Lenders /\ bookRow[req[s].book] \in {"LIVE", "ARCHIVED"}
      /\ CheckBook(Counted(s))
  BY SerialFacts DEF LendNext, Lending, CanSync, Lenders
<1>1. PICK b \in Books : b = req[s].book
  BY <1>0, SerialFacts DEF Given, Sync
<1>2. PICK n : n = Counted(s)
  OBVIOUS
<1>3. n.total = Total(s, b) /\ n.available = Available(s, b) /\ n # NoCounter
  BY <1>0, <1>1, <1>2 DEF CountsTrue, Counted, CheckBook, NoCounter
<1>4. /\ pc'[s] = "claim" /\ req'[s].op = req[s].op /\ req'[s].user = req[s].user
      /\ req'[s].todo = req[s].todo
      /\ pend'[s][b] = n /\ \A x \in Books \ {b} : pend'[s][x] = pend[s][x]
      /\ hold' = hold /\ cart' = cart /\ copy' = copy /\ bookRow' = bookRow
  BY <1>0, <1>1, <1>2 DEF LendNext, At, SlotsOK, Request, tables, copyTables, bookTables
<1>5. StillTrue(s)'
  BY <1>0, <1>4 DEF StillTrue, Lenders
<1>6. CartTaken(s)'
  BY <1>0, <1>4 DEF CartTaken, Claimed
<1>7. WrittenCopies(s)'
  <2> SUFFICES ASSUME NEW d \in Copies, hold[s][d] # Unwritten
               PROVE  pend'[s][BookOf[d]] # NoCounter
    BY <1>0, <1>4 DEF WrittenCopies, Lenders
  <2>1. BookOf[d] \in Books /\ (BookOf[d] = b \/ pend[s][BookOf[d]] # NoCounter)
    BY <1>0, <1>1, RowAssumption DEF WrittenCopies
  <2> QED
    BY <1>3, <1>4, <2>1
<1>8. CountsTrue(s)'
  <2>1. \A x \in Books : Total(s, x)' = Total(s, x) /\ Available(s, x)' = Available(s, x)
    BY <1>4, SameCounts DEF Sees
  <2> SUFFICES ASSUME NEW x \in Books, pend'[s][x] # NoCounter
               PROVE  /\ bookRow[x] \in {"LIVE", "ARCHIVED"}
                      /\ pend'[s][x].total = Total(s, x) /\ pend'[s][x].available = Available(s, x)
    BY <1>0, <1>4, <2>1 DEF CountsTrue
  <2>2. CASE x = b
    BY <1>0, <1>1, <1>3, <1>4, <2>2
  <2>3. CASE x # b
    BY <1>0, <1>1, <1>4, <2>3 DEF CountsTrue
  <2> QED
    BY <2>2, <2>3
<1> QED
  BY <1>5, <1>6, <1>7, <1>8 DEF Served

\* The first write of the other transactions, of copies of one book.
LEMMA FirstWrite ==
  ASSUME Serial, NEW s \in Slots, UNCHANGED tables,
         pc[s] \notin Sync \cup {"claim"}, pc'[s] = "count",
         pend'[s] = pend[s], req'[s].op = req[s].op,
         \A c \in Copies : hold'[s][c] # Unwritten =>
           /\ BookOf[c] = req'[s].book
           /\ req[s].op \in {"create", "status", "resize"} => copy[c] # "LOANED",
         StillTrue(s)'
  PROVE  Served(s)'
<1>1. req[s].op \notin Lenders /\ \A b \in Books : pend'[s][b] = NoCounter
  BY NothingWritten
<1>2. copy' = copy
  BY DEF tables, copyTables
<1>3. CartTaken(s)'
  BY <1>1 DEF CartTaken, Lenders
<1>4. WrittenCopies(s)' /\ CountsTrue(s)'
  BY <1>1, <1>2 DEF WrittenCopies, CountsTrue, Sync
<1> QED
  BY <1>3, <1>4 DEF Served

LEMMA ServedReturn ==
  ASSUME Serial, NEW s \in Slots, ReturnCopy(s)
  PROVE  Served(s)'
<1>0. /\ req[s] \in Request /\ SlotsOK /\ pc[s] = "return" /\ req[s].op = "return"
      /\ UNCHANGED <<tables, pend>> /\ pc[s] \notin Sync \cup {"claim"}
  BY SerialFacts DEF ReturnCopy, OpAt, Sync
<1>1. PICK c \in Copies : c = req[s].copy
  BY <1>0, SerialFacts DEF Given
<1>2. /\ pc'[s] = "count" /\ pend'[s] = pend[s] /\ req'[s].op = req[s].op
      /\ req'[s].copy = req[s].copy /\ req'[s].book = BookOf[c]
      /\ req'[s].loan = req[s].loan
      /\ req'[s].removed = req[s].removed /\ req'[s].user = req[s].user
      /\ \A d \in Copies \ {c} : hold'[s][d] = hold[s][d]
  BY <1>0, <1>1 DEF ReturnCopy, ReleaseCopy, At, SlotsOK, Request
<1>3. StillTrue(s)'
  BY <1>0, <1>2, StillTrueOn
<1>4. \A d \in Copies : hold'[s][d] # Unwritten => BookOf[d] = req'[s].book
  BY <1>0, <1>2, NothingWritten
<1> QED
  BY <1>0, <1>2, <1>3, <1>4, FirstWrite

LEMMA ServedStock ==
  ASSUME Serial, NEW s \in Slots, InsertCopy(s) \/ WriteStatus(s) \/ WriteCopies(s)
  PROVE  Served(s)'
<1>0. /\ req[s] \in Request /\ SlotsOK /\ UNCHANGED <<tables, pend, req>>
      /\ pc[s] \in {"create", "status", "resize"} /\ req[s].op = pc[s] /\ pc'[s] = "count"
      /\ Given(pc[s], req[s]) /\ StillTrue(s)
  BY SerialFacts DEF InsertCopy, WriteStatus, WriteCopies, OpAt, Sync, At, SlotsOK
<1>1. \A c \in Copies : hold[s][c] = Unwritten
  BY <1>0, NothingWritten DEF Sync
<1>2. StillTrue(s)'
  BY <1>0, StillTrueOn
<1>3. \A c \in Copies : hold'[s][c] # Unwritten => BookOf[c] = req[s].book /\ copy[c] # "LOANED"
  <2>1. CASE InsertCopy(s)
    <3>1. PICK c \in Unused(s, req[s].book) : hold' = [hold EXCEPT ![s][c] = "AVAILABLE"]
      BY <2>1 DEF InsertCopy, Lowest
    <3>2. BookOf[c] = req[s].book /\ copy[c] = "NONE"
      BY <3>1 DEF Unused, CopiesOf
    <3> QED
      BY <1>0, <1>1, <3>1, <3>2 DEF SlotsOK
  <2>2. CASE WriteStatus(s)
    <3>1. req[s].op = "status"
      BY <1>0, <2>2 DEF WriteStatus
    <3>2. BookOf[req[s].copy] = req[s].book /\ copy[req[s].copy] # "LOANED"
      BY <1>0, <3>1 DEF StillTrue
    <3>3. \A c \in Copies : c # req[s].copy => hold'[s][c] = hold[s][c]
      BY <1>0, <2>2 DEF WriteStatus, SlotsOK
    <3> QED
      BY <1>1, <3>2, <3>3
  <2>3. CASE WriteCopies(s)
    <3>1. PICK new \in SUBSET Unused(s, req[s].book) :
            hold' = [hold EXCEPT ![s] =
                      [c \in Copies |-> IF c \in req[s].removed THEN "ARCHIVED"
                                        ELSE IF c \in new THEN "AVAILABLE"
                                        ELSE Unwritten]]
      BY <2>3 DEF WriteCopies, Lowest
    <3>2. \A c \in new : BookOf[c] = req[s].book /\ copy[c] = "NONE"
      BY DEF Unused, CopiesOf
    <3>3. req[s].op = "resize"
      BY <1>0, <2>3 DEF WriteCopies
    <3>4. \A c \in req[s].removed : BookOf[c] = req[s].book /\ copy[c] # "LOANED"
      BY <1>0, <3>3 DEF StillTrue
    <3>5. \A c \in Copies : hold'[s][c] # Unwritten => c \in req[s].removed \/ c \in new
      BY <1>0, <3>1 DEF SlotsOK
    <3> QED
      BY <3>2, <3>4, <3>5
  <2> QED
    BY <2>1, <2>2, <2>3
<1> QED
  BY <1>0, <1>2, <1>3, FirstWrite DEF Sync

LEMMA ServedStep ==
  ASSUME Serial, NEW s \in Slots, Call(s) \/ Step(s) \/ Rollback(s)
  PROVE  Served(s)'
<1>1. CASE Call(s)
  BY <1>1, ServedLoanCall, ServedInventoryCall, ServedCartCall, ServedMembersCall DEF Call
<1>2. CASE Finish(s)
  BY <1>2, ServedFinish DEF Serial
<1>3. CASE CountTotal(s) \/ CountAvailable(s) \/ LockRole(s) \/ LockUser(s)
  BY <1>3, ServedCounting, ServedLocking
<1>4. CASE ClaimCopy(s) \/ LendNext(s) \/ ReturnCopy(s)
  BY <1>4, ServedClaim, ServedLendNext, ServedReturn
<1>5. CASE InsertCopy(s) \/ WriteStatus(s) \/ WriteCopies(s)
  BY <1>5, ServedStock
<1> QED
  BY <1>1, <1>2, <1>3, <1>4, <1>5
  DEF Step, Rollback, LoanStep, InventoryStep, CartStep, MembersStep, CommitLoans, RequestReturn,
      CommitReturn, CommitStock, WriteMove, ArchiveBook, DeleteBook, InsertItem, WriteRole,
      WriteDelete

-----------------------------------------------------------------------------
(* The tables.                                                             *)

\* The steps that change tables.
LEMMA TableSteps ==
  ASSUME NEW s \in Slots, Call(s) \/ Step(s) \/ Rollback(s)
  PROVE  \/ CommitLoans(s) \/ CommitReturn(s) \/ CommitStock(s) \/ RequestReturn(s)
         \/ \E b \in Books, n \in 1 .. MaxSize : CreateBook(s, b, n)
         \/ \E b \in Books : WriteMove(s, b) \/ ArchiveBook(s, b) \/ DeleteBook(s, b)
         \/ \E u \in Users, items \in SUBSET Books : RemoveItems(s, u, items)
         \/ InsertItem(s) \/ WriteRole(s) \/ WriteDelete(s)
         \/ UNCHANGED tables
<1>1. CASE Call(s)
  BY <1>1, CallKinds DEF Begin
<1>2. CASE Rollback(s)
  BY <1>2 DEF Rollback
<1>3. CASE Step(s)
  <2>1. CASE CountTotal(s) \/ CountAvailable(s) \/ ClaimCopy(s) \/ LendNext(s) \/ ReturnCopy(s)
    BY <2>1 DEF CountTotal, CountAvailable, ClaimCopy, LendNext, ReturnCopy
  <2>2. CASE InsertCopy(s) \/ WriteStatus(s) \/ WriteCopies(s) \/ LockRole(s) \/ LockUser(s)
    BY <2>2 DEF InsertCopy, WriteStatus, WriteCopies, LockRole, LockUser
  <2> QED
    BY <1>3, <2>1, <2>2 DEF Step, LoanStep, InventoryStep, CartStep, MembersStep
<1> QED
  BY <1>1, <1>2, <1>3

\* The book of a removal has no copy on loan, for it had none when they were counted.
LEMMA RemovalAlone ==
  ASSUME Serial, NEW s \in Slots, NEW b \in Books, ArchiveBook(s, b) \/ DeleteBook(s, b)
  PROVE  /\ b = req[s].book /\ req[s].op = "remove"
         /\ \A c \in CopiesOf(b) : OpenLoans(c) = {} /\ copy[c] # "LOANED"
         /\ \A c \in Copies : BookOf[c] # b => copy'[c] = copy[c]
         /\ \A d \in Books \ {b} : bookRow'[d] = bookRow[d] /\ count'[d] = count[d]
         /\ bookRow'[b] \in {"ARCHIVED", "GONE"}
         /\ loans' = loans
<1>0. TablesOK /\ StillTrue(s) /\ OpAt(pc[s], req[s].op)
  BY SerialFacts
<1>1. b = req[s].book /\ pc[s] = "remove"
  BY DEF ArchiveBook, DeleteBook, CanRemove
<1>2. req[s].op = "remove"
  BY <1>0, <1>1 DEF OpAt, Sync
<1>3. ~BookOnLoan(b)
  BY <1>0, <1>1, <1>2 DEF StillTrue
<1>4. \A c \in CopiesOf(b) : OpenLoans(c) = {} /\ copy[c] # "LOANED"
  BY <1>3 DEF BookOnLoan, Serial, Tidy, CopyMatchesLoans, CopiesOf
<1>5. /\ \A c \in Copies : BookOf[c] # b => copy'[c] = copy[c]
      /\ \A d \in Books \ {b} : bookRow'[d] = bookRow[d] /\ count'[d] = count[d]
      /\ bookRow'[b] \in {"ARCHIVED", "GONE"} /\ loans' = loans
  BY <1>0 DEF ArchiveBook, DeleteBook, Withdraw, loanTables, TablesOK
<1> QED
  BY <1>1, <1>2, <1>4, <1>5

\* A new book gets copies that were none before.
LEMMA BookCreated ==
  ASSUME Serial, NEW s \in Slots, NEW b \in Books, NEW n \in 1 .. MaxSize, CreateBook(s, b, n)
  PROVE  /\ bookRow[b] = "NONE" /\ bookRow'[b] = "LIVE"
         /\ \A d \in Books \ {b} : bookRow'[d] = bookRow[d] /\ count'[d] = count[d]
         /\ \A c \in Copies : BookOf[c] # b => copy'[c] = copy[c]
         /\ \A c \in CopiesOf(b) : copy[c] = "NONE" /\ copy'[c] \in {"NONE", "AVAILABLE"}
         /\ count'[b].total = Cardinality({c \in CopiesOf(b) : copy'[c] = "AVAILABLE"})
         /\ count'[b].available = Cardinality({c \in CopiesOf(b) : copy'[c] = "AVAILABLE"})
         /\ loans' = loans
<1>0. TablesOK /\ NotYetStocked
  BY SerialFacts DEF Serial, Tidy
<1>1. PICK new \in SUBSET Unused(s, b) :
        Cardinality(new) = n /\ copy' = [c \in Copies |-> IF c \in new THEN "AVAILABLE" ELSE copy[c]]
  BY DEF CreateBook, Lowest
<1>2. \A c \in CopiesOf(b) : c \in Copies /\ BookOf[c] = b /\ copy[c] = "NONE"
  BY <1>0 DEF CreateBook, NotYetStocked, CopiesOf
<1>3. new \subseteq CopiesOf(b)
  BY DEF Unused
<1>4. /\ \A c \in Copies : BookOf[c] # b => copy'[c] = copy[c]
      /\ \A c \in CopiesOf(b) : copy'[c] \in {"NONE", "AVAILABLE"}
      /\ {c \in CopiesOf(b) : copy'[c] = "AVAILABLE"} = new
  BY <1>1, <1>2, <1>3 DEF CopiesOf
<1>5. /\ bookRow[b] = "NONE" /\ bookRow'[b] = "LIVE" /\ loans' = loans
      /\ \A d \in Books \ {b} : bookRow'[d] = bookRow[d] /\ count'[d] = count[d]
      /\ count'[b] = [total |-> n, available |-> n]
  BY <1>0 DEF CreateBook, TablesOK, loanTables
<1>6. count'[b].total = n /\ count'[b].available = n
  BY <1>5
<1> QED
  BY <1>1, <1>2, <1>4, <1>5, <1>6

\* A commit of inventory writes the copies of books that exist, and of a copy whose
\* book it has not counted nothing.
LEMMA InventoryCommitted ==
  ASSUME Serial, NEW s \in Slots, CommitLoans(s) \/ CommitReturn(s) \/ CommitStock(s)
  PROVE  /\ CommitInventory(s) /\ bookRow' = bookRow /\ pc[s] = "write"
         /\ req[s].book \in Books /\ bookRow[req[s].book] \in {"LIVE", "ARCHIVED"}
         /\ \A c \in Copies : hold[s][c] # Unwritten =>
              bookRow[BookOf[c]] \in {"LIVE", "ARCHIVED"}
<1>1. /\ CommitInventory(s) /\ bookRow' = bookRow /\ pc[s] = "write"
      /\ bookRow[req[s].book] \in {"LIVE", "ARCHIVED"}
  BY DEF CommitLoans, CommitReturn, CommitStock, Lending, CanSync
<1>2. req[s].book \in Books
  BY <1>1, SerialFacts DEF Given, Sync
<1>3. \A c \in Copies : BookOf[c] \in Books
  BY RowAssumption
<1>4. WrittenCopies(s) /\ CountsTrue(s)
  BY SerialFacts
<1> QED
  BY <1>1, <1>2, <1>3, <1>4 DEF WrittenCopies, CountsTrue

\* No administrator's transaction takes a copy that is on loan.
LEMMA LoanedStays ==
  ASSUME Serial, NEW s \in Slots, NEW c \in Copies, copy[c] = "LOANED",
         \/ CommitStock(s)
         \/ \E b \in Books, n \in 1 .. MaxSize : CreateBook(s, b, n)
         \/ \E b \in Books : ArchiveBook(s, b) \/ DeleteBook(s, b)
  PROVE  copy'[c] = "LOANED"
<1>1. CASE CommitStock(s)
  <2>1. hold[s][c] = Unwritten
    BY <1>1, SerialFacts DEF CommitStock, WrittenCopies
  <2> QED
    BY <1>1, <2>1 DEF CommitStock, CommitInventory, Sees
<1>2. ASSUME NEW b \in Books, NEW n \in 1 .. MaxSize, CreateBook(s, b, n)
      PROVE  copy'[c] = "LOANED"
  BY <1>2, BookCreated DEF CopiesOf
<1>3. ASSUME NEW b \in Books, ArchiveBook(s, b) \/ DeleteBook(s, b)
      PROVE  copy'[c] = "LOANED"
  BY <1>3, RemovalAlone DEF CopiesOf
<1> QED
  BY <1>1, <1>2, <1>3

\* A request to return finds its loan as it was, the open one of its copy.
LEMMA RequestedLoan ==
  ASSUME Serial, NEW s \in Slots, RequestReturn(s),
         NEW c, c = req[s].copy, NEW i, i = req[s].loan
  PROVE  loans[c][i].status = "ACTIVE" /\ OpenLoans(c) = {i} /\ OpenLoans(c)' = {i}
<1>1. req[s].op = "request"
  BY SerialFacts DEF RequestReturn, OpAt, Sync
<1>2. loans[c][i].status = "ACTIVE"
  BY <1>1, SerialFacts DEF StillTrue
<1>3. i \in DOMAIN loans[c] /\ OpenLoans(c) \subseteq {i} /\ OpenLoans(c)' = {i}
  BY SerialFacts, ReturnRequested
<1>4. i \in OpenLoans(c)
  BY <1>2, <1>3 DEF OpenLoans, LoansOf, Open, Unreturned
<1> QED
  BY <1>2, <1>3, <1>4

\* A return finds its loan open, the only one, and leaves none open.
LEMMA ReturnedLoan ==
  ASSUME Serial, NEW s \in Slots, CommitReturn(s),
         NEW c, c = req[s].copy, NEW i, i = req[s].loan
  PROVE  c \in Copies /\ i \in OpenLoans(c) /\ OpenLoans(c)' = {}
<1>1. Open(c, i)
  BY SerialFacts DEF StillTrue, CommitReturn
<1>2. /\ c \in Copies /\ i \in DOMAIN loans[c]
      /\ loans'[c][i].status = "RETURNED"
      /\ \A j \in DOMAIN loans[c] : j # i => loans'[c][j] = loans[c][j]
      /\ DOMAIN loans'[c] = DOMAIN loans[c]
  BY SerialFacts, ReturnCommitted
<1>3. i \in OpenLoans(c)
  BY <1>1, <1>2 DEF OpenLoans, LoansOf
<1>4. \A j \in OpenLoans(c) : j = i
  BY <1>2, <1>3, SerialFacts DEF Lent, OneUnreturnedLoanPerCopy
<1>5. ASSUME NEW j \in OpenLoans(c)' PROVE FALSE
  <2>1. j \in DOMAIN loans[c] /\ loans'[c][j].status \in Unreturned
    BY <1>2, <1>5 DEF OpenLoans, LoansOf, Open
  <2>2. j # i
    BY <1>2, <2>1 DEF Unreturned
  <2>3. j \in OpenLoans(c)
    BY <1>2, <2>1, <2>2 DEF OpenLoans, LoansOf, Open
  <2> QED
    BY <1>4, <2>2, <2>3
<1> QED
  BY <1>2, <1>3, <1>5

LEMMA MatchingStep ==
  ASSUME Serial, NEW s \in Slots, Call(s) \/ Step(s) \/ Rollback(s)
  PROVE  CopyMatchesLoans'
<1> SUFFICES ASSUME NEW c \in Copies
             PROVE  copy'[c] = "LOANED" <=> OpenLoans(c)' # {}
  BY DEF CopyMatchesLoans
<1>0. Lent /\ (copy[c] = "LOANED" <=> OpenLoans(c) # {})
  BY DEF Serial, Tidy, CopyMatchesLoans
<1>1. CASE copy'[c] = copy[c] /\ loans'[c] = loans[c]
  BY <1>0, <1>1 DEF OpenLoans, LoansOf, Open
<1>2. CASE CommitLoans(s)
  <2>1. CASE c \in Claimed(s)
    <3>1. PICK n : n = Len(loans[c]) + 1
      OBVIOUS
    <3>2. copy'[c] = "LOANED" /\ OpenLoans(c)' = {n}
      BY <1>0, <1>2, <2>1, <3>1, LoansCommitted
    <3> QED
      BY <3>2
  <2>2. CASE c \notin Claimed(s)
    BY <1>0, <1>1, <1>2, <2>2, LoansCommitted
  <2> QED
    BY <2>1, <2>2
<1>3. CASE RequestReturn(s)
  <2>1. PICK d, i : d = req[s].copy /\ i = req[s].loan
    OBVIOUS
  <2>2. OpenLoans(d) = {i} /\ OpenLoans(d)' = {i}
    BY <1>3, <2>1, RequestedLoan
  <2>3. copy' = copy /\ \A e \in Copies \ {d} : loans'[e] = loans[e]
    BY <1>0, <1>3, <2>1, ReturnRequested
  <2> QED
    BY <1>0, <1>1, <2>2, <2>3
<1>4. CASE CommitReturn(s)
  <2>1. PICK d, i : d = req[s].copy /\ i = req[s].loan
    OBVIOUS
  <2>2. OpenLoans(d)' = {}
    BY <1>4, <2>1, ReturnedLoan
  <2>3. /\ copy'[d] = "AVAILABLE"
        /\ \A e \in Copies \ {d} : loans'[e] = loans[e] /\ copy'[e] = copy[e]
    BY <1>0, <1>4, <2>1, ReturnCommitted
  <2> QED
    BY <1>1, <2>2, <2>3
<1>5. CASE \/ CommitStock(s)
           \/ \E b \in Books, n \in 1 .. MaxSize : CreateBook(s, b, n)
           \/ \E b \in Books : ArchiveBook(s, b) \/ DeleteBook(s, b)
  <2>1. loans' = loans /\ (copy'[c] = "LOANED" => copy[c] = "LOANED")
    BY <1>0, <1>5, StockCommitted
  <2>2. copy[c] = "LOANED" => copy'[c] = "LOANED"
    BY <1>5, LoanedStays
  <2> QED
    BY <1>0, <2>1, <2>2 DEF OpenLoans, LoansOf, Open
<1> QED
  BY <1>1, <1>2, <1>3, <1>4, <1>5, StepKinds

\* A step that keeps the rows of copies and books.
LEMMA StockSteps ==
  ASSUME NEW s \in Slots, Call(s) \/ Step(s) \/ Rollback(s)
  PROVE  \/ CommitLoans(s) \/ CommitReturn(s) \/ CommitStock(s)
         \/ \E b \in Books, n \in 1 .. MaxSize : CreateBook(s, b, n)
         \/ \E b \in Books : ArchiveBook(s, b) \/ DeleteBook(s, b)
         \/ UNCHANGED <<copy, bookRow, count>>
<1>1. CASE RequestReturn(s) \/ InsertItem(s) \/ WriteRole(s) \/ WriteDelete(s)
  BY <1>1 DEF RequestReturn, InsertItem, WriteRole, WriteDelete, copyTables, bookTables
<1>2. ASSUME NEW u, NEW items, RemoveItems(s, u, items)
      PROVE  UNCHANGED <<copy, bookRow, count>>
  BY <1>2 DEF RemoveItems, copyTables, bookTables
<1>3. CASE UNCHANGED tables
  BY <1>3 DEF tables, copyTables, bookTables
<1>4. ASSUME NEW b \in Books, WriteMove(s, b)
      PROVE  UNCHANGED <<copy, bookRow, count>>
  BY <1>4 DEF WriteMove, copyTables
<1> QED
  BY <1>1, <1>2, <1>3, <1>4, TableSteps

LEMMA StockedStep ==
  ASSUME Serial, NEW s \in Slots, Call(s) \/ Step(s) \/ Rollback(s)
  PROVE  NotYetStocked'
<1> SUFFICES ASSUME NEW b \in Books, bookRow'[b] = "NONE", NEW c \in CopiesOf(b)
             PROVE  copy'[c] = "NONE"
  BY DEF NotYetStocked, CopiesOf
<1>0. /\ bookRow[b] = "NONE" => copy[c] = "NONE"
      /\ c \in Copies /\ BookOf[c] = b
  BY DEF Serial, Tidy, NotYetStocked, CopiesOf
<1>1. CASE CommitLoans(s) \/ CommitReturn(s) \/ CommitStock(s)
  BY <1>0, <1>1, InventoryCommitted DEF CommitInventory, Sees
<1>2. ASSUME NEW d \in Books, NEW n \in 1 .. MaxSize, CreateBook(s, d, n)
      PROVE  copy'[c] = "NONE"
  BY <1>0, <1>2, BookCreated
<1>3. ASSUME NEW d \in Books, ArchiveBook(s, d) \/ DeleteBook(s, d)
      PROVE  copy'[c] = "NONE"
  BY <1>0, <1>3, RemovalAlone
<1>4. CASE UNCHANGED <<copy, bookRow, count>>
  BY <1>0, <1>4
<1> QED
  BY <1>1, <1>2, <1>3, <1>4, StockSteps

\* The counters of b agree with its copies.
Agree(b) ==
  /\ count[b].total = Cardinality({c \in CopiesOf(b) : copy[c] \in CopyStatus \ {"ARCHIVED"}})
  /\ count[b].available = Cardinality({c \in CopiesOf(b) : copy[c] = "AVAILABLE"})

LEMMA AgreementKept ==
  ASSUME NEW b \in Books, Agree(b), count'[b] = count[b],
         \A c \in Copies : BookOf[c] = b => copy'[c] = copy[c]
  PROVE  Agree(b)'
<1>1. /\ {c \in CopiesOf(b) : copy'[c] \in CopyStatus \ {"ARCHIVED"}}
           = {c \in CopiesOf(b) : copy[c] \in CopyStatus \ {"ARCHIVED"}}
      /\ {c \in CopiesOf(b) : copy'[c] = "AVAILABLE"} = {c \in CopiesOf(b) : copy[c] = "AVAILABLE"}
  BY DEF CopiesOf
<1> QED
  BY <1>1 DEF Agree, CopiesOf

\* A commit of inventory leaves each book with counters that agree.
LEMMA AgreementCommitted ==
  ASSUME Serial, NEW s \in Slots, CommitLoans(s) \/ CommitReturn(s) \/ CommitStock(s),
         NEW b \in Books, Agree(b)
  PROVE  Agree(b)'
<1>0. /\ CommitInventory(s) /\ pc[s] = "write" /\ WrittenCopies(s) /\ CountsTrue(s)
      /\ TablesOK /\ SlotsOK
  BY InventoryCommitted, SerialFacts
<1>1. \A c \in Copies : copy'[c] = Sees(s, c)
  BY <1>0 DEF CommitInventory
<1>2. /\ {c \in CopiesOf(b) : copy'[c] \in CopyStatus \ {"ARCHIVED"}} = InService(s, b)
      /\ {c \in CopiesOf(b) : copy'[c] = "AVAILABLE"} = OnShelf(s, b)
  BY <1>1 DEF InService, OnShelf, CopiesOf
<1>3. SUFFICES ASSUME ~ (b # req[s].book /\ pend[s][b] = NoCounter)
               PROVE  count'[b].total = Total(s, b) /\ count'[b].available = Available(s, b)
  <2>1. CASE b # req[s].book /\ pend[s][b] = NoCounter
    <3>1. \A c \in Copies : BookOf[c] = b => hold[s][c] = Unwritten
      BY <1>0, <2>1 DEF WrittenCopies
    <3>2. \A c \in Copies : BookOf[c] = b => copy'[c] = copy[c]
      BY <1>1, <3>1 DEF Sees
    <3>3. count'[b] = count[b]
      BY <1>0, <2>1 DEF CommitInventory
    <3> QED
      BY <3>2, <3>3, AgreementKept
  <2>2. CASE ~ (b # req[s].book /\ pend[s][b] = NoCounter)
    BY <1>2, <1>3, <2>2 DEF Agree, Total, Available, CopiesOf
  <2> QED
    BY <2>1, <2>2
<1>4. CASE b = req[s].book
  <2>1. count'[b] = Counted(s)
    BY <1>0, <1>4 DEF CommitInventory
  <2> QED
    BY <1>0, <1>4, <2>1 DEF Counted, CountsTrue
<1>5. CASE b # req[s].book
  <2>1. count'[b] = pend[s][b]
    BY <1>0, <1>3, <1>5 DEF CommitInventory
  <2> QED
    BY <1>0, <1>3, <1>5, <2>1 DEF CountsTrue
<1> QED
  BY <1>4, <1>5

LEMMA CountersStep ==
  ASSUME Serial, NEW s \in Slots, Call(s) \/ Step(s) \/ Rollback(s)
  PROVE  CountersMatchCopies'
<1> SUFFICES ASSUME NEW b \in Books, bookRow'[b] = "LIVE"
             PROVE  Agree(b)'
  BY DEF CountersMatchCopies, Agree
<1>0. bookRow[b] = "LIVE" => Agree(b)
  BY DEF Serial, Tidy, CountersMatchCopies, Agree
<1>1. CASE CommitLoans(s) \/ CommitReturn(s) \/ CommitStock(s)
  BY <1>0, <1>1, InventoryCommitted, AgreementCommitted
<1>2. ASSUME NEW d \in Books, NEW n \in 1 .. MaxSize, CreateBook(s, d, n)
      PROVE  Agree(b)'
  <2>1. CASE b # d
    BY <1>0, <1>2, <2>1, BookCreated, AgreementKept
  <2>2. CASE b = d
    <3>1. /\ \A c \in CopiesOf(b) : copy'[c] \in {"NONE", "AVAILABLE"}
          /\ count'[b].total = Cardinality({c \in CopiesOf(b) : copy'[c] = "AVAILABLE"})
          /\ count'[b].available = Cardinality({c \in CopiesOf(b) : copy'[c] = "AVAILABLE"})
      BY <1>2, <2>2, BookCreated
    <3>2. {c \in CopiesOf(b) : copy'[c] \in CopyStatus \ {"ARCHIVED"}}
            = {c \in CopiesOf(b) : copy'[c] = "AVAILABLE"}
      BY <3>1 DEF CopyStatus
    <3> QED
      BY <3>1, <3>2 DEF Agree, CopiesOf
  <2> QED
    BY <2>1, <2>2
<1>3. ASSUME NEW d \in Books, ArchiveBook(s, d) \/ DeleteBook(s, d)
      PROVE  Agree(b)'
  <2>1. b # d
    BY <1>3, RemovalAlone
  <2> QED
    BY <1>0, <1>3, <2>1, RemovalAlone, AgreementKept
<1>4. CASE UNCHANGED <<copy, bookRow, count>>
  BY <1>0, <1>4, AgreementKept
<1> QED
  BY <1>1, <1>2, <1>3, <1>4, StockSteps

LEMMA CartsStep ==
  ASSUME Serial, NEW s \in Slots, Call(s) \/ Step(s) \/ Rollback(s)
  PROVE  DeactivatedCartEmpty'
<1> SUFFICES ASSUME NEW u \in Users, deletedAt'[u] PROVE cart'[u] = {}
  BY DEF DeactivatedCartEmpty
<1>0. TablesOK /\ (deletedAt[u] => cart[u] = {})
  BY SerialFacts DEF Serial, Tidy, DeactivatedCartEmpty
<1>1. CASE CommitLoans(s)
  BY <1>0, <1>1 DEF CommitLoans, userTables, TablesOK
<1>2. CASE CommitReturn(s) \/ CommitStock(s) \/ RequestReturn(s) \/ WriteRole(s) \/ UNCHANGED tables
  <2>1. deletedAt' = deletedAt /\ cart' = cart
    BY <1>2 DEF CommitReturn, CommitStock, RequestReturn, WriteRole, tables, userTables
  <2> QED
    BY <1>0, <2>1
<1>3. ASSUME NEW b \in Books, NEW n \in 1 .. MaxSize, CreateBook(s, b, n) PROVE cart'[u] = {}
  BY <1>0, <1>3 DEF CreateBook, userTables
<1>4. ASSUME NEW b \in Books, WriteMove(s, b) \/ ArchiveBook(s, b) \/ DeleteBook(s, b)
      PROVE  cart'[u] = {}
  BY <1>0, <1>4 DEF WriteMove, ArchiveBook, DeleteBook, userTables
<1>5. ASSUME NEW v \in Users, NEW items, RemoveItems(s, v, items) PROVE cart'[u] = {}
  BY <1>0, <1>5 DEF RemoveItems, userTables, TablesOK
<1>6. CASE InsertItem(s)
  <2>1. req[s].op = "cart"
    BY <1>6, SerialFacts DEF InsertItem, OpAt, Sync
  <2>2. ~deletedAt[req[s].user] /\ deletedAt' = deletedAt
    BY <1>6, <2>1, SerialFacts DEF InsertItem, StillTrue, userTables
  <2>3. u # req[s].user
    BY <2>2
  <2> QED
    BY <1>0, <1>6, <2>2, <2>3 DEF InsertItem, TablesOK
<1>7. CASE WriteDelete(s)
  BY <1>0, <1>7 DEF WriteDelete, EmptyCart, TablesOK
<1> QED
  BY <1>1, <1>2, <1>3, <1>4, <1>5, <1>6, <1>7, TableSteps

LEMMA SerialNext == Serial /\ [Next]_vars => Serial'
<1> SUFFICES ASSUME Serial, [Next]_vars PROVE Serial'
  OBVIOUS
<1>0. OneAtATime' /\ Lent'
  BY LentNext DEF Serial, OneAtATime
<1>1. ASSUME NEW s \in Slots, Call(s) \/ Step(s) \/ Rollback(s) PROVE Serial'
  <2>1. (\A t \in Slots : Served(t))'
    BY <1>1, ServedStep, OnlyRequest DEF Serial
  <2>2. Tidy'
    BY <1>1, MatchingStep, CountersStep, CartsStep, StockedStep DEF Tidy
  <2> QED
    BY <1>0, <2>1, <2>2 DEF Serial
<1>2. CASE UNCHANGED vars
  <2>0. Tidy /\ UNCHANGED <<copy, loans, deletedAt, cart, bookRow, count>>
    BY <1>2 DEF Serial, vars, tables, userTables, copyTables, bookTables, loanTables
  <2>1. Tidy'
    <3>1. CountersMatchCopies'
      <4> SUFFICES ASSUME NEW b \in Books, bookRow'[b] = "LIVE" PROVE Agree(b)'
        BY DEF CountersMatchCopies, Agree
      <4>1. Agree(b)
        BY <2>0 DEF Tidy, CountersMatchCopies, Agree
      <4> QED
        BY <2>0, <4>1, AgreementKept
    <3>2. CopyMatchesLoans'
      BY <2>0 DEF Tidy, CopyMatchesLoans, OpenLoans, LoansOf, Open
    <3>3. DeactivatedCartEmpty' /\ NotYetStocked'
      BY <2>0 DEF Tidy, DeactivatedCartEmpty, NotYetStocked, CopiesOf
    <3> QED
      BY <3>1, <3>2, <3>3 DEF Tidy
  <2>2. ASSUME NEW s \in Slots PROVE Served(s)'
    <3>1. /\ UNCHANGED <<copy, loans, deletedAt, cart, bookRow, pc, req, hold, pend>>
          /\ Served(s)
      BY <1>2 DEF Serial, vars, tables, userTables, copyTables, bookTables, loanTables
    <3>2. StillTrue(s)' /\ CartTaken(s)' /\ WrittenCopies(s)'
      BY <3>1 DEF Served, StillTrue, CartTaken, WrittenCopies, Open, BookOnLoan, OpenLoans,
                  LoansOf, CopiesOf, Claimed
    <3>3. CountsTrue(s)'
      BY <3>1 DEF Served, CountsTrue, Total, Available, InService, OnShelf, Sees, CopiesOf
    <3> QED
      BY <3>2, <3>3 DEF Served
  <2> QED
    BY <1>0, <2>1, <2>2 DEF Serial
<1> QED
  BY <1>1, <1>2 DEF Next

\* Requests served one at a time keep the tables in agreement, and find them so.
THEOREM AlwaysSerial == OneAtATime /\ Spec => []Serial
BY SerialInit, SerialNext, PTL DEF Spec

-----------------------------------------------------------------------------
(* What agrees.                                                            *)

\* Served one at a time, requests leave a loan open exactly while its copy is marked
\* LOANED: borrow, returnLoan, the status changes and the resizes of books included.
THEOREM CopiesMatchLoans == OneAtATime /\ Spec => []CopyMatchesLoans
<1>1. Serial => CopyMatchesLoans
  BY DEF Serial, Tidy
<1> QED
  BY <1>1, AlwaysSerial, PTL

\* Served one at a time, requests leave totalCopies and availableCopies of every book
\* in the catalogue what syncBookInventory would count.
THEOREM CountersAgree == OneAtATime /\ Spec => []CountersMatchCopies
<1>1. Serial => CountersMatchCopies
  BY DEF Serial, Tidy
<1> QED
  BY <1>1, AlwaysSerial, PTL

\* Served one at a time, requests leave the cart of a deactivated user empty.
THEOREM DeactivatedCartsEmpty == OneAtATime /\ Spec => []DeactivatedCartEmpty
<1>1. Serial => DeactivatedCartEmpty
  BY DEF Serial, Tidy
<1> QED
  BY <1>1, AlwaysSerial, PTL

-----------------------------------------------------------------------------
(* What no request does.                                                   *)

LEMMA ReturnedStays ==
  ASSUME Serial, NEW s \in Slots, Call(s) \/ Step(s) \/ Rollback(s),
         NEW c \in Copies, NEW i \in LoansOf(c), loans[c][i].status = "RETURNED"
  PROVE  loans'[c][i].status = "RETURNED"
<1>0. Lent /\ i \in DOMAIN loans[c]
  BY DEF Serial, LoansOf
<1>1. CASE CommitLoans(s)
  BY <1>0, <1>1, LoansCommitted
<1>2. CASE RequestReturn(s)
  <2>1. PICK d, j : d = req[s].copy /\ j = req[s].loan
    OBVIOUS
  <2>2. /\ \A k \in DOMAIN loans[d] : k # j => loans'[d][k] = loans[d][k]
        /\ \A e \in Copies \ {d} : loans'[e] = loans[e]
    BY <1>0, <1>2, <2>1, ReturnRequested
  <2>3. loans[d][j].status = "ACTIVE"
    BY <1>2, <2>1, RequestedLoan
  <2> QED
    BY <1>0, <2>2, <2>3
<1>3. CASE CommitReturn(s)
  <2>1. PICK d, j : d = req[s].copy /\ j = req[s].loan
    OBVIOUS
  <2>2. /\ loans'[d][j].status = "RETURNED"
        /\ \A k \in DOMAIN loans[d] : k # j => loans'[d][k] = loans[d][k]
        /\ \A e \in Copies \ {d} : loans'[e] = loans[e]
    BY <1>0, <1>3, <2>1, ReturnCommitted
  <2> QED
    BY <1>0, <2>2
<1>4. CASE loans' = loans
  BY <1>4
<1> QED
  BY <1>0, <1>1, <1>2, <1>3, <1>4, StepKinds, StockCommitted

\* Served one at a time, no request reopens a loan that was returned, though
\* requestReturn updates it by its id whatever its status has become.
THEOREM ReturnedStaysReturned == OneAtATime /\ Spec => ReturnedIsFinal
<1> DEFINE Final == \A c \in Copies : \A i \in LoansOf(c) :
             loans[c][i].status = "RETURNED" => loans'[c][i].status = "RETURNED"
<1>1. Serial /\ [Next]_vars => [Final]_vars
  <2> SUFFICES ASSUME Serial, Next PROVE Final
    OBVIOUS
  <2> QED
    BY ReturnedStays DEF Next
<1> QED
  BY <1>1, AlwaysSerial, PTL DEF Spec, ReturnedIsFinal

LEMMA LoanedLeaves ==
  ASSUME Serial, NEW s \in Slots, Call(s) \/ Step(s) \/ Rollback(s),
         NEW c \in Copies, copy[c] = "LOANED", copy'[c] # "LOANED"
  PROVE  /\ copy'[c] = "AVAILABLE"
         /\ \E i \in OpenLoans(c) : loans'[c][i].status = "RETURNED"
<1>0. Lent
  BY DEF Serial
<1>1. ~CommitLoans(s)
  BY <1>0, LoansCommitted
<1>2. ~RequestReturn(s)
  BY DEF RequestReturn, copyTables
<1>3. CommitReturn(s)
  BY <1>1, <1>2, StepKinds, LoanedStays
<1>4. PICK d, i : d = req[s].copy /\ i = req[s].loan
  OBVIOUS
<1>5. /\ copy'[d] = "AVAILABLE" /\ loans'[d][i].status = "RETURNED"
      /\ \A e \in Copies \ {d} : copy'[e] = copy[e]
  BY <1>0, <1>3, <1>4, ReturnCommitted
<1>6. i \in OpenLoans(d)
  BY <1>3, <1>4, ReturnedLoan
<1> QED
  BY <1>5, <1>6

\* Served one at a time, requests end the status LOANED by a return alone: neither a
\* status change nor a resize nor a removal takes the copy away from its loan.
THEOREM LoanedEndsOnlyByReturn == OneAtATime /\ Spec => LoanedEndsByReturn
<1> DEFINE Ends == \A c \in Copies : copy[c] = "LOANED" /\ copy'[c] # "LOANED" =>
             /\ copy'[c] = "AVAILABLE"
             /\ \E i \in OpenLoans(c) : loans'[c][i].status = "RETURNED"
<1>1. Serial /\ [Next]_vars => [Ends]_vars
  <2> SUFFICES ASSUME Serial, Next PROVE Ends
    OBVIOUS
  <2> QED
    BY LoanedLeaves DEF Next
<1> QED
  BY <1>1, AlwaysSerial, PTL DEF Spec, LoanedEndsByReturn

LEMMA CheckoutLends ==
  ASSUME Serial, NEW t \in Slots, Call(t) \/ Step(t) \/ Rollback(t),
         NEW u \in Users, NEW s \in Slots,
         req[s].op = "checkout", req[s].user = u, loans' # loans
  PROVE  /\ cart'[u] = {}
         /\ \A b \in cart[u] : \E c \in CopiesOf(b) :
              Len(loans'[c]) > Len(loans[c]) /\ loans'[c][Len(loans'[c])].user = u
<1>0. t = s /\ TablesOK /\ OpAt(pc[s], req[s].op) /\ CartTaken(s) /\ Lent
  BY SerialFacts DEF Serial, OneAtATime
<1>1. CommitLoans(s)
  <2>1. ~RequestReturn(s) /\ ~CommitReturn(s)
    BY <1>0 DEF RequestReturn, CommitReturn, OpAt, Sync
  <2> QED
    BY <1>0, <2>1, StepKinds, StockCommitted
<1>2. cart'[u] = {} /\ req[s].todo = {}
  BY <1>0, <1>1 DEF CommitLoans, LastBook, TablesOK
<1>3. ASSUME NEW b \in cart[u]
      PROVE  \E c \in CopiesOf(b) :
               Len(loans'[c]) > Len(loans[c]) /\ loans'[c][Len(loans'[c])].user = u
  <2>1. PICK c \in Claimed(s) : BookOf[c] = b
    BY <1>0, <1>2 DEF CartTaken
  <2>2. c \in CopiesOf(b) /\ c \in Copies
    BY <2>1 DEF Claimed, CopiesOf
  <2>3. loans[c] \in Seq(Loan) /\ loans'[c] = Append(loans[c],
                [user |-> u, status |-> "ACTIVE", author |-> Credited(s, c)])
    BY <1>0, <1>1, <2>1, <2>2 DEF CommitLoans, Lend, TablesOK
  <2>4. Len(loans'[c]) = Len(loans[c]) + 1 /\ Len(loans[c]) \in Nat
    BY <2>3
  <2>5. loans'[c][Len(loans[c]) + 1].user = u
    BY <2>3
  <2> QED
    BY <2>2, <2>4, <2>5
<1> QED
  BY <1>2, <1>3

\* Served one at a time, a checkout lends every book of the cart it empties, in the
\* one commit of borrowFromCart.
THEOREM CheckoutsLendCarts == OneAtATime /\ Spec => CheckoutLendsCart
<1> DEFINE Lends == \A u \in Users, s \in Slots :
             req[s].op = "checkout" /\ req[s].user = u /\ loans' # loans =>
               /\ cart'[u] = {}
               /\ \A b \in cart[u] : \E c \in CopiesOf(b) :
                    Len(loans'[c]) > Len(loans[c]) /\ loans'[c][Len(loans'[c])].user = u
<1>1. Serial /\ [Next]_vars => [Lends]_vars
  <2> SUFFICES ASSUME Serial, Next PROVE Lends
    OBVIOUS
  <2> QED
    BY CheckoutLends DEF Next
<1> QED
  BY <1>1, AlwaysSerial, PTL DEF Spec, CheckoutLendsCart
=============================================================================
