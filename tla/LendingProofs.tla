--------------------------- MODULE LendingProofs ----------------------------
(***************************************************************************)
(* What the lending desk guarantees however requests interleave.           *)
(***************************************************************************)
EXTENDS LibraryTypes

\* Two transactions never have the same copy or the same book written: their row
\* locks, which every other lemma uses.
RowLocksExclusive ==
  \A s, t \in Slots : s # t =>
    /\ \A c \in Copies : hold[s][c] = Unwritten \/ hold[t][c] = Unwritten
    /\ \A b \in Books : pend[s][b] = NoCounter \/ pend[t][b] = NoCounter

Locking == Typed /\ RowLocksExclusive /\ LocksHeld

-----------------------------------------------------------------------------
(* Steps.                                                                  *)

\* A call writes a request in its slot and nothing else, or is one of the two
\* that are served by a single statement.
LEMMA CallKinds ==
  ASSUME NEW s \in Slots, Call(s)
  PROVE  \/ \E label \in PCs \ (Sync \cup {"claim"}) : \E r : Begin(s, label, r)
         \/ \E r : Begin(s, "claim", r) /\ r.op \in Lenders
         \/ \E b \in Books, n \in 1 .. MaxSize : CreateBook(s, b, n)
         \/ \E u \in Users, items \in SUBSET Books : RemoveItems(s, u, items)
<1> USE DEF PCs, Sync
<1>1. CASE LoanCall(s)
  <2>1. ASSUME NEW u \in Users, NEW b \in Books, NEW w \in Copies \cup {NoCopy},
               Borrow(s, u, b, w) \/ AdminBorrow(s, u, b, w)
        PROVE  \E r : Begin(s, "claim", r) /\ r.op \in Lenders
    <3> DEFINE r == [NoRequest EXCEPT !.op = "borrow", !.user = u, !.todo = {b}, !.copy = w,
                                      !.author = authorOf]
    <3>1. Begin(s, "claim", r) /\ r.op \in Lenders
      BY <2>1 DEF Borrow, AdminBorrow, BorrowRequest, NoRequest, Lenders
    <3> QED
      BY <3>1
  <2>2. ASSUME NEW u \in Users, Checkout(s, u)
        PROVE  \E r : Begin(s, "claim", r) /\ r.op \in Lenders
    <3> DEFINE r == [NoRequest EXCEPT !.op = "checkout", !.user = u, !.todo = cart[u],
                                      !.author = authorOf]
    <3>1. Begin(s, "claim", r) /\ r.op \in Lenders
      BY <2>2 DEF Checkout, NoRequest, Lenders
    <3> QED
      BY <3>1
  <2>3. ASSUME NEW u \in Users, NEW c \in Copies, NEW i \in LoansOf(c), AskReturn(s, u, c, i)
        PROVE  \E r : Begin(s, "request", r)
    BY <2>3 DEF AskReturn
  <2>4. ASSUME NEW c \in Copies, ScanReturn(s, c) \/ \E i \in LoansOf(c) : AdminReturn(s, c, i)
        PROVE  \E r : Begin(s, "return", r)
    BY <2>4 DEF ScanReturn, AdminReturn
  <2> QED
    BY <1>1, <2>1, <2>2, <2>3, <2>4 DEF LoanCall
<1>2. CASE InventoryCall(s)
  <2>1. ASSUME NEW b \in Books, CreateCopy(s, b)
        PROVE  \E r : Begin(s, "create", r)
    BY <2>1 DEF CreateCopy
  <2>2. ASSUME NEW b \in Books, RemoveBook(s, b)
        PROVE  \E r : Begin(s, "remove", r)
    BY <2>2 DEF RemoveBook
  <2>3. ASSUME NEW b \in Books, NEW n \in 1 .. MaxSize, Resize(s, b, n)
        PROVE  \E r : Begin(s, "resize", r)
    BY <2>3 DEF Resize
  <2>4. ASSUME NEW c \in Copies, NEW new \in CopyStatus, UpdateStatus(s, c, new)
        PROVE  \E r : Begin(s, "status", r)
    BY <2>4 DEF UpdateStatus
  <2>5. ASSUME NEW b \in Books, NEW a \in Authors, MoveBook(s, b, a)
        PROVE  \E r : Begin(s, "move", r)
    BY <2>5 DEF MoveBook
  <2> QED
    BY <1>2, <2>1, <2>2, <2>3, <2>4, <2>5, TargetAssumption DEF InventoryCall, BookCall, CopyCall
<1>3. CASE CartCall(s)
  <2>1. ASSUME NEW u \in Users, NEW b \in Books, AddToCart(s, u, b)
        PROVE  \E r : Begin(s, "cartAdd", r)
    BY <2>1 DEF AddToCart
  <2>2. \A b \in Books : {b} \in SUBSET Books
    OBVIOUS
  <2> QED
    BY <1>3, <2>1, <2>2 DEF CartCall, RemoveItem, ClearCart
<1>4. CASE MembersCall(s)
  <2>1. ASSUME NEW a \in Users, NEW u \in Users, NEW x \in Roles, ChangeRole(s, a, u, x)
        PROVE  \E r : Begin(s, "role", r)
    BY <2>1 DEF ChangeRole
  <2>2. ASSUME NEW a \in Users, NEW u \in Users, DeleteUser(s, a, u)
        PROVE  \E r : Begin(s, "delete", r)
    BY <2>2 DEF DeleteUser
  <2> QED
    BY <1>4, <2>1, <2>2 DEF MembersCall
<1> QED
  BY <1>1, <1>2, <1>3, <1>4 DEF Call

\* The steps that change what is on loan, and all the others.
LEMMA StepKinds ==
  ASSUME NEW s \in Slots, Call(s) \/ Step(s) \/ Rollback(s)
  PROVE  \/ CommitLoans(s)
         \/ RequestReturn(s)
         \/ CommitReturn(s)
         \/ CommitStock(s)
         \/ \E b \in Books, n \in 1 .. MaxSize : CreateBook(s, b, n)
         \/ \E b \in Books : ArchiveBook(s, b) \/ DeleteBook(s, b)
         \/ UNCHANGED <<copy, loans>>
<1> USE DEF tables, copyTables, loanTables
<1>1. CASE Call(s)
  BY <1>1, CallKinds DEF Begin, RemoveItems
<1>2. CASE Rollback(s)
  BY <1>2 DEF Rollback
<1>3. CASE Step(s)
  <2>1. CASE CountTotal(s) \/ CountAvailable(s) \/ ClaimCopy(s) \/ LendNext(s) \/ ReturnCopy(s)
    BY <2>1 DEF CountTotal, CountAvailable, ClaimCopy, LendNext, ReturnCopy
  <2>2. CASE InsertCopy(s) \/ WriteStatus(s) \/ WriteCopies(s)
    BY <2>2 DEF InsertCopy, WriteStatus, WriteCopies
  <2>3. CASE CartStep(s) \/ MembersStep(s)
    BY <2>3 DEF CartStep, InsertItem, MembersStep, LockRole, WriteRole, LockUser, WriteDelete
  <2>4. CASE \E b \in Books : WriteMove(s, b)
    BY <2>4 DEF WriteMove
  <2> QED
    BY <1>3, <2>1, <2>2, <2>3, <2>4 DEF Step, LoanStep, InventoryStep
<1> QED
  BY <1>1, <1>2, <1>3

-----------------------------------------------------------------------------
(* Locks.                                                                  *)

\* A row another transaction has written does not change.
LEMMA LockedRowsStay ==
  ASSUME Locking, NEW s \in Slots, Call(s) \/ Step(s) \/ Rollback(s),
         NEW t \in Slots \ {s}, NEW c \in Copies, hold[t][c] # Unwritten
  PROVE  copy'[c] = copy[c]
<1>1. ~CopyFree(s, c) /\ hold[s][c] = Unwritten
  BY DEF CopyFree, Locking, RowLocksExclusive
<1>2. CASE CommitInventory(s)
  BY <1>1, <1>2 DEF CommitInventory, Sees, Locking, Typed, TypeOK, TablesOK
<1>3. ASSUME NEW b \in Books, NEW n \in 1 .. MaxSize, CreateBook(s, b, n)
      PROVE  copy'[c] = copy[c]
  BY <1>1, <1>3 DEF CreateBook, Unused, Lowest
<1>4. ASSUME NEW b \in Books, ArchiveBook(s, b) \/ DeleteBook(s, b)
      PROVE  copy'[c] = copy[c]
  BY <1>1, <1>4 DEF ArchiveBook, DeleteBook, CanRemove, Withdraw, CopiesOf
<1>5. CASE UNCHANGED copy
  BY <1>5
<1> QED
  BY <1>2, <1>3, <1>4, <1>5, StepKinds DEF CommitLoans, RequestReturn, CommitReturn,
     CommitStock, copyTables

\* A step of s keeps the locks when it keeps its own and takes only free rows.
LEMMA LocksKept ==
  ASSUME Locking, Typed', NEW s \in Slots, Call(s) \/ Step(s) \/ Rollback(s),
         \A t \in Slots \ {s} : /\ pc'[t] = pc[t] /\ req'[t] = req[t]
                                /\ hold'[t] = hold[t] /\ pend'[t] = pend[t],
         \A c \in Copies : hold'[s][c] # Unwritten => hold[s][c] # Unwritten \/ CopyFree(s, c),
         \A b \in Books : pend'[s][b] # NoCounter => pend[s][b] # NoCounter \/ BookFree(s, b),
         \A c \in Copies : Lock(s, c)'
  PROVE  Locking'
<1>1. RowLocksExclusive'
  <2> SUFFICES ASSUME NEW t \in Slots, t # s
               PROVE  /\ \A c \in Copies : hold'[s][c] = Unwritten \/ hold'[t][c] = Unwritten
                      /\ \A b \in Books : pend'[s][b] = NoCounter \/ pend'[t][b] = NoCounter
    BY DEF RowLocksExclusive, Locking
  <2> QED
    BY DEF RowLocksExclusive, Locking, CopyFree, BookFree
<1>2. ASSUME NEW t \in Slots, NEW c \in Copies PROVE Lock(t, c)'
  <2>1. CASE t = s
    BY <2>1
  <2>2. CASE t # s
    <3>1. hold'[t][c] # Unwritten => copy'[c] = copy[c]
      BY <2>2, LockedRowsStay
    <3>2. Lock(t, c)
      BY DEF Locking, LocksHeld
    <3> QED
      BY <2>2, <3>1, <3>2 DEF Lock, Unwritten
  <2> QED
    BY <2>1, <2>2
<1> QED
  BY <1>1, <1>2 DEF Locking, LocksHeld

LEMMA LocksInit == Init => Locking
<1> SUFFICES ASSUME Init PROVE Locking
  OBVIOUS
<1>1. RowLocksExclusive /\ LocksHeld
  BY DEF Init, DatabaseInit, RowLocksExclusive, LocksHeld, Lock, NoRequest, Unwritten, Lenders
<1> QED
  BY <1>1, TypedInit DEF Locking

\* The end of a request gives up its locks.
LEMMA LocksFinish ==
  ASSUME Locking, Typed', NEW s \in Slots, Call(s) \/ Step(s) \/ Rollback(s), Finish(s)
  PROVE  Locking'
<1>1. /\ \A t \in Slots \ {s} : /\ pc'[t] = pc[t] /\ req'[t] = req[t]
                                /\ hold'[t] = hold[t] /\ pend'[t] = pend[t]
      /\ req'[s] = NoRequest
      /\ \A c \in Copies : hold'[s][c] = Unwritten
      /\ \A b \in Books : pend'[s][b] = NoCounter
  BY DEF Finish, At, Locking, Typed, TypeOK, SlotsOK
<1>2. \A c \in Copies : Lock(s, c)'
  BY <1>1 DEF Lock, NoRequest, Unwritten, Lenders
<1> QED
  BY <1>1, <1>2, LocksKept

\* A call holds no locks yet.
LEMMA LocksCall ==
  ASSUME Locking, Typed', NEW s \in Slots, Call(s)
  PROVE  Locking'
<1>1. ASSUME NEW label \in PCs \ Sync, NEW r, Begin(s, label, r)
      PROVE  Locking'
  <2>1. /\ \A t \in Slots \ {s} : /\ pc'[t] = pc[t] /\ req'[t] = req[t]
                                  /\ hold'[t] = hold[t] /\ pend'[t] = pend[t]
        /\ pc'[s] = label
        /\ hold'[s] = hold[s] /\ pend'[s] = pend[s] /\ pc[s] = "idle"
    BY <1>1 DEF Begin, At, Idle, Locking, Typed, TypeOK, SlotsOK
  <2>2. \A c \in Copies : hold[s][c] = Unwritten
    BY <2>1 DEF Locking, LocksHeld, Lock, Sync
  <2>3. \A c \in Copies : Lock(s, c)'
    BY <2>1, <2>2 DEF Lock, Unwritten
  <2> QED
    BY <2>1, <2>3, LocksKept
<1>2. CASE UNCHANGED <<pc, req, hold, pend>>
  <2>1. \A c \in Copies : Lock(s, c)'
    <3> SUFFICES ASSUME NEW c \in Copies PROVE Lock(s, c)'
      OBVIOUS
    <3>1. Lock(s, c) /\ OpAt(pc[s], req[s].op)
      BY DEF Locking, LocksHeld, Typed, RequestOK
    <3>2. pc[s] = "idle" \/ copy' = copy
      BY CallKinds DEF CreateBook, Begin, RemoveItems, Idle, tables, copyTables
    <3>3. CASE pc[s] = "idle"
      BY <1>2, <3>1, <3>3 DEF Lock, Unwritten, OpAt, Sync
    <3>4. CASE copy' = copy
      BY <1>2, <3>1, <3>4 DEF Lock
    <3> QED
      BY <3>2, <3>3, <3>4
  <2> QED
    BY <1>2, <2>1, LocksKept
<1>3. "claim" \in PCs \ Sync
  BY DEF PCs, Sync
<1> QED
  BY <1>1, <1>2, <1>3, CallKinds DEF CreateBook, RemoveItems

\* What follows from the statement a transaction is at.
LEMMA AtStatement ==
  ASSUME Locking, NEW s \in Slots
  PROVE  /\ req[s] \in Request /\ OpAt(pc[s], req[s].op) /\ Given(pc[s], req[s])
         /\ \A c \in Copies : Lock(s, c)
BY DEF Locking, LocksHeld, Typed, TypeOK, SlotsOK, RequestOK

\* Counting the copies, and taking the locks of the accounts, touches no copy.
LEMMA LocksCounting ==
  ASSUME Locking, Typed', NEW s \in Slots, Step(s),
         CountTotal(s) \/ CountAvailable(s) \/ LockRole(s) \/ LockUser(s)
  PROVE  Locking'
<1>1. /\ \A t \in Slots \ {s} : pc'[t] = pc[t] /\ req'[t] = req[t]
      /\ UNCHANGED <<copy, hold, pend>>
      /\ req'[s].op = req[s].op /\ req'[s].copy = req[s].copy
      /\ pc[s] \in Sync => pc'[s] \in Sync
      /\ pc'[s] \in Sync => pc[s] \in Sync
  BY AtStatement DEF CountTotal, CountAvailable, LockRole, LockUser, At, tables, copyTables,
     Locking, Typed, TypeOK, SlotsOK, Request, Sync
<1>2. pc[s] # "claim"
  BY DEF CountTotal, CountAvailable, LockRole, LockUser
<1>3. \A c \in Copies : Lock(s, c)'
  BY <1>1, <1>2, AtStatement DEF Lock
<1> QED
  BY <1>1, <1>3, LocksKept

\* A loan takes a copy from the shelf that no other transaction has written.
LEMMA LocksClaim ==
  ASSUME Locking, Typed', NEW s \in Slots, Step(s), ClaimCopy(s)
  PROVE  Locking'
<1>1. PICK c : /\ c \in Copies
               /\ Sees(s, c) = "AVAILABLE" /\ CopyFree(s, c)
               /\ hold' = [hold EXCEPT ![s][c] = "LOANED"]
               /\ \E b : req' = [req EXCEPT ![s] = [req[s] EXCEPT !.book = b, !.copy = c,
                                                                  !.todo = req[s].todo \ {b}]]
  BY DEF ClaimCopy, ClaimsCopy, Claimable, CopiesOf
<1>2. /\ \A t \in Slots \ {s} : /\ pc'[t] = pc[t] /\ req'[t] = req[t]
                                /\ hold'[t] = hold[t] /\ pend'[t] = pend[t]
      /\ pend' = pend /\ copy' = copy /\ pc'[s] = "count"
      /\ req'[s].op = req[s].op
      /\ hold'[s][c] = "LOANED" /\ \A d \in Copies \ {c} : hold'[s][d] = hold[s][d]
  BY <1>1, AtStatement DEF ClaimCopy, At, tables, copyTables, Locking, Typed, TypeOK, SlotsOK, Request
<1>3. req[s].op \in Lenders
  BY AtStatement DEF ClaimCopy, OpAt, Sync, Lenders
<1>4. copy[c] = "AVAILABLE"
  BY <1>1, <1>3, AtStatement DEF Sees, Lock, Unwritten
<1>5. \A d \in Copies : Lock(s, d)'
  BY <1>2, <1>3, <1>4, AtStatement DEF Lock, Sync, Lenders, Unwritten
<1> QED
  BY <1>1, <1>2, <1>5, LocksKept

\* Between two books of a checkout the copies and the Book row stay locked.
LEMMA LocksLendNext ==
  ASSUME Locking, Typed', NEW s \in Slots, Step(s), LendNext(s)
  PROVE  Locking'
<1>1. req[s].op \in Lenders /\ BookFree(s, req[s].book)
  BY DEF LendNext, Lending, CanSync, Lenders
<1>2. /\ \A t \in Slots \ {s} : /\ pc'[t] = pc[t] /\ req'[t] = req[t]
                                /\ hold'[t] = hold[t] /\ pend'[t] = pend[t]
      /\ hold' = hold /\ copy' = copy /\ pc'[s] = "claim"
      /\ req'[s].op = req[s].op
      /\ \A b \in Books \ {req[s].book} : pend'[s][b] = pend[s][b]
  BY AtStatement DEF LendNext, At, tables, copyTables, Locking, Typed, TypeOK, SlotsOK, Request
<1>3. \A c \in Copies : Lock(s, c)'
  BY <1>1, <1>2, AtStatement DEF Lock, Sync, Lenders
<1> QED
  BY <1>1, <1>2, <1>3, LocksKept

\* A return writes the copy of its loan, which is marked LOANED.
LEMMA LocksReturn ==
  ASSUME Locking, Typed', NEW s \in Slots, Step(s), ReturnCopy(s)
  PROVE  Locking'
<1> DEFINE c == req[s].copy
<1>1. req[s].op = "return" /\ c \in Copies
  BY AtStatement DEF ReturnCopy, OpAt, Given, Sync
<1>2. \A d \in Copies : hold[s][d] = Unwritten
  BY AtStatement DEF ReturnCopy, Lock, Sync
<1>3. copy[c] = "LOANED" /\ CopyFree(s, c)
  BY DEF ReturnCopy, CopyIsLoaned
<1>4. /\ \A t \in Slots \ {s} : /\ pc'[t] = pc[t] /\ req'[t] = req[t]
                                /\ hold'[t] = hold[t] /\ pend'[t] = pend[t]
      /\ pend' = pend /\ copy' = copy /\ pc'[s] = "count"
      /\ req'[s].op = req[s].op /\ req'[s].copy = c
      /\ hold'[s][c] = "AVAILABLE" /\ \A d \in Copies \ {c} : hold'[s][d] = hold[s][d]
  BY <1>1, AtStatement DEF ReturnCopy, ReleaseCopy, At, tables, copyTables, Locking, Typed,
     TypeOK, SlotsOK, Request
<1> HIDE DEF c
<1>5. \A d \in Copies : Lock(s, d)'
  BY <1>1, <1>2, <1>3, <1>4 DEF Lock, Sync, Lenders, Unwritten
<1> QED
  BY <1>3, <1>4, <1>5, LocksKept

\* The administrators' transactions never write LOANED, and write free rows.
LEMMA LocksStock ==
  ASSUME Locking, Typed', NEW s \in Slots, Step(s),
         InsertCopy(s) \/ WriteStatus(s) \/ WriteCopies(s)
  PROVE  Locking'
<1>1. req[s].op \in {"create", "status", "resize"} /\ req[s].op \notin Lenders
  BY AtStatement DEF InsertCopy, WriteStatus, WriteCopies, OpAt, Sync, Lenders
<1>2. /\ \A t \in Slots \ {s} : pc'[t] = pc[t]
      /\ UNCHANGED <<copy, req, pend>> /\ pc'[s] = "count"
  BY DEF InsertCopy, WriteStatus, WriteCopies, At, tables, copyTables, Locking, Typed, TypeOK, SlotsOK
<1>3. /\ \A t \in Slots \ {s} : hold'[t] = hold[t]
      /\ \A c \in Copies : hold'[s][c] # Unwritten => hold[s][c] # Unwritten \/ CopyFree(s, c)
      /\ \A c \in Copies : hold'[s][c] # "LOANED"
  <2>0. \A c \in Copies : hold[s][c] # "LOANED"
    BY <1>1, AtStatement DEF Lock
  <2>1. CASE InsertCopy(s)
    <3>1. PICK c \in Copies : hold' = [hold EXCEPT ![s][c] = "AVAILABLE"] /\ CopyFree(s, c)
      BY <2>1 DEF InsertCopy, Lowest, Unused, CopiesOf
    <3> QED
      BY <3>1, <2>0 DEF Locking, Typed, TypeOK, SlotsOK
  <2>2. CASE WriteStatus(s)
    <3>1. req[s].copy \in Copies /\ req[s].new # "LOANED"
      BY <1>1, <2>2, AtStatement DEF WriteStatus, OpAt, Given, Sync
    <3> QED
      BY <2>0, <2>2, <3>1 DEF WriteStatus, Locking, Typed, TypeOK, SlotsOK
  <2>3. CASE WriteCopies(s)
    <3>1. PICK new \in SUBSET {c \in Copies : CopyFree(s, c)} :
            hold' = [hold EXCEPT ![s] =
                      [c \in Copies |-> IF c \in req[s].removed THEN "ARCHIVED"
                                        ELSE IF c \in new THEN "AVAILABLE"
                                        ELSE Unwritten]]
      BY <2>3 DEF WriteCopies, Lowest, Unused, CopiesOf
    <3>2. \A c \in req[s].removed : CopyFree(s, c)
      BY <2>3 DEF WriteCopies
    <3> QED
      BY <3>1, <3>2 DEF Locking, Typed, TypeOK, SlotsOK, Unwritten
  <2> QED
    BY <2>1, <2>2, <2>3
<1>4. \A c \in Copies : Lock(s, c)'
  BY <1>1, <1>2, <1>3 DEF Lock, Lenders, Sync
<1> QED
  BY <1>2, <1>3, <1>4, LocksKept

LEMMA LocksNext == Locking /\ [Next]_vars => Locking'
<1> SUFFICES ASSUME Locking, [Next]_vars PROVE Locking'
  OBVIOUS
<1>0. Typed'
  BY TypedNext DEF Locking
<1>1. ASSUME NEW s \in Slots, Call(s) PROVE Locking'
  BY <1>0, <1>1, LocksCall
<1>2. ASSUME NEW s \in Slots, Step(s) PROVE Locking'
  <2>1. CASE CountTotal(s) \/ CountAvailable(s) \/ LockRole(s) \/ LockUser(s)
    BY <1>0, <1>2, <2>1, LocksCounting
  <2>2. CASE ClaimCopy(s) \/ LendNext(s) \/ ReturnCopy(s)
    BY <1>0, <1>2, <2>2, LocksClaim, LocksLendNext, LocksReturn
  <2>3. CASE InsertCopy(s) \/ WriteStatus(s) \/ WriteCopies(s)
    BY <1>0, <1>2, <2>3, LocksStock
  <2>4. CASE Finish(s)
    BY <1>0, <1>2, <2>4, LocksFinish
  <2> QED
    BY <1>2, <2>1, <2>2, <2>3, <2>4
    DEF Step, LoanStep, InventoryStep, CartStep, MembersStep, CommitLoans, RequestReturn,
        CommitReturn, CommitStock, WriteMove, ArchiveBook, DeleteBook, InsertItem, WriteRole,
        WriteDelete
<1>3. ASSUME NEW s \in Slots, Rollback(s) PROVE Locking'
  BY <1>0, <1>3, LocksFinish DEF Rollback
<1>4. CASE UNCHANGED vars
  BY <1>0, <1>4 DEF vars, tables, copyTables, Locking, RowLocksExclusive, LocksHeld, Lock
<1> QED
  BY <1>1, <1>2, <1>3, <1>4 DEF Next

\* The locks of every transaction keep what it read of the copies it will write.
THEOREM AlwaysLocking == Spec => []Locking
BY LocksInit, LocksNext, PTL DEF Spec

\* A copy being lent is on the shelf, a copy being returned is marked LOANED, and
\* neither changes before the transaction commits.
THEOREM LocksProtect == Spec => []LocksHeld
<1>1. Locking => LocksHeld
  BY DEF Locking
<1> QED
  BY AlwaysLocking, <1>1, PTL
=============================================================================
