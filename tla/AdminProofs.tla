---------------------------- MODULE AdminProofs -----------------------------
(***************************************************************************)
(* What administrators may take away.  The advisory lock of updateRole and *)
(* adminDelete: what is checked again under it stays true until the        *)
(* transaction writes, so an administrator is always left and the audit    *)
(* rows are true.  A book that was deleted had no history and gets none:   *)
(* no copy of it is left, and no transaction holds one.                    *)
(***************************************************************************)
EXTENDS LendingProofs

-----------------------------------------------------------------------------
(* Roles and users.                                                        *)

\* Another administrator is active.
AnotherAdmin(u) == \E a \in ActiveAdmins : a # u

AdvisoryExclusive == \A s, t \in Slots : Administering(s) /\ Administering(t) => s = t

\* What a transaction that holds the advisory lock has checked.
Checked(s) ==
  Administering(s) =>
    /\ req[s].old = role[req[s].user]
    /\ role[req[s].user] = "ADMIN" /\ (pc[s] = "deleteWrite" \/ req[s].new # "ADMIN")
         => AnotherAdmin(req[s].user)

Accounts ==
  /\ Typed
  /\ AdvisoryExclusive
  /\ \A s \in Slots : Checked(s)
  /\ SomeActiveAdmin

-----------------------------------------------------------------------------
\* Where more than one administrator is counted, another one is active.
LEMMA LastAdminKept ==
  ASSUME NEW u \in Users, NotLastAdmin(u), role[u] = "ADMIN"
  PROVE  AnotherAdmin(u)
<1>1. IsFiniteSet(ActiveAdmins) /\ Cardinality(ActiveAdmins) > 1
  BY BoundAssumption, FS_Subset DEF NotLastAdmin, ActiveAdmins
<1>2. SUFFICES ASSUME ActiveAdmins \subseteq {u} PROVE FALSE
  BY DEF AnotherAdmin
<1>3. Cardinality(ActiveAdmins) <= Cardinality({u})
  BY <1>2, FS_Singleton, FS_Subset
<1>4. Cardinality({u}) = 1 /\ Cardinality(ActiveAdmins) \in Nat
  BY <1>1, FS_Singleton, FS_CardinalityType
<1> QED
  BY <1>1, <1>3, <1>4

\* Every other request leaves the accounts alone and takes no advisory lock.
LEMMA OtherRequests ==
  ASSUME Typed, NEW s \in Slots, Call(s) \/ Step(s) \/ Rollback(s),
         ~ (LockRole(s) \/ LockUser(s) \/ WriteRole(s) \/ WriteDelete(s))
  PROVE  /\ UNCHANGED userTables
         /\ \A t \in Slots : pc'[t] \in {"roleWrite", "deleteWrite"}
                               => pc'[t] = pc[t] /\ req'[t] = req[t]
<1> DEFINE Quiet == /\ UNCHANGED userTables
                    /\ \A t \in Slots : pc'[t] \in {"roleWrite", "deleteWrite"}
                                          => pc'[t] = pc[t] /\ req'[t] = req[t]
<1>a. pc \in [Slots -> PCs] /\ req \in [Slots -> Request]
  BY DEF Typed, TypeOK, SlotsOK
<1>b. ASSUME NEW label \in PCs \ {"roleWrite", "deleteWrite"}, NEW r, Begin(s, label, r)
      PROVE  Quiet
  BY <1>a, <1>b DEF Begin, At, tables
<1>c. ASSUME Finish(s), UNCHANGED userTables
      PROVE  Quiet
  BY <1>a, <1>c DEF Finish, At
<1>1. CASE LoanCall(s)
  <2>1. /\ "claim" \in PCs \ {"roleWrite", "deleteWrite"}
        /\ "request" \in PCs \ {"roleWrite", "deleteWrite"}
        /\ "return" \in PCs \ {"roleWrite", "deleteWrite"}
    BY DEF PCs
  <2> QED
    BY <1>1, <1>b, <2>1
    DEF LoanCall, Borrow, AdminBorrow, BorrowRequest, Checkout, AskReturn, ScanReturn, AdminReturn
<1>2. CASE InventoryCall(s)
  <2>1. /\ "create" \in PCs \ {"roleWrite", "deleteWrite"}
        /\ "remove" \in PCs \ {"roleWrite", "deleteWrite"}
        /\ "resize" \in PCs \ {"roleWrite", "deleteWrite"}
        /\ "status" \in PCs \ {"roleWrite", "deleteWrite"}
        /\ "move" \in PCs \ {"roleWrite", "deleteWrite"}
    BY DEF PCs
  <2>2. ASSUME NEW b \in Books, NEW n \in 1 .. MaxSize, CreateBook(s, b, n) PROVE Quiet
    BY <2>2 DEF CreateBook
  <2> QED
    BY <1>2, <1>b, <2>1, <2>2 DEF InventoryCall, BookCall, CopyCall, CreateCopy, RemoveBook, Resize,
       MoveBook, UpdateStatus
<1>3. CASE CartCall(s)
  <2>1. "cartAdd" \in PCs \ {"roleWrite", "deleteWrite"}
    BY DEF PCs
  <2>2. ASSUME NEW u \in Users, NEW items, RemoveItems(s, u, items) PROVE Quiet
    BY <2>2 DEF RemoveItems
  <2> QED
    BY <1>3, <1>b, <2>1, <2>2 DEF CartCall, AddToCart, RemoveItem, ClearCart
<1>4. CASE MembersCall(s)
  <2>1. "role" \in PCs \ {"roleWrite", "deleteWrite"} /\ "delete" \in PCs \ {"roleWrite", "deleteWrite"}
    BY DEF PCs
  <2> QED
    BY <1>4, <1>b, <2>1 DEF MembersCall, ChangeRole, DeleteUser
<1>5. CASE CountTotal(s) \/ CountAvailable(s) \/ ClaimCopy(s) \/ LendNext(s) \/ ReturnCopy(s)
  BY <1>5, <1>a DEF CountTotal, CountAvailable, ClaimCopy, LendNext, ReturnCopy, At, tables
<1>6. CASE InsertCopy(s) \/ WriteStatus(s) \/ WriteCopies(s)
  BY <1>6, <1>a DEF InsertCopy, WriteStatus, WriteCopies, At, tables
<1>7. CASE CommitLoans(s) \/ RequestReturn(s) \/ CommitReturn(s) \/ CommitStock(s) \/ InsertItem(s)
  BY <1>7, <1>c DEF CommitLoans, RequestReturn, CommitReturn, CommitStock, InsertItem
<1>8. CASE \E b \in Books : WriteMove(s, b) \/ ArchiveBook(s, b) \/ DeleteBook(s, b)
  BY <1>8, <1>c DEF WriteMove, ArchiveBook, DeleteBook
<1>9. CASE Rollback(s)
  BY <1>9, <1>c DEF Rollback, tables
<1> QED
  BY <1>1, <1>2, <1>3, <1>4, <1>5, <1>6, <1>7, <1>8, <1>9
  DEF Call, Step, LoanStep, InventoryStep, CartStep, MembersStep

-----------------------------------------------------------------------------
LEMMA AccountsInit == Init => Accounts
<1> SUFFICES ASSUME Init PROVE Accounts
  OBVIOUS
<1>1. AdvisoryExclusive /\ \A s \in Slots : Checked(s)
  BY DEF Init, DatabaseInit, AdvisoryExclusive, Checked, Administering
<1>2. SomeActiveAdmin
  <2>1. PICK a \in Admins : TRUE
    BY RowAssumption
  <2>2. a \in ActiveAdmins
    BY RowAssumption DEF Init, DatabaseInit, ActiveAdmins, IsAdmin, IsUser
  <2> QED
    BY <2>2 DEF SomeActiveAdmin
<1> QED
  BY <1>1, <1>2, TypedInit DEF Accounts

\* While the accounts stay as they are, a transaction that holds the lock keeps
\* what it has checked, and one that takes it must find it free.
LEMMA AccountsUntouched ==
  ASSUME Accounts, Typed', UNCHANGED <<role, deletedAt>>, NEW s \in Slots,
         \A t \in Slots \ {s} : pc'[t] = pc[t] /\ req'[t] = req[t],
         Administering(s)' => AdvisoryFree(s) /\ Checked(s)'
  PROVE  Accounts'
<1>1. AdvisoryExclusive'
  BY DEF Accounts, AdvisoryExclusive, Administering, AdvisoryFree
<1>2. ASSUME NEW t \in Slots PROVE Checked(t)'
  <2>1. CASE t = s
    BY <2>1 DEF Checked
  <2>2. CASE t # s
    BY <2>2 DEF Accounts, Checked, Administering, AnotherAdmin, ActiveAdmins, IsAdmin, IsUser
  <2> QED
    BY <2>1, <2>2
<1>3. SomeActiveAdmin'
  BY DEF Accounts, SomeActiveAdmin, ActiveAdmins, IsAdmin, IsUser
<1> QED
  BY <1>1, <1>2, <1>3 DEF Accounts

\* Taking the advisory lock, with the checks made again.
LEMMA AccountsLock ==
  ASSUME Accounts, Typed', NEW s \in Slots, LockRole(s) \/ LockUser(s)
  PROVE  Accounts'
<1>1. /\ pc \in [Slots -> PCs] /\ req \in [Slots -> Request] /\ role \in [Users -> Roles]
      /\ OpAt(pc[s], req[s].op) /\ Given(pc[s], req[s])
  BY DEF Accounts, Typed, TypeOK, TablesOK, SlotsOK, RequestOK
<1>2. req[s].user \in Users /\ req[s].op \in {"role", "delete"}
  BY <1>1 DEF LockRole, LockUser, OpAt, Given, Sync
<1>3. /\ UNCHANGED <<role, deletedAt>>
      /\ \A t \in Slots \ {s} : pc'[t] = pc[t] /\ req'[t] = req[t]
      /\ req'[s].user = req[s].user /\ req'[s].new = req[s].new
      /\ req'[s].old = role[req[s].user]
      /\ AdvisoryFree(s)
      /\ pc'[s] = IF LockRole(s) THEN "roleWrite" ELSE "deleteWrite"
  BY <1>1 DEF LockRole, LockUser, At, tables, userTables, Request
<1>4. pc'[s] = "deleteWrite" \/ req[s].new # "ADMIN" => NotLastAdmin(req[s].user)
  BY <1>3 DEF LockRole, LockUser, MayDemote, MayDelete
<1>5. Checked(s)'
  <2>1. role[req[s].user] = "ADMIN" /\ (pc'[s] = "deleteWrite" \/ req[s].new # "ADMIN")
          => AnotherAdmin(req[s].user)
    BY <1>2, <1>4, LastAdminKept
  <2> QED
    BY <1>3, <2>1 DEF Checked, Administering, AnotherAdmin, ActiveAdmins, IsAdmin, IsUser
<1> QED
  BY <1>3, <1>5, AccountsUntouched

\* The write: the administrator found by the check is active still.
LEMMA AccountsWrite ==
  ASSUME Accounts, Typed', NEW s \in Slots, WriteRole(s) \/ WriteDelete(s)
  PROVE  Accounts'
<1> DEFINE u == req[s].user
<1>1. /\ pc \in [Slots -> PCs] /\ req \in [Slots -> Request]
      /\ role \in [Users -> Roles] /\ deletedAt \in [Users -> BOOLEAN]
      /\ OpAt(pc[s], req[s].op) /\ Given(pc[s], req[s])
  BY DEF Accounts, Typed, TypeOK, TablesOK, SlotsOK, RequestOK
<1>2. Administering(s) /\ Checked(s)
  BY DEF Accounts, WriteRole, WriteDelete, Administering
<1>3. u \in Users
  BY <1>1, <1>2 DEF Administering, OpAt, Given, Sync
<1>4. /\ pc'[s] = "idle"
      /\ \A t \in Slots \ {s} : pc'[t] = pc[t] /\ req'[t] = req[t]
  BY <1>1 DEF WriteRole, WriteDelete, Finish, At
<1>5. \A t \in Slots : ~Administering(t)'
  BY <1>2, <1>4 DEF Accounts, AdvisoryExclusive, Administering
<1>6. SomeActiveAdmin'
  <2>1. \A a \in Users \ {u} : role'[a] = role[a] /\ deletedAt'[a] = deletedAt[a]
    BY <1>1 DEF WriteRole, WriteDelete
  <2>2. CASE AnotherAdmin(u)
    BY <2>1, <2>2 DEF AnotherAdmin, SomeActiveAdmin, ActiveAdmins, IsAdmin, IsUser
  <2>3. CASE role[u] # "ADMIN"
    <3>1. PICK a \in ActiveAdmins : TRUE
      BY DEF Accounts, SomeActiveAdmin
    <3> QED
      BY <2>1, <2>3, <3>1 DEF SomeActiveAdmin, ActiveAdmins, IsAdmin, IsUser
  <2>4. CASE WriteRole(s) /\ req[s].new = "ADMIN"
    <3>1. PICK a \in ActiveAdmins : TRUE
      BY DEF Accounts, SomeActiveAdmin
    <3>2. role'[a] = "ADMIN" /\ deletedAt'[a] = deletedAt[a]
      BY <1>1, <1>3, <2>1, <2>4, <3>1 DEF WriteRole, ActiveAdmins, IsAdmin
    <3> QED
      BY <3>1, <3>2 DEF SomeActiveAdmin, ActiveAdmins, IsAdmin, IsUser
  <2> QED
    BY <1>2, <2>2, <2>3, <2>4 DEF Checked, Administering, WriteRole, WriteDelete
<1>7. AdvisoryExclusive' /\ \A t \in Slots : Checked(t)'
  BY <1>5 DEF AdvisoryExclusive, Checked
<1> QED
  BY <1>6, <1>7 DEF Accounts

LEMMA AccountsNext == Accounts /\ [Next]_vars => Accounts'
<1> SUFFICES ASSUME Accounts, [Next]_vars PROVE Accounts'
  OBVIOUS
<1>0. Typed /\ Typed'
  BY TypedNext DEF Accounts
<1>1. ASSUME NEW s \in Slots, Call(s) \/ Step(s) \/ Rollback(s) PROVE Accounts'
  <2>1. CASE LockRole(s) \/ LockUser(s)
    BY <1>0, <2>1, AccountsLock
  <2>2. CASE WriteRole(s) \/ WriteDelete(s)
    BY <1>0, <2>2, AccountsWrite
  <2>3. CASE ~ (LockRole(s) \/ LockUser(s) \/ WriteRole(s) \/ WriteDelete(s))
    <3>1. /\ UNCHANGED <<role, deletedAt>>
          /\ \A t \in Slots : Administering(t)' => pc'[t] = pc[t] /\ req'[t] = req[t]
      BY <1>0, <1>1, <2>3, OtherRequests DEF userTables, Administering
    <3>2. AdvisoryExclusive'
      BY <3>1 DEF Accounts, AdvisoryExclusive, Administering
    <3>3. \A t \in Slots : Checked(t)'
      BY <3>1 DEF Accounts, Checked, Administering, AnotherAdmin, ActiveAdmins, IsAdmin, IsUser
    <3>4. SomeActiveAdmin'
      BY <3>1 DEF Accounts, SomeActiveAdmin, ActiveAdmins, IsAdmin, IsUser
    <3> QED
      BY <1>0, <3>2, <3>3, <3>4 DEF Accounts
  <2> QED
    BY <2>1, <2>2, <2>3
<1>2. CASE UNCHANGED vars
  BY <1>0, <1>2 DEF vars, tables, userTables, Accounts, AdvisoryExclusive, Checked, Administering,
     AnotherAdmin, SomeActiveAdmin, ActiveAdmins, IsAdmin, IsUser
<1> QED
  BY <1>1, <1>2 DEF Next

\* What the holder of the advisory lock checked of the users stays true until it writes.
THEOREM AlwaysAccounts == Spec => []Accounts
BY AccountsInit, AccountsNext, PTL DEF Spec

\* An administrator is always active, whatever administrators do to each other
\* at the same time (updateRole, adminDelete).
THEOREM AnAdminStays == Spec => []SomeActiveAdmin
<1>1. Accounts => SomeActiveAdmin
  BY DEF Accounts
<1> QED
  BY AlwaysAccounts, <1>1, PTL

\* An audit row about a user names the role that the change replaced.
THEOREM AuditRowsTrue == Spec => UserAuditTrue
<1>1. ASSUME Accounts, [Next]_vars
      PROVE  [\A u \in Users : userAudit'[u] # userAudit[u] => userAudit'[u].old = role[u]]_vars
  <2>1. SUFFICES ASSUME NEW s \in Slots, Call(s) \/ Step(s) \/ Rollback(s), NEW u \in Users,
                        userAudit'[u] # userAudit[u]
                 PROVE  userAudit'[u].old = role[u]
    BY <1>1 DEF Next
  <2>2. userAudit \in [Users -> AuditRow]
    BY <1>1 DEF Accounts, Typed, TypeOK, TablesOK
  <2>3. CASE WriteRole(s) \/ WriteDelete(s)
    <3>1. Checked(s) /\ Administering(s)
      BY <1>1, <2>3 DEF Accounts, WriteRole, WriteDelete, Administering
    <3>2. u = req[s].user /\ userAudit'[u].old = req[s].old
      BY <2>1, <2>2, <2>3 DEF WriteRole, WriteDelete
    <3> QED
      BY <3>1, <3>2 DEF Checked
  <2>4. CASE ~ (WriteRole(s) \/ WriteDelete(s))
    BY <1>1, <2>1, <2>4, OtherRequests DEF Accounts, LockRole, LockUser, tables, userTables
  <2> QED
    BY <2>3, <2>4
<1> QED
  BY AlwaysAccounts, <1>1, PTL DEF Spec, UserAuditTrue

-----------------------------------------------------------------------------
(* Books.                                                                  *)

WithoutHistory(b) ==
  /\ \A c \in CopiesOf(b) : loans[c] = <<>> /\ ~copyAudit[c] /\ ~Exists(c)
  /\ \A u \in Users : b \notin cart[u]

Gone(b) == bookRow[b] = "GONE"

\* The transaction of s writes copies of books that are there; a status change
\* has written its copy, and a new size concerns copies of its book.
InCatalogue(s) ==
  /\ \A c \in Copies : hold[s][c] # Unwritten => ~Gone(BookOf[c])
  /\ req[s].op = "status" /\ pc[s] \in Sync => hold[s][req[s].copy] # Unwritten
  /\ req[s].op = "resize" => req[s].removed \subseteq CopiesOf(req[s].book)

Kept ==
  /\ Locking
  /\ \A b \in Books : Gone(b) => WithoutHistory(b)
  /\ \A s \in Slots : InCatalogue(s)

-----------------------------------------------------------------------------
LEMMA KeptInit == Init => Kept
<1> SUFFICES ASSUME Init PROVE Kept
  OBVIOUS
<1>1. \A b \in Books : ~Gone(b)
  BY DEF Init, DatabaseInit, Gone
<1>2. \A s \in Slots : InCatalogue(s)
  BY DEF Init, DatabaseInit, InCatalogue, NoRequest, Unwritten
<1> QED
  BY <1>1, <1>2, LocksInit DEF Kept

\* Rows and slots change only as each step below says.
LEMMA KeptByStep ==
  ASSUME Kept, Locking', NEW s \in Slots,
         \A t \in Slots \ {s} : pc'[t] = pc[t] /\ req'[t] = req[t] /\ hold'[t] = hold[t],
         \A b \in Books : Gone(b)' => Gone(b) \/ \A c \in CopiesOf(b) : CopyFree(s, c),
         \A b \in Books : Gone(b)' => WithoutHistory(b)',
         InCatalogue(s)'
  PROVE  Kept'
<1>1. ASSUME NEW t \in Slots PROVE InCatalogue(t)'
  <2>1. CASE t = s
    BY <2>1
  <2>2. CASE t # s
    <3>1. InCatalogue(t)
      BY DEF Kept
    <3>2. ASSUME NEW c \in Copies, hold'[t][c] # Unwritten PROVE ~Gone(BookOf[c])'
      <4>1. BookOf[c] \in Books /\ c \in CopiesOf(BookOf[c])
        BY RowAssumption DEF CopiesOf
      <4>2. hold[t][c] # Unwritten /\ ~CopyFree(s, c)
        BY <2>2, <3>2 DEF CopyFree
      <4> QED
        BY <3>1, <4>1, <4>2 DEF InCatalogue
    <3> QED
      BY <2>2, <3>1, <3>2 DEF InCatalogue, CopiesOf
  <2> QED
    BY <2>1, <2>2
<1> QED
  BY <1>1 DEF Kept

\* What a step of s may rely on.
LEMMA KeptFacts ==
  ASSUME Kept, NEW s \in Slots
  PROVE  /\ req[s] \in Request /\ OpAt(pc[s], req[s].op) /\ Given(pc[s], req[s])
         /\ \A c \in Copies : Lock(s, c)
         /\ InCatalogue(s)
         /\ TablesOK /\ SlotsOK
         /\ \A c \in Copies : Exists(c) => ~Gone(BookOf[c])
<1>1. \A c \in Copies : BookOf[c] \in Books /\ c \in CopiesOf(BookOf[c])
  BY RowAssumption DEF CopiesOf
<1> QED
  BY <1>1, AtStatement DEF Kept, Locking, Typed, TypeOK, SlotsOK, WithoutHistory

\* A step that changes no table.
LEMMA KeptTables ==
  ASSUME Kept, UNCHANGED tables
  PROVE  \A b \in Books : Gone(b)' => Gone(b) /\ WithoutHistory(b)'
BY DEF Kept, tables, copyTables, bookTables, loanTables, Gone, WithoutHistory, CopiesOf, Exists

-----------------------------------------------------------------------------
(* Calls.                                                                  *)

\* The copies a resize has chosen are copies of its book; other calls choose none.
LEMMA CallChoice ==
  ASSUME Kept, NEW s \in Slots, Call(s)
  PROVE  req'[s].op = "resize" => req'[s].removed \subseteq CopiesOf(req'[s].book)
<1> DEFINE Choice == req'[s].op = "resize" => req'[s].removed \subseteq CopiesOf(req'[s].book)
<1>0. /\ req \in [Slots -> Request] /\ InCatalogue(s)
  BY KeptFacts DEF SlotsOK
<1>1. ASSUME NEW label, NEW r, Begin(s, label, r), r.op # "resize" PROVE Choice
  BY <1>0, <1>1 DEF Begin
<1>2. ASSUME req' = req PROVE Choice
  BY <1>0, <1>2 DEF InCatalogue, CopiesOf
<1>3. CASE LoanCall(s)
  <2>1. ASSUME NEW u \in Users, NEW b \in Books, NEW w \in Copies \cup {NoCopy},
               Borrow(s, u, b, w) \/ AdminBorrow(s, u, b, w)
        PROVE  Choice
    BY <1>0, <2>1 DEF Borrow, AdminBorrow, BorrowRequest, Begin, NoRequest
  <2>2. ASSUME NEW u \in Users, Checkout(s, u) PROVE Choice
    BY <1>0, <2>2 DEF Checkout, Begin, NoRequest
  <2>3. ASSUME NEW u \in Users, NEW c \in Copies, NEW i \in LoansOf(c), AskReturn(s, u, c, i)
        PROVE  Choice
    BY <1>0, <2>3 DEF AskReturn, Begin, NoRequest
  <2>4. ASSUME NEW c \in Copies, ScanReturn(s, c) \/ \E i \in LoansOf(c) : AdminReturn(s, c, i)
        PROVE  Choice
    BY <1>0, <2>4 DEF ScanReturn, AdminReturn, Begin, NoRequest
  <2> QED
    BY <1>3, <2>1, <2>2, <2>3, <2>4 DEF LoanCall
<1>4. CASE InventoryCall(s)
  <2>1. ASSUME NEW b \in Books, CreateCopy(s, b) \/ RemoveBook(s, b) PROVE Choice
    BY <1>0, <2>1 DEF CreateCopy, RemoveBook, Begin, NoRequest
  <2>2. ASSUME NEW b \in Books, NEW n \in 1 .. MaxSize, Resize(s, b, n) PROVE Choice
    <3>1. PICK S \in SUBSET CopiesOf(b) : \E m :
            req' = [req EXCEPT ![s] = [NoRequest EXCEPT !.op = "resize", !.book = b, !.size = n,
                                         !.removed = S, !.added = m]]
      BY <2>2 DEF Resize, Begin, Highest, Removable, InService
    <3>2. req'[s].book = b /\ req'[s].removed = S
      BY <1>0, <3>1 DEF NoRequest
    <3> QED
      BY <3>2
  <2>3. ASSUME NEW c \in Copies, NEW new \in Targets, UpdateStatus(s, c, new) PROVE Choice
    BY <1>0, <2>3 DEF UpdateStatus, Begin, NoRequest
  <2>4. ASSUME NEW b \in Books, NEW n \in 1 .. MaxSize, CreateBook(s, b, n) PROVE Choice
    BY <1>2, <2>4 DEF CreateBook
  <2>5. ASSUME NEW b \in Books, NEW a \in Authors, MoveBook(s, b, a) PROVE Choice
    BY <1>0, <2>5 DEF MoveBook, Begin, NoRequest
  <2> QED
    BY <1>4, <2>1, <2>2, <2>3, <2>4, <2>5 DEF InventoryCall, BookCall, CopyCall
<1>5. CASE CartCall(s)
  <2>1. ASSUME NEW u \in Users, NEW b \in Books, AddToCart(s, u, b) PROVE Choice
    BY <1>0, <2>1 DEF AddToCart, Begin, NoRequest
  <2>2. ASSUME NEW u \in Users, NEW items, RemoveItems(s, u, items) PROVE Choice
    BY <1>2, <2>2 DEF RemoveItems
  <2> QED
    BY <1>5, <2>1, <2>2 DEF CartCall, RemoveItem, ClearCart
<1>6. CASE MembersCall(s)
  <2>1. ASSUME NEW a \in Users, NEW u \in Users, NEW x \in Roles, ChangeRole(s, a, u, x)
        PROVE  Choice
    BY <1>0, <2>1 DEF ChangeRole, Begin, NoRequest
  <2>2. ASSUME NEW a \in Users, NEW u \in Users, DeleteUser(s, a, u) PROVE Choice
    BY <1>0, <2>2 DEF DeleteUser, Begin, NoRequest
  <2> QED
    BY <1>6, <2>1, <2>2 DEF MembersCall
<1> QED
  BY <1>3, <1>4, <1>5, <1>6 DEF Call

LEMMA KeptCall ==
  ASSUME Kept, Locking', NEW s \in Slots, Call(s)
  PROVE  Kept'
<1>0. /\ SlotsOK /\ TablesOK /\ InCatalogue(s) /\ \A c \in Copies : Lock(s, c)
  BY KeptFacts
<1>1. ASSUME NEW label \in PCs \ Sync, NEW r, Begin(s, label, r)
      PROVE  Kept'
  <2>1. /\ \A t \in Slots \ {s} : pc'[t] = pc[t] /\ req'[t] = req[t] /\ hold'[t] = hold[t]
        /\ pc'[s] = label /\ hold' = hold
        /\ UNCHANGED tables
    BY <1>0, <1>1 DEF Begin, At, SlotsOK
  <2>2. InCatalogue(s)'
    BY <1>0, <1>1, <2>1, CallChoice DEF InCatalogue, CopiesOf, Gone, tables, bookTables
  <2> QED
    BY <2>1, <2>2, KeptByStep, KeptTables
<1>2. ASSUME UNCHANGED <<pc, req, hold>>,
             \A b \in Books : Gone(b)' => Gone(b) /\ WithoutHistory(b)'
      PROVE  Kept'
  <2>1. \A c \in Copies : BookOf[c] \in Books
    BY RowAssumption
  <2>2. InCatalogue(s)'
    BY <1>0, <1>2, <2>1 DEF InCatalogue, CopiesOf
  <2> QED
    BY <1>2, <2>2, KeptByStep
<1>3. ASSUME NEW b \in Books, NEW n \in 1 .. MaxSize, CreateBook(s, b, n)
      PROVE  Kept'
  <2>1. \A d \in Books : Gone(d)' => d # b /\ Gone(d)
    BY <1>0, <1>3 DEF CreateBook, Gone, TablesOK
  <2>2. \A c \in Copies : BookOf[c] # b => copy'[c] = copy[c]
    BY <1>3 DEF CreateBook, Lowest, Unused, CopiesOf
  <2>3. \A d \in Books : Gone(d)' => WithoutHistory(d)'
    BY <1>3, <2>1, <2>2 DEF CreateBook, Kept, WithoutHistory, CopiesOf, Exists, loanTables
  <2> QED
    BY <1>2, <1>3, <2>1, <2>3 DEF CreateBook
<1>4. ASSUME NEW u \in Users, NEW items \in SUBSET Books, RemoveItems(s, u, items)
      PROVE  Kept'
  <2>1. \A b \in Books : Gone(b)' => Gone(b) /\ WithoutHistory(b)'
    BY <1>0, <1>4 DEF RemoveItems, Kept, WithoutHistory, CopiesOf, Exists, Gone, copyTables,
       bookTables, loanTables, TablesOK
  <2> QED
    BY <1>2, <1>4, <2>1 DEF RemoveItems
<1>5. "claim" \in PCs \ Sync
  BY DEF PCs, Sync
<1> QED
  BY <1>1, <1>3, <1>4, <1>5, CallKinds

-----------------------------------------------------------------------------
(* Steps inside a transaction: copies are written, no table changes.       *)

LEMMA KeptInside ==
  ASSUME Kept, Locking', NEW s \in Slots, UNCHANGED tables,
         \A t \in Slots \ {s} : pc'[t] = pc[t] /\ req'[t] = req[t] /\ hold'[t] = hold[t],
         InCatalogue(s)'
  PROVE  Kept'
BY KeptByStep, KeptTables

\* Counting the copies, and the locks of the accounts.
LEMMA KeptCounting ==
  ASSUME Kept, Locking', NEW s \in Slots,
         CountTotal(s) \/ CountAvailable(s) \/ LockRole(s) \/ LockUser(s)
  PROVE  Kept'
<1>1. /\ \A t \in Slots \ {s} : pc'[t] = pc[t] /\ req'[t] = req[t] /\ hold'[t] = hold[t]
      /\ UNCHANGED <<tables, hold>>
      /\ req'[s].op = req[s].op /\ req'[s].copy = req[s].copy
      /\ req'[s].book = req[s].book /\ req'[s].removed = req[s].removed
      /\ pc'[s] \in Sync => pc[s] \in Sync
  BY KeptFacts DEF CountTotal, CountAvailable, LockRole, LockUser, At, SlotsOK, Request, Sync
<1>2. InCatalogue(s)'
  BY <1>1, KeptFacts DEF InCatalogue, CopiesOf, Gone, tables, bookTables
<1> QED
  BY <1>1, <1>2, KeptInside

\* A lent copy was on the shelf, so its book is there; so is that of a returned one.
LEMMA KeptLending ==
  ASSUME Kept, Locking', NEW s \in Slots, ClaimCopy(s) \/ LendNext(s) \/ ReturnCopy(s)
  PROVE  Kept'
<1>0. SlotsOK
  BY KeptFacts
<1>1. CASE ClaimCopy(s)
  <2>1. PICK c \in Copies :
              /\ Sees(s, c) = "AVAILABLE"
              /\ hold' = [hold EXCEPT ![s][c] = "LOANED"]
              /\ \E b : req' = [req EXCEPT ![s] = [req[s] EXCEPT !.book = b, !.copy = c,
                                                                 !.todo = req[s].todo \ {b}]]
    BY <1>1 DEF ClaimCopy, ClaimsCopy, Claimable, CopiesOf
  <2>2. req[s].op \in Lenders
    BY <1>1, KeptFacts DEF ClaimCopy, OpAt, Sync, Lenders
  <2>3. ~Gone(BookOf[c])
    BY <2>1, <2>2, KeptFacts DEF Sees, Lock, Exists, CopyStatus, Unwritten
  <2>4. /\ \A t \in Slots \ {s} : pc'[t] = pc[t] /\ req'[t] = req[t] /\ hold'[t] = hold[t]
        /\ UNCHANGED tables /\ req'[s].op = req[s].op
        /\ \A d \in Copies \ {c} : hold'[s][d] = hold[s][d]
    <3>1. UNCHANGED tables /\ \A t \in Slots \ {s} : pc'[t] = pc[t]
      BY <1>0, <1>1 DEF ClaimCopy, At, SlotsOK
    <3>2. /\ \A t \in Slots \ {s} : hold'[t] = hold[t]
          /\ \A d \in Copies \ {c} : hold'[s][d] = hold[s][d]
      BY <1>0, <2>1 DEF SlotsOK
    <3>3. req'[s].op = req[s].op /\ \A t \in Slots \ {s} : req'[t] = req[t]
      BY <1>0, <2>1 DEF SlotsOK, Request
    <3> QED
      BY <3>1, <3>2, <3>3
  <2>5. InCatalogue(s)'
    BY <2>2, <2>3, <2>4, KeptFacts DEF InCatalogue, Lenders, Gone, tables, bookTables
  <2> QED
    BY <2>4, <2>5, KeptInside
<1>2. CASE LendNext(s)
  <2>1. /\ \A t \in Slots \ {s} : pc'[t] = pc[t] /\ req'[t] = req[t] /\ hold'[t] = hold[t]
        /\ UNCHANGED <<tables, hold>> /\ req'[s].op = req[s].op /\ req[s].op \in Lenders
    BY <1>0, <1>2 DEF LendNext, Lending, Lenders, At, SlotsOK, Request
  <2>2. InCatalogue(s)'
    BY <2>1, KeptFacts DEF InCatalogue, Lenders, Gone, tables, bookTables
  <2> QED
    BY <2>1, <2>2, KeptInside
<1>3. CASE ReturnCopy(s)
  <2>1. /\ req[s].op = "return" /\ req[s].copy \in Copies
        /\ copy[req[s].copy] = "LOANED"
    BY <1>3, KeptFacts DEF ReturnCopy, CopyIsLoaned, OpAt, Given, Sync
  <2>2. PICK c \in Copies : c = req[s].copy
    BY <2>1
  <2>3. ~Gone(BookOf[c])
    BY <2>1, <2>2, KeptFacts DEF Exists, CopyStatus
  <2>4. /\ \A t \in Slots \ {s} : pc'[t] = pc[t] /\ req'[t] = req[t] /\ hold'[t] = hold[t]
        /\ UNCHANGED tables /\ req'[s].op = "return"
        /\ \A d \in Copies \ {c} : hold'[s][d] = hold[s][d]
    BY <1>0, <1>3, <2>1, <2>2 DEF ReturnCopy, ReleaseCopy, At, SlotsOK, Request
  <2>5. InCatalogue(s)'
    BY <2>3, <2>4, KeptFacts DEF InCatalogue, Gone, tables, bookTables
  <2> QED
    BY <2>4, <2>5, KeptInside
<1> QED
  BY <1>1, <1>2, <1>3

\* Administrators write copies that exist, or add copies to a book that is there.
LEMMA KeptStock ==
  ASSUME Kept, Locking', NEW s \in Slots, InsertCopy(s) \/ WriteStatus(s) \/ WriteCopies(s)
  PROVE  Kept'
<1>1. /\ \A t \in Slots \ {s} : pc'[t] = pc[t] /\ req'[t] = req[t] /\ hold'[t] = hold[t]
      /\ UNCHANGED <<tables, req>>
      /\ OpAt(pc[s], req[s].op) /\ Given(pc[s], req[s])
      /\ InCatalogue(s) /\ SlotsOK
  BY KeptFacts DEF InsertCopy, WriteStatus, WriteCopies, At, SlotsOK
<1>2. /\ \A c \in Copies : hold'[s][c] # Unwritten => hold[s][c] # Unwritten \/ ~Gone(BookOf[c])
      /\ req[s].op = "status" => hold'[s][req[s].copy] # Unwritten
  <2>1. CASE InsertCopy(s)
    <3>1. req[s].op = "create" /\ ~Gone(req[s].book)
      BY <1>1, <2>1 DEF InsertCopy, OpAt, Sync, Gone
    <3>2. PICK c \in CopiesOf(req[s].book) : hold' = [hold EXCEPT ![s][c] = "AVAILABLE"]
      BY <2>1 DEF InsertCopy, Lowest, Unused
    <3> QED
      BY <1>1, <3>1, <3>2 DEF SlotsOK, CopiesOf
  <2>2. CASE WriteStatus(s)
    <3>1. PICK c \in Copies : c = req[s].copy
      BY <1>1, <2>2 DEF WriteStatus, OpAt, Given, Sync
    <3>2. ~Gone(BookOf[c])
      BY <2>2, <3>1, KeptFacts DEF WriteStatus
    <3>3. req[s].new \in CopyStatus
      BY <1>1, <2>2 DEF WriteStatus, OpAt, Given, Sync
    <3> QED
      BY <1>1, <2>2, <3>1, <3>2, <3>3 DEF WriteStatus, SlotsOK, CopyStatus, Unwritten
  <2>3. CASE WriteCopies(s)
    <3>1. req[s].op = "resize" /\ ~Gone(req[s].book)
      BY <1>1, <2>3 DEF WriteCopies, OpAt, Sync, Gone
    <3>2. PICK new \in SUBSET CopiesOf(req[s].book) :
            hold' = [hold EXCEPT ![s] =
                      [c \in Copies |-> IF c \in req[s].removed THEN "ARCHIVED"
                                        ELSE IF c \in new THEN "AVAILABLE"
                                        ELSE Unwritten]]
      BY <2>3 DEF WriteCopies, Lowest, Unused
    <3>3. req[s].removed \subseteq CopiesOf(req[s].book)
      BY <1>1, <3>1 DEF InCatalogue
    <3> QED
      BY <1>1, <3>1, <3>2, <3>3 DEF SlotsOK, CopiesOf
  <2> QED
    BY <2>1, <2>2, <2>3
<1>3. InCatalogue(s)'
  BY <1>1, <1>2 DEF InCatalogue, Gone, CopiesOf, tables, bookTables
<1> QED
  BY <1>1, <1>3, KeptInside

-----------------------------------------------------------------------------
(* Commits.                                                                *)

\* A request that ends holds nothing.
LEMMA KeptFinish ==
  ASSUME Kept, Locking', NEW s \in Slots, Finish(s),
         \A b \in Books : Gone(b)' => Gone(b) \/ \A c \in CopiesOf(b) : CopyFree(s, c),
         \A b \in Books : Gone(b)' => WithoutHistory(b)'
  PROVE  Kept'
<1>1. /\ \A t \in Slots \ {s} : pc'[t] = pc[t] /\ req'[t] = req[t] /\ hold'[t] = hold[t]
      /\ req'[s] = NoRequest
      /\ \A c \in Copies : hold'[s][c] = Unwritten
  BY KeptFacts DEF Finish, At, SlotsOK
<1>2. InCatalogue(s)'
  BY <1>1 DEF InCatalogue, NoRequest
<1> QED
  BY <1>1, <1>2, KeptByStep

\* Loans, returns and stock commit the copies they wrote, none of a deleted book.
LEMMA KeptCommit ==
  ASSUME Kept, Locking', NEW s \in Slots,
         CommitLoans(s) \/ CommitReturn(s) \/ CommitStock(s)
  PROVE  Kept'
<1>1. /\ CommitInventory(s) /\ Finish(s) /\ bookRow' = bookRow
      /\ InCatalogue(s) /\ TablesOK /\ SlotsOK
      /\ OpAt(pc[s], req[s].op) /\ Given(pc[s], req[s])
  BY KeptFacts DEF CommitLoans, CommitReturn, CommitStock
<1>2. \A c \in Copies : BookOf[c] \in Books
  BY RowAssumption
<1>3. ASSUME NEW b \in Books, Gone(b), NEW c \in CopiesOf(b)
      PROVE  loans'[c] = <<>> /\ ~copyAudit'[c] /\ ~Exists(c)'
  <2>1. c \in Copies /\ BookOf[c] = b
    BY DEF CopiesOf
  <2>2. loans[c] = <<>> /\ ~copyAudit[c] /\ ~Exists(c)
    BY <1>3 DEF Kept, WithoutHistory
  <2>3. hold[s][c] = Unwritten
    BY <1>1, <1>3, <2>1 DEF InCatalogue
  <2>4. ~Exists(c)'
    BY <1>1, <2>1, <2>2, <2>3 DEF CommitInventory, Sees, Exists
  <2>5. loans'[c] = <<>>
    <3>1. CASE CommitLoans(s)
      BY <2>1, <2>2, <2>3, <3>1 DEF CommitLoans, Lend, Claimed, Unwritten
    <3>2. CASE CommitReturn(s)
      <4>1. req[s].loan \in DOMAIN loans[req[s].copy] /\ req[s].copy \in Copies
        BY <1>1, <3>2 DEF CommitReturn, Given
      <4>2. req[s].copy # c
        BY <2>2, <4>1
      <4> QED
        BY <1>1, <2>1, <2>2, <3>2, <4>2 DEF CommitReturn, SetStatus, TablesOK
    <3>3. CASE CommitStock(s)
      BY <2>2, <3>3 DEF CommitStock, loanTables
    <3> QED
      BY <3>1, <3>2, <3>3
  <2>6. ~copyAudit'[c]
    <3>1. CASE CommitStock(s)
      <4>1. ~ (req[s].op = "status" /\ c = req[s].copy)
        BY <1>1, <2>3, <3>1 DEF CommitStock, CanSync, InCatalogue, Sync
      <4> QED
        BY <2>1, <2>2, <3>1, <4>1 DEF CommitStock
    <3>2. CASE ~CommitStock(s)
      BY <2>2, <3>2 DEF CommitLoans, CommitReturn
    <3> QED
      BY <3>1, <3>2
  <2> QED
    BY <2>4, <2>5, <2>6
<1>4. ASSUME NEW b \in Books, Gone(b), NEW u \in Users
      PROVE  b \notin cart'[u]
  <2>1. b \notin cart[u]
    BY <1>4 DEF Kept, WithoutHistory
  <2>2. cart'[u] = cart[u] \/ cart'[u] = {}
    BY <1>1 DEF CommitLoans, CommitReturn, CommitStock, TablesOK
  <2> QED
    BY <2>1, <2>2
<1>5. \A b \in Books : Gone(b)' => Gone(b) /\ WithoutHistory(b)'
  BY <1>1, <1>3, <1>4 DEF Gone, WithoutHistory, CopiesOf
<1> QED
  BY <1>1, <1>5, KeptFinish

\* A book is deleted without history; another is archived, deleted or not before.
LEMMA KeptRemoval ==
  ASSUME Kept, Locking', NEW s \in Slots, NEW b \in Books, ArchiveBook(s, b) \/ DeleteBook(s, b)
  PROVE  Kept'
<1>1. TablesOK /\ Finish(s)
  BY KeptFacts DEF ArchiveBook, DeleteBook
<1>2. ~Gone(b) /\ \A d \in Books \ {b} : bookRow'[d] = bookRow[d]
  BY <1>1 DEF ArchiveBook, DeleteBook, CanRemove, Gone, TablesOK
<1>3. ASSUME NEW d \in Books \ {b}, Gone(d)
      PROVE  WithoutHistory(d)'
  <2>1. \A c \in CopiesOf(d) : copy'[c] = copy[c] /\ UNCHANGED <<loans, copyAudit>>
    BY DEF ArchiveBook, DeleteBook, Withdraw, CopiesOf, loanTables
  <2>2. \A u \in Users : cart'[u] \subseteq cart[u]
    BY <1>1 DEF ArchiveBook, DeleteBook, TablesOK
  <2> QED
    BY <1>3, <2>1, <2>2 DEF Kept, WithoutHistory, CopiesOf, Exists
<1>4. CASE ArchiveBook(s, b)
  <2>1. ~Gone(b)'
    BY <1>1, <1>4 DEF ArchiveBook, Gone, TablesOK
  <2> QED
    BY <1>1, <1>2, <1>3, <2>1, KeptFinish DEF Gone
<1>5. CASE DeleteBook(s, b)
  <2>1. \A c \in CopiesOf(b) : CopyFree(s, c)
    BY <1>5 DEF DeleteBook
  <2>2. WithoutHistory(b)'
    <3>1. \A c \in CopiesOf(b) : loans'[c] = <<>> /\ ~copyAudit'[c]
      BY <1>1, <1>5 DEF DeleteBook, HasHistory, loanTables, CopiesOf, TablesOK
    <3>2. \A c \in CopiesOf(b) : ~Exists(c)'
      BY <1>5 DEF DeleteBook, Withdraw, CopiesOf, Exists, CopyStatus
    <3>3. \A u \in Users : b \notin cart'[u]
      BY <1>5 DEF DeleteBook
    <3> QED
      BY <3>1, <3>2, <3>3 DEF WithoutHistory, CopiesOf
  <2> QED
    BY <1>1, <1>2, <1>3, <2>1, <2>2, KeptFinish DEF Gone
<1> QED
  BY <1>4, <1>5

\* The other requests of one statement: an item is put only of a book that is there.
LEMMA KeptOther ==
  ASSUME Kept, Locking', NEW s \in Slots,
         \/ RequestReturn(s) \/ InsertItem(s) \/ WriteRole(s) \/ WriteDelete(s) \/ Rollback(s)
         \/ \E b \in Books : WriteMove(s, b)
  PROVE  Kept'
<1>1. /\ Finish(s) /\ TablesOK /\ UNCHANGED <<bookRow, copyTables>>
      /\ OpAt(pc[s], req[s].op) /\ Given(pc[s], req[s])
  BY KeptFacts DEF RequestReturn, InsertItem, WriteRole, WriteDelete, Rollback, WriteMove, tables,
     bookTables
<1>2. ASSUME NEW b \in Books, Gone(b)
      PROVE  WithoutHistory(b)'
  <2>1. WithoutHistory(b)
    BY <1>2 DEF Kept
  <2>2. ASSUME NEW c \in CopiesOf(b) PROVE loans'[c] = <<>>
    <3>1. CASE RequestReturn(s)
      <4>1. req[s].loan \in DOMAIN loans[req[s].copy] /\ req[s].copy \in Copies
        BY <1>1, <3>1 DEF RequestReturn, OpAt, Given, Sync
      <4>2. req[s].copy # c /\ c \in Copies
        BY <2>1, <4>1 DEF WithoutHistory, CopiesOf
      <4> QED
        BY <1>1, <2>1, <3>1, <4>2 DEF RequestReturn, SetStatus, TablesOK, WithoutHistory
    <3>2. CASE ~RequestReturn(s)
      BY <2>1, <3>2 DEF InsertItem, WriteRole, WriteDelete, Rollback, WriteMove, tables, loanTables,
         WithoutHistory
    <3> QED
      BY <3>1, <3>2
  <2>3. ASSUME NEW u \in Users PROVE b \notin cart'[u]
    <3>1. CASE InsertItem(s)
      BY <1>1, <1>2, <2>1, <3>1 DEF InsertItem, BookThere, Gone, WithoutHistory, TablesOK
    <3>2. CASE ~InsertItem(s)
      <4>1. cart'[u] = cart[u] \/ cart'[u] = {}
        BY <1>1, <3>2 DEF RequestReturn, WriteRole, WriteDelete, EmptyCart, Rollback, WriteMove,
           tables, TablesOK
      <4> QED
        BY <2>1, <4>1 DEF WithoutHistory
    <3> QED
      BY <3>1, <3>2
  <2> QED
    BY <1>1, <2>1, <2>2, <2>3 DEF WithoutHistory, CopiesOf, Exists, copyTables
<1>3. \A b \in Books : Gone(b)' => Gone(b)
  BY <1>1 DEF Gone
<1> QED
  BY <1>1, <1>2, <1>3, KeptFinish

-----------------------------------------------------------------------------
LEMMA KeptNext == Kept /\ [Next]_vars => Kept'
<1> SUFFICES ASSUME Kept, [Next]_vars PROVE Kept'
  OBVIOUS
<1>0. Locking'
  BY LocksNext DEF Kept
<1>1. ASSUME NEW s \in Slots, Call(s) PROVE Kept'
  BY <1>0, <1>1, KeptCall
<1>2. ASSUME NEW s \in Slots, Step(s) PROVE Kept'
  BY <1>0, <1>2, KeptCounting, KeptLending, KeptStock, KeptCommit, KeptRemoval, KeptOther
  DEF Step, LoanStep, InventoryStep, CartStep, MembersStep
<1>3. ASSUME NEW s \in Slots, Rollback(s) PROVE Kept'
  BY <1>0, <1>3, KeptOther
<1>4. CASE UNCHANGED vars
  BY <1>0, <1>4 DEF vars, tables, copyTables, bookTables, loanTables, Kept, Gone,
     WithoutHistory, InCatalogue, CopiesOf, Exists
<1> QED
  BY <1>1, <1>2, <1>3, <1>4 DEF Next

\* No transaction has written, and no row is left of, a copy of a deleted book.
THEOREM AlwaysKept == Spec => []Kept
BY KeptInit, KeptNext, PTL DEF Spec

\* A book with loans or audit rows is never deleted, though loans, status changes
\* and removals run at once, and no cart holds a deleted book.
THEOREM HistoryStays == Spec => []HistoryKept
<1>1. Kept => HistoryKept
  BY DEF Kept, HistoryKept, WithoutHistory, Gone
<1> QED
  BY AlwaysKept, <1>1, PTL
=============================================================================
