--------------------------- MODULE CustodyProofs ----------------------------
(***************************************************************************)
(* Loans and copies: at most one loan of a copy is open, a copy marked     *)
(* LOANED has one, and the lending desk implements Custody.                *)
(***************************************************************************)
EXTENDS LendingProofs

Lent == Locking /\ OneUnreturnedLoanPerCopy /\ LoanedCopyHasLoan

-----------------------------------------------------------------------------
(* The steps that change loans.                                            *)

\* A loan is appended for each copy the transaction claimed from the shelf.
LEMMA LoansCommitted ==
  ASSUME Lent, NEW s \in Slots, CommitLoans(s)
  PROVE  /\ req[s].user \in Users
         /\ \A c \in Claimed(s) :
              /\ copy[c] = "AVAILABLE" /\ copy'[c] = "LOANED"
              /\ OpenLoans(c) = {} /\ OpenLoans(c)' = {Len(loans[c]) + 1}
              /\ loans'[c][Len(loans[c]) + 1].user = req[s].user
              /\ \A i \in DOMAIN loans[c] : loans'[c][i] = loans[c][i]
         /\ \A c \in Copies \ Claimed(s) : copy'[c] = copy[c] /\ loans'[c] = loans[c]
<1>1. req[s].op \in Lenders /\ req[s].user \in Users
  BY AtStatement DEF Lent, CommitLoans, Lending, Lenders, Given
<1>2. \A c \in Copies : copy'[c] = Sees(s, c)
  BY DEF CommitLoans, CommitInventory
<1>3. ASSUME NEW c \in Claimed(s)
      PROVE  /\ copy[c] = "AVAILABLE" /\ copy'[c] = "LOANED"
             /\ OpenLoans(c) = {} /\ OpenLoans(c)' = {Len(loans[c]) + 1}
             /\ loans'[c][Len(loans[c]) + 1].user = req[s].user
             /\ \A i \in DOMAIN loans[c] : loans'[c][i] = loans[c][i]
  <2> DEFINE new == [user |-> req[s].user, status |-> "ACTIVE", author |-> Credited(s, c)]
             n == Len(loans[c])
  <2>1. c \in Copies /\ hold[s][c] = "LOANED"
    BY DEF Claimed
  <2>2. copy[c] = "AVAILABLE" /\ copy'[c] = "LOANED"
    BY <1>2, <2>1, AtStatement DEF Lent, Lock, Sees, Unwritten
  <2>3. loans[c] \in Seq(Loan) /\ loans'[c] = Append(loans[c], new) /\ OpenLoans(c) = {}
    BY <2>1 DEF CommitLoans, Lend, Lent, Locking, Typed, TypeOK, TablesOK
  <2>4. /\ n \in Nat /\ DOMAIN loans'[c] = 1 .. n + 1 /\ DOMAIN loans[c] = 1 .. n
        /\ loans'[c][n + 1] = new
        /\ \A i \in 1 .. n : loans'[c][i] = loans[c][i]
    BY <2>3
  <2>5. OpenLoans(c)' = {n + 1}
    <3>1. n + 1 \in OpenLoans(c)'
      BY <2>4 DEF OpenLoans, LoansOf, Open, Unreturned
    <3>2. \A i \in 1 .. n : i \notin OpenLoans(c)'
      BY <2>3, <2>4 DEF OpenLoans, LoansOf, Open
    <3>3. OpenLoans(c)' \subseteq 1 .. n + 1
      BY <2>4 DEF OpenLoans, LoansOf
    <3> QED
      BY <2>4, <3>1, <3>2, <3>3
  <2> QED
    BY <2>2, <2>3, <2>4, <2>5
<1>4. ASSUME NEW c \in Copies \ Claimed(s)
      PROVE  copy'[c] = copy[c] /\ loans'[c] = loans[c]
  <2>1. hold[s][c] = Unwritten
    BY <1>1, AtStatement DEF Lent, Lock, Claimed
  <2> QED
    BY <1>2, <2>1 DEF Sees, CommitLoans, Lend
<1> QED
  BY <1>1, <1>3, <1>4

\* Changing the status of loan i of copy c changes no other loan.
LEMMA StatusChanged ==
  ASSUME Typed, NEW c \in Copies, NEW i \in DOMAIN loans[c], NEW status, SetStatus(c, i, status)
  PROVE  /\ loans'[c][i].status = status /\ loans'[c][i].user = loans[c][i].user
         /\ loans'[c][i].author = loans[c][i].author
         /\ \A j \in DOMAIN loans[c] : j # i => loans'[c][j] = loans[c][j]
         /\ \A d \in Copies : DOMAIN loans'[d] = DOMAIN loans[d]
         /\ \A d \in Copies \ {c} : loans'[d] = loans[d]
<1>1. loans[c] \in Seq(Loan) /\ loans[c][i] \in Loan /\ loans \in [Copies -> Seq(Loan)]
  BY DEF Typed, TypeOK, TablesOK
<1>2. loans' = [loans EXCEPT ![c] = [loans[c] EXCEPT ![i] =
                                        [loans[c][i] EXCEPT !.status = status]]]
  BY DEF SetStatus
<1> QED
  BY <1>1, <1>2 DEF Loan

\* A loan awaiting approval is, and stays, the only open one of its copy.
LEMMA ReturnRequested ==
  ASSUME Lent, NEW s \in Slots, RequestReturn(s),
         NEW c, c = req[s].copy, NEW i, i = req[s].loan
  PROVE  /\ c \in Copies /\ i \in DOMAIN loans[c]
         /\ OpenLoans(c) \subseteq {i} /\ OpenLoans(c)' = {i}
         /\ loans'[c][i].user = loans[c][i].user
         /\ loans'[c][i].status = "RETURN_REQUESTED"
         /\ \A j \in DOMAIN loans[c] : j # i => loans'[c][j] = loans[c][j]
         /\ \A d \in Copies \ {c} : loans'[d] = loans[d]
         /\ copy' = copy
<1>1. c \in Copies /\ i \in DOMAIN loans[c]
  BY AtStatement DEF Lent, RequestReturn, OpAt, Given, Sync
<1>2. SetStatus(c, i, "RETURN_REQUESTED") /\ OpenLoans(c) \subseteq {i} /\ copy' = copy
  BY DEF RequestReturn, IndexAdmits, copyTables
<1>3. /\ loans'[c][i].status = "RETURN_REQUESTED" /\ loans'[c][i].user = loans[c][i].user
      /\ \A j \in DOMAIN loans[c] : j # i => loans'[c][j] = loans[c][j]
      /\ DOMAIN loans'[c] = DOMAIN loans[c]
      /\ \A d \in Copies \ {c} : loans'[d] = loans[d]
  BY <1>1, <1>2, StatusChanged DEF Lent, Locking
<1>4. OpenLoans(c)' = {i}
  <2>1. i \in OpenLoans(c)'
    BY <1>1, <1>3 DEF OpenLoans, LoansOf, Open, Unreturned
  <2>2. ASSUME NEW j \in OpenLoans(c)', j # i PROVE FALSE
    BY <1>2, <1>3, <2>2 DEF OpenLoans, LoansOf, Open
  <2> QED
    BY <2>1, <2>2
<1> QED
  BY <1>1, <1>2, <1>3, <1>4

\* A return closes its loan and puts its copy on the shelf.
LEMMA ReturnCommitted ==
  ASSUME Lent, NEW s \in Slots, CommitReturn(s),
         NEW c, c = req[s].copy, NEW i, i = req[s].loan
  PROVE  /\ c \in Copies /\ i \in DOMAIN loans[c]
         /\ copy[c] = "LOANED" /\ copy'[c] = "AVAILABLE"
         /\ loans'[c][i].status = "RETURNED"
         /\ \A j \in DOMAIN loans[c] : j # i => loans'[c][j] = loans[c][j]
         /\ DOMAIN loans'[c] = DOMAIN loans[c]
         /\ \A d \in Copies \ {c} : loans'[d] = loans[d] /\ copy'[d] = copy[d]
<1>1. req[s].op = "return" /\ c \in Copies /\ i \in DOMAIN loans[c] /\ pc[s] \in Sync
  BY AtStatement DEF Lent, CommitReturn, CanSync, Given, Sync
<1>2. SetStatus(c, i, "RETURNED") /\ \A d \in Copies : copy'[d] = Sees(s, d)
  BY DEF CommitReturn, CommitInventory
<1>3. /\ hold[s][c] = "AVAILABLE" /\ copy[c] = "LOANED"
      /\ \A d \in Copies \ {c} : hold[s][d] = Unwritten
  BY <1>1, AtStatement DEF Lent, Lock
<1>4. /\ loans'[c][i].status = "RETURNED"
      /\ \A j \in DOMAIN loans[c] : j # i => loans'[c][j] = loans[c][j]
      /\ DOMAIN loans'[c] = DOMAIN loans[c]
      /\ \A d \in Copies \ {c} : loans'[d] = loans[d]
  BY <1>1, <1>2, StatusChanged DEF Lent, Locking
<1>5. copy'[c] = "AVAILABLE" /\ \A d \in Copies \ {c} : copy'[d] = copy[d]
  BY <1>1, <1>2, <1>3 DEF Sees, Unwritten
<1> QED
  BY <1>1, <1>3, <1>4, <1>5

\* No other commit touches a loan or marks a copy LOANED.
LEMMA StockCommitted ==
  ASSUME Lent, NEW s \in Slots,
         \/ CommitStock(s)
         \/ \E b \in Books, n \in 1 .. MaxSize : CreateBook(s, b, n)
         \/ \E b \in Books : ArchiveBook(s, b) \/ DeleteBook(s, b)
  PROVE  loans' = loans /\ \A c \in Copies : copy'[c] = "LOANED" => copy[c] = "LOANED"
<1>1. CASE CommitStock(s)
  <2>1. \A c \in Copies : hold[s][c] # "LOANED"
    BY <1>1, AtStatement DEF Lent, CommitStock, Lock, Lenders
  <2> QED
    BY <1>1, <2>1 DEF CommitStock, CommitInventory, Sees, loanTables
<1>2. ASSUME NEW b \in Books, NEW n \in 1 .. MaxSize, CreateBook(s, b, n)
      PROVE  loans' = loans /\ \A c \in Copies : copy'[c] = "LOANED" => copy[c] = "LOANED"
  BY <1>2 DEF CreateBook, loanTables
<1>3. ASSUME NEW b \in Books, ArchiveBook(s, b) \/ DeleteBook(s, b)
      PROVE  loans' = loans /\ \A c \in Copies : copy'[c] = "LOANED" => copy[c] = "LOANED"
  BY <1>3 DEF ArchiveBook, DeleteBook, Withdraw, loanTables
<1> QED
  BY <1>1, <1>2, <1>3

-----------------------------------------------------------------------------
(* The invariant.                                                          *)

LEMMA LentInit == Init => Lent
<1> SUFFICES ASSUME Init PROVE Lent
  OBVIOUS
<1>1. OneUnreturnedLoanPerCopy /\ LoanedCopyHasLoan
  BY DEF Init, DatabaseInit, OneUnreturnedLoanPerCopy, LoanedCopyHasLoan, OpenLoans, LoansOf
<1> QED
  BY <1>1, LocksInit DEF Lent

LEMMA LentStep ==
  ASSUME Lent, NEW s \in Slots, Call(s) \/ Step(s) \/ Rollback(s)
  PROVE  OneUnreturnedLoanPerCopy' /\ LoanedCopyHasLoan'
<1> SUFFICES ASSUME NEW c \in Copies
             PROVE  /\ \A i, j \in OpenLoans(c)' : i = j
                    /\ copy'[c] = "LOANED" => OpenLoans(c)' # {}
  BY DEF OneUnreturnedLoanPerCopy, LoanedCopyHasLoan
<1>0. /\ \A i, j \in OpenLoans(c) : i = j
      /\ copy[c] = "LOANED" => OpenLoans(c) # {}
  BY DEF Lent, OneUnreturnedLoanPerCopy, LoanedCopyHasLoan
<1>1. CASE CommitLoans(s)
  <2>1. CASE c \in Claimed(s)
    <3>1. PICK n : n = Len(loans[c]) + 1
      OBVIOUS
    <3>2. OpenLoans(c)' = {n}
      BY <1>1, <2>1, <3>1, LoansCommitted
    <3> QED
      BY <3>2
  <2>2. CASE c \notin Claimed(s)
    <3>1. copy'[c] = copy[c] /\ loans'[c] = loans[c]
      BY <1>1, <2>2, LoansCommitted
    <3> QED
      BY <1>0, <3>1 DEF OpenLoans, LoansOf, Open
  <2> QED
    BY <2>1, <2>2
<1>2. CASE RequestReturn(s)
  <2>1. CASE c = req[s].copy
    <3>1. PICK i : i = req[s].loan
      OBVIOUS
    <3>2. OpenLoans(c)' = {i}
      BY <1>2, <2>1, <3>1, ReturnRequested
    <3> QED
      BY <3>2
  <2>2. CASE c # req[s].copy
    <3>1. loans'[c] = loans[c] /\ copy'[c] = copy[c]
      BY <1>2, <2>2, ReturnRequested
    <3> QED
      BY <1>0, <3>1 DEF OpenLoans, LoansOf, Open
  <2> QED
    BY <2>1, <2>2
<1>3. CASE CommitReturn(s)
  <2>1. CASE c = req[s].copy
    <3> DEFINE i == req[s].loan
    <3>1. /\ copy'[c] = "AVAILABLE" /\ loans'[c][i].status = "RETURNED"
          /\ \A j \in DOMAIN loans[c] : j # i => loans'[c][j] = loans[c][j]
          /\ DOMAIN loans'[c] = DOMAIN loans[c]
      BY <1>3, <2>1, ReturnCommitted
    <3>2. OpenLoans(c)' \subseteq OpenLoans(c)
      BY <3>1 DEF OpenLoans, LoansOf, Open, Unreturned
    <3> QED
      BY <1>0, <3>1, <3>2
  <2>2. CASE c # req[s].copy
    <3>1. loans'[c] = loans[c] /\ copy'[c] = copy[c]
      BY <1>3, <2>2, ReturnCommitted
    <3> QED
      BY <1>0, <3>1 DEF OpenLoans, LoansOf, Open
  <2> QED
    BY <2>1, <2>2
<1>4. CASE loans' = loans /\ (copy'[c] = "LOANED" => copy[c] = "LOANED")
  BY <1>0, <1>4 DEF OpenLoans, LoansOf, Open
<1> QED
  BY <1>1, <1>2, <1>3, <1>4, StepKinds, StockCommitted

LEMMA LentNext == Lent /\ [Next]_vars => Lent'
<1> SUFFICES ASSUME Lent, [Next]_vars PROVE Lent'
  OBVIOUS
<1>1. Locking'
  BY LocksNext DEF Lent
<1>2. CASE Next
  BY <1>1, <1>2, LentStep DEF Next, Lent
<1>3. CASE UNCHANGED vars
  BY <1>1, <1>3 DEF vars, tables, copyTables, loanTables, Lent, OneUnreturnedLoanPerCopy,
     LoanedCopyHasLoan, OpenLoans, LoansOf, Open
<1> QED
  BY <1>2, <1>3

\* Loans and copies keep the invariant of the desk: one open loan for every LOANED copy.
THEOREM AlwaysLent == Spec => []Lent
BY LentInit, LentNext, PTL DEF Spec

\* No copy is ever lent to two people.
THEOREM LentOnce == Spec => []OneUnreturnedLoanPerCopy
<1>1. Lent => OneUnreturnedLoanPerCopy
  BY DEF Lent
<1> QED
  BY AlwaysLent, <1>1, PTL

\* A copy marked LOANED can be returned: an open loan accounts for it.
THEOREM LoanedAccounted == Spec => []LoanedCopyHasLoan
<1>1. Lent => LoanedCopyHasLoan
  BY DEF Lent
<1> QED
  BY AlwaysLent, <1>1, PTL

-----------------------------------------------------------------------------
(* How loans close.                                                        *)

\* Only a return closes a loan, and its copy, marked LOANED, goes back on the
\* shelf in the same commit.
LEMMA ClosingStep ==
  ASSUME Lent, NEW s \in Slots, Call(s) \/ Step(s) \/ Rollback(s),
         NEW c \in Copies, NEW i \in OpenLoans(c), loans'[c][i].status = "RETURNED"
  PROVE  copy[c] = "LOANED" /\ copy'[c] = "AVAILABLE"
<1>0. loans[c][i].status # "RETURNED" /\ i \in DOMAIN loans[c]
  BY DEF OpenLoans, LoansOf, Open, Unreturned
<1>1. CASE CommitLoans(s)
  BY <1>0, <1>1, LoansCommitted
<1>2. CASE RequestReturn(s)
  <2>1. PICK d, j : d = req[s].copy /\ j = req[s].loan
    OBVIOUS
  <2>2. /\ loans'[d][j].status = "RETURN_REQUESTED"
        /\ \A k \in DOMAIN loans[d] : k # j => loans'[d][k] = loans[d][k]
        /\ \A e \in Copies \ {d} : loans'[e] = loans[e]
    BY <1>2, <2>1, ReturnRequested
  <2> QED
    BY <1>0, <2>2
<1>3. CASE CommitReturn(s)
  <2>1. PICK d, j : d = req[s].copy /\ j = req[s].loan
    OBVIOUS
  <2>2. /\ copy[d] = "LOANED" /\ copy'[d] = "AVAILABLE"
        /\ \A e \in Copies \ {d} : loans'[e] = loans[e]
    BY <1>3, <2>1, ReturnCommitted
  <2> QED
    BY <1>0, <2>2
<1>4. CASE loans' = loans
  BY <1>0, <1>4
<1> QED
  BY <1>1, <1>2, <1>3, <1>4, StepKinds, StockCommitted

\* A loan is closed together with its copy going back on the shelf.
THEOREM LoansCloseWithTheirCopies == Spec => LoanClosesWithItsCopy
<1> DEFINE Closing == \A c \in Copies : \A i \in OpenLoans(c) :
             loans'[c][i].status = "RETURNED" => copy[c] = "LOANED" /\ copy'[c] = "AVAILABLE"
<1>1. Lent /\ [Next]_vars => [Closing]_vars
  <2> SUFFICES ASSUME Lent, Next PROVE Closing
    OBVIOUS
  <2> QED
    BY ClosingStep DEF Next
<1> QED
  BY <1>1, AlwaysLent, PTL DEF Spec, LoanClosesWithItsCopy

-----------------------------------------------------------------------------
(* The lending desk implements Custody.                                    *)

\* In the beginning nobody holds a copy.
LEMMA CustodyInit == Init => Desk!Init
BY DEF Init, DatabaseInit, Desk!Init, Holder

\* The holder of a copy depends on its row and its loans only.
LEMMA HolderSame ==
  ASSUME NEW c \in Copies, copy'[c] = copy[c], loans'[c] = loans[c]
  PROVE  Holder(c)' = Holder(c)
BY DEF Holder, OpenLoans, LoansOf, Open

\* Lending is Custody's Lend of the copies claimed.
LEMMA CustodyLend ==
  ASSUME Lent, NEW s \in Slots, CommitLoans(s)
  PROVE  Desk!Next
<1>1. PICK S, u : S = Claimed(s) /\ u = req[s].user
  OBVIOUS
<1>2. S \in SUBSET Copies /\ u \in Users
  BY <1>1, LoansCommitted DEF Claimed
<1>3. ASSUME NEW c \in S PROVE Holder(c) = None /\ Holder(c)' = u
  <2>1. PICK n : n = Len(loans[c]) + 1
    OBVIOUS
  <2>2. /\ copy[c] = "AVAILABLE" /\ copy'[c] = "LOANED"
        /\ OpenLoans(c)' = {n} /\ loans'[c][n].user = u
    BY <1>1, <2>1, LoansCommitted
  <2>3. (CHOOSE i \in OpenLoans(c)' : TRUE) = n
    BY <2>2
  <2> QED
    BY <2>2, <2>3 DEF Holder
<1>4. ASSUME NEW c \in Copies \ S PROVE Holder(c)' = Holder(c)
  <2>1. copy'[c] = copy[c] /\ loans'[c] = loans[c]
    BY <1>1, LoansCommitted
  <2> QED
    BY <2>1, HolderSame
<1>5. Desk!Lend(u, S)
  BY <1>2, <1>3, <1>4 DEF Desk!Lend, Desk!Held
<1> QED
  BY <1>2, <1>5 DEF Desk!Next

\* A request to return changes no holder.
LEMMA CustodyRequest ==
  ASSUME Lent, NEW s \in Slots, RequestReturn(s), NEW c \in Copies
  PROVE  Holder(c)' = Holder(c)
<1>1. PICK d, i : d = req[s].copy /\ i = req[s].loan
  OBVIOUS
<1>2. /\ OpenLoans(d) \subseteq {i} /\ OpenLoans(d)' = {i} /\ copy' = copy
      /\ loans'[d][i].user = loans[d][i].user
      /\ \A e \in Copies \ {d} : loans'[e] = loans[e]
  BY <1>1, ReturnRequested
<1>3. CASE c # d
  BY <1>2, <1>3, HolderSame
<1>4. CASE c = d /\ copy[c] # "LOANED"
  BY <1>2, <1>4 DEF Holder
<1>5. CASE c = d /\ copy[c] = "LOANED"
  <2>1. OpenLoans(c) = {i} /\ OpenLoans(c)' = {i}
    BY <1>2, <1>5 DEF Lent, LoanedCopyHasLoan
  <2>2. (CHOOSE j \in OpenLoans(c) : TRUE) = i /\ (CHOOSE j \in OpenLoans(c)' : TRUE) = i
    BY <2>1
  <2> QED
    BY <1>2, <1>5, <2>1, <2>2 DEF Holder
<1> QED
  BY <1>3, <1>4, <1>5

\* The other commits release the copies that stop being LOANED.
LEMMA CustodyRelease ==
  ASSUME Lent, NEW s \in Slots,
         \A c \in Copies : (copy'[c] = "LOANED" => copy[c] = "LOANED" /\ loans'[c] = loans[c])
  PROVE  Desk!Next
<1>1. PICK S : S = {c \in Copies : copy'[c] # "LOANED"}
  OBVIOUS
<1>2. ASSUME NEW c \in S PROVE Holder(c)' = None
  BY <1>1, <1>2 DEF Holder
<1>3. ASSUME NEW c \in Copies \ S PROVE Holder(c)' = Holder(c)
  BY <1>1, HolderSame
<1>4. Desk!Release(S)
  BY <1>1, <1>2, <1>3 DEF Desk!Release, Desk!Held
<1> QED
  BY <1>1, <1>4 DEF Desk!Next

\* Every step of the library is a step of Custody or leaves the holders alone.
LEMMA CustodyStep ==
  ASSUME Lent, [Next]_vars
  PROVE  Desk!Next \/ UNCHANGED [c \in Copies |-> Holder(c)]
<1>1. CASE UNCHANGED <<copy, loans>>
  BY <1>1, HolderSame
<1>2. ASSUME NEW s \in Slots, CommitReturn(s) PROVE Desk!Next
  <2>1. PICK d, i : d = req[s].copy /\ i = req[s].loan
    OBVIOUS
  <2>2. copy'[d] = "AVAILABLE" /\ \A e \in Copies \ {d} : loans'[e] = loans[e] /\ copy'[e] = copy[e]
    BY <1>2, <2>1, ReturnCommitted
  <2> QED
    BY <2>2, CustodyRelease
<1>3. ASSUME NEW s \in Slots, Call(s) \/ Step(s) \/ Rollback(s)
      PROVE  Desk!Next \/ UNCHANGED [c \in Copies |-> Holder(c)]
  BY <1>1, <1>2, <1>3, StepKinds, StockCommitted, CustodyLend, CustodyRequest, CustodyRelease
<1> QED
  BY <1>1, <1>3 DEF Next, vars, tables, copyTables, loanTables

\* The lending desk, with its statements, locks and races, does what Custody says.
THEOREM DeskImplementsCustody == Spec => CustodySpec
<1>1. Lent /\ [Next]_vars => [Desk!Next]_([c \in Copies |-> Holder(c)])
  BY CustodyStep
<1> QED
  BY <1>1, CustodyInit, AlwaysLent, PTL DEF Spec, CustodySpec, Desk!Spec

-----------------------------------------------------------------------------
(* How many loans each author is credited with.                            *)

\* A copy has no more loans than the bound, and one being lent has room for another.
LoanRoom ==
  /\ \A c \in Copies : Len(loans[c]) <= MaxLoans
  /\ \A s \in Slots, c \in Copies : hold[s][c] = "LOANED" => Len(loans[c]) < MaxLoans

Tallied == Lent /\ LoanRoom /\ BorrowedBooksCounted

\* A commit adds the loans of the copies claimed, each credited to one author.
LEMMA LoansAdded ==
  ASSUME Tallied, NEW s \in Slots, CommitLoans(s), NEW a \in Authors,
         NEW S, S = {c \in Claimed(s) : Credited(s, c) = a}
  PROVE  Cardinality(LoansCredited(a))' = Cardinality(LoansCredited(a)) + Cardinality(S)
<1>0. Lent /\ LoanRoom /\ loans \in [Copies -> Seq(Loan)] /\ MaxLoans \in Nat
  BY BoundAssumption DEF Tallied, Lent, Locking, Typed, TypeOK, TablesOK
<1>1. PICK n \in [Copies -> Nat] : \A c \in Copies : n[c] = Len(loans[c]) + 1
  <2>1. [c \in Copies |-> Len(loans[c]) + 1] \in [Copies -> Nat]
    BY <1>0
  <2> QED
    BY <2>1
<1> DEFINE f == [c \in S |-> <<c, n[c]>>]
           T == {f[c] : c \in S}
           L == LoansCredited(a)
           P == Copies \X (1 .. MaxLoans)
<1>2. ASSUME NEW c \in Copies
      PROVE  /\ DOMAIN loans[c] = 1 .. n[c] - 1
             /\ c \in Claimed(s) =>
                  /\ n[c] <= MaxLoans /\ DOMAIN loans'[c] = 1 .. n[c]
                  /\ loans'[c][n[c]].author = Credited(s, c)
                  /\ \A i \in 1 .. n[c] - 1 : loans'[c][i] = loans[c][i]
             /\ c \notin Claimed(s) => loans'[c] = loans[c]
  <2> DEFINE new == [user |-> req[s].user, status |-> "ACTIVE", author |-> Credited(s, c)]
  <2>1. loans[c] \in Seq(Loan) /\ Len(loans[c]) \in Nat /\ n[c] = Len(loans[c]) + 1
    BY <1>0, <1>1
  <2>2. DOMAIN loans[c] = 1 .. n[c] - 1
    BY <2>1
  <2>3. CASE c \in Claimed(s)
    <3>1. hold[s][c] = "LOANED" /\ loans'[c] = Append(loans[c], new)
      BY <2>3 DEF Claimed, CommitLoans, Lend
    <3>2. /\ DOMAIN loans'[c] = 1 .. n[c] /\ loans'[c][n[c]] = new
          /\ \A i \in 1 .. n[c] - 1 : loans'[c][i] = loans[c][i]
      <4> HIDE DEF new
      <4> QED
        BY <2>1, <3>1
    <3>3. Len(loans[c]) < MaxLoans
      BY <1>0, <3>1 DEF LoanRoom
    <3>4. n[c] <= MaxLoans
      BY <1>0, <2>1, <3>3
    <3> QED
      BY <2>2, <2>3, <3>2, <3>4
  <2>4. CASE c \notin Claimed(s)
    <3>1. loans'[c] = loans[c]
      BY <1>0, <2>4, LoansCommitted
    <3> QED
      BY <2>2, <2>4, <3>1
  <2> QED
    BY <2>3, <2>4
<1>3. S \in SUBSET Copies /\ IsFiniteSet(S) /\ Cardinality(S) \in Nat
  <2>1. S \in SUBSET Copies
    BY DEF Claimed
  <2> QED
    BY <2>1, FiniteCopies
<1>4. IsFiniteSet(T) /\ Cardinality(T) = Cardinality(S)
  <2>1. f \in Surjection(S, T)
    BY DEF Surjection
  <2>2. f \in Injection(S, T)
    BY DEF Injection, IsInjective
  <2> HIDE DEF f, T
  <2> QED
    BY <1>3, <2>1, <2>2, FS_Surjection
<1>5. IsFiniteSet(L)
  <2>1. IsFiniteSet(Copies) /\ IsFiniteSet(1 .. MaxLoans)
    BY <1>0, BoundAssumption, FS_Interval
  <2>2. IsFiniteSet(P)
    BY <2>1, FS_Product
  <2>3. L \in SUBSET P
    BY DEF LoansCredited
  <2> HIDE DEF L, P
  <2> QED
    BY <2>2, <2>3, FS_Subset
<1>6. L' = L \cup T
  <2>1. ASSUME NEW c \in Copies, NEW i \in 1 .. MaxLoans
        PROVE  <<c, i>> \in L' <=> <<c, i>> \in L \/ <<c, i>> \in T
    <3>1. <<c, i>> \in L <=> i \in DOMAIN loans[c] /\ loans[c][i].author = a
      BY DEF LoansCredited, LoansOf
    <3>2. <<c, i>> \in L' <=> i \in DOMAIN loans'[c] /\ loans'[c][i].author = a
      BY DEF LoansCredited, LoansOf
    <3>3. <<c, i>> \in T <=> c \in S /\ i = n[c]
      BY <1>3
    <3>4. c \in S <=> c \in Claimed(s) /\ Credited(s, c) = a
      OBVIOUS
    <3>5. n[c] \in Nat /\ i \in Nat /\ i > 0
      BY <1>1
    <3> HIDE DEF L, T
    <3>6. CASE c \in Claimed(s)
      <4>1. i \in DOMAIN loans'[c] <=> i \in DOMAIN loans[c] \/ i = n[c]
        <5>1. n[c] >= 1
          BY <1>0, <1>1
        <5> QED
          BY <1>2, <3>5, <3>6, <5>1
      <4>2. i \in DOMAIN loans[c] => loans'[c][i] = loans[c][i] /\ i # n[c]
        BY <1>2, <3>5, <3>6
      <4>3. loans'[c][n[c]].author = Credited(s, c)
        BY <1>2, <3>6
      <4> QED
        BY <3>1, <3>2, <3>3, <3>4, <3>6, <4>1, <4>2, <4>3
    <3>7. CASE c \notin Claimed(s)
      BY <1>2, <3>1, <3>2, <3>3, <3>4, <3>7
    <3> QED
      BY <3>6, <3>7
  <2>2. L \subseteq P /\ L' \subseteq P
    BY DEF LoansCredited
  <2>3. T \subseteq P
    <3>1. ASSUME NEW c \in S PROVE f[c] \in P
      <4>1. c \in Copies /\ c \in Claimed(s) /\ n[c] \in Nat /\ n[c] >= 1
        BY <1>0, <1>1, <1>3
      <4>2. n[c] \in 1 .. MaxLoans
        BY <1>0, <1>2, <4>1
      <4> QED
        BY <4>1, <4>2
    <3> QED
      BY <3>1
  <2>4. \A l \in P : \E c \in Copies, i \in 1 .. MaxLoans : l = <<c, i>>
    OBVIOUS
  <2> HIDE DEF L, T, P
  <2>5. \A l \in P : l \in L' <=> l \in L \/ l \in T
    BY <2>1, <2>4
  <2> QED
    BY <2>2, <2>3, <2>5
<1>7. L \cap T = {}
  <2>1. ASSUME NEW c \in S, f[c] \in L PROVE FALSE
    <3>1. c \in Copies /\ n[c] \in Nat /\ n[c] \in DOMAIN loans[c]
      BY <1>1, <1>3, <2>1 DEF LoansCredited, LoansOf
    <3> QED
      BY <1>2, <3>1
  <2> QED
    BY <2>1
<1> HIDE DEF L, T
<1>8. Cardinality(L') = Cardinality(L) + Cardinality(T) - Cardinality(L \cap T)
  BY <1>4, <1>5, <1>6, FS_Union
<1>9. Cardinality(L \cap T) = 0 /\ Cardinality(L) \in Nat
  BY <1>5, <1>7, FS_EmptySet, FS_CardinalityType
<1> QED
  BY <1>3, <1>4, <1>8, <1>9 DEF L

\* A statement that claims no copy, and a roll-back, lock no copy for a loan.
LEMMA ClaimsOnly ==
  ASSUME Lent, Lent', NEW s \in Slots, Call(s) \/ Step(s) \/ Rollback(s),
         NEW t \in Slots, NEW c \in Copies, hold'[t][c] = "LOANED", hold[t][c] # "LOANED"
  PROVE  Len(loans[c]) < MaxLoans /\ loans' = loans
<1>0. Locking /\ Locking' /\ SlotsOK
  BY DEF Lent, Locking, Typed, TypeOK
<1>1. CASE ClaimCopy(s)
  <2>1. PICK d \in Copies : Len(loans[d]) < MaxLoans /\ hold' = [hold EXCEPT ![s][d] = "LOANED"]
    BY <1>1 DEF ClaimCopy, CopiesOf
  <2>2. c = d
    BY <1>0, <2>1 DEF SlotsOK
  <2> QED
    BY <1>1, <2>1, <2>2 DEF ClaimCopy, tables, loanTables
<1>2. CASE hold' = hold
  BY <1>2
<1>3. CASE Finish(s)
  BY <1>0, <1>3 DEF Finish, SlotsOK, Unwritten
<1>4. CASE InsertCopy(s) \/ WriteStatus(s) \/ WriteCopies(s)
  <2>1. t = s /\ req'[s] = req[s]
    BY <1>0, <1>4 DEF InsertCopy, WriteStatus, WriteCopies, SlotsOK
  <2>2. req[s].op \notin Lenders
    BY <1>0, <1>4, AtStatement
    DEF InsertCopy, WriteStatus, WriteCopies, OpAt, Sync, Lenders
  <2>3. Lock(s, c)'
    BY <1>0 DEF Locking, LocksHeld
  <2> QED
    BY <2>1, <2>2, <2>3 DEF Lock
<1>5. CASE ReturnCopy(s)
  <2>1. hold' = [hold EXCEPT ![s][req[s].copy] = "AVAILABLE"]
    BY <1>5 DEF ReturnCopy, ReleaseCopy
  <2> QED
    BY <1>0, <2>1 DEF SlotsOK
<1>6. CASE Call(s)
  BY <1>2, <1>6, CallKinds DEF Begin, CreateBook, RemoveItems
<1>7. CASE CountTotal(s) \/ CountAvailable(s) \/ LendNext(s) \/ LockRole(s) \/ LockUser(s)
  BY <1>2, <1>7 DEF CountTotal, CountAvailable, LendNext, LockRole, LockUser
<1> QED
  BY <1>1, <1>3, <1>4, <1>5, <1>6, <1>7
  DEF Step, Rollback, LoanStep, InventoryStep, CartStep, MembersStep, CommitLoans, RequestReturn,
      CommitReturn, CommitStock, WriteMove, ArchiveBook, DeleteBook, InsertItem, WriteRole,
      WriteDelete

\* Every step but the commit of loans leaves each copy its loans, each with its
\* author, and the counters of the authors.
LEMMA LoansSame ==
  ASSUME Lent, NEW s \in Slots, Call(s) \/ Step(s) \/ Rollback(s), ~CommitLoans(s)
  PROVE  /\ \A c \in Copies :
              /\ DOMAIN loans'[c] = DOMAIN loans[c]
              /\ \A i \in DOMAIN loans[c] : loans'[c][i].author = loans[c][i].author
         /\ borrowedBooksCount' = borrowedBooksCount
<1>0. ASSUME NEW c \in Copies, NEW i \in DOMAIN loans[c], NEW status, SetStatus(c, i, status)
      PROVE  \A d \in Copies :
               /\ DOMAIN loans'[d] = DOMAIN loans[d]
               /\ \A j \in DOMAIN loans[d] : loans'[d][j].author = loans[d][j].author
  <2>1. /\ loans'[c][i].author = loans[c][i].author
        /\ \A j \in DOMAIN loans[c] : j # i => loans'[c][j] = loans[c][j]
        /\ \A d \in Copies : DOMAIN loans'[d] = DOMAIN loans[d]
        /\ \A d \in Copies \ {c} : loans'[d] = loans[d]
    BY <1>0, StatusChanged DEF Lent, Locking
  <2> QED
    BY <2>1
<1>1. CASE RequestReturn(s)
  <2>1. PICK c, i : c = req[s].copy /\ i = req[s].loan
    OBVIOUS
  <2>2. c \in Copies /\ i \in DOMAIN loans[c]
    BY <1>1, <2>1, ReturnRequested
  <2>3. SetStatus(c, i, "RETURN_REQUESTED")
    BY <1>1, <2>1 DEF RequestReturn
  <2> QED
    BY <1>0, <1>1, <2>2, <2>3 DEF RequestReturn
<1>2. CASE CommitReturn(s)
  <2>1. PICK c, i : c = req[s].copy /\ i = req[s].loan
    OBVIOUS
  <2>2. c \in Copies /\ i \in DOMAIN loans[c]
    BY <1>2, <2>1, ReturnCommitted
  <2>3. SetStatus(c, i, "RETURNED")
    BY <1>2, <2>1 DEF CommitReturn
  <2> QED
    BY <1>0, <1>2, <2>2, <2>3 DEF CommitReturn
<1>3. CASE UNCHANGED loanTables
  BY <1>3 DEF loanTables
<1>4. CASE Call(s)
  BY <1>3, <1>4, CallKinds DEF Begin, CreateBook, RemoveItems, tables
<1>5. CASE Rollback(s)
  BY <1>3, <1>5 DEF Rollback, tables
<1>6. CASE CountTotal(s) \/ CountAvailable(s) \/ ClaimCopy(s) \/ LendNext(s) \/ ReturnCopy(s)
           \/ LockRole(s) \/ LockUser(s) \/ InsertCopy(s) \/ WriteStatus(s) \/ WriteCopies(s)
  BY <1>3, <1>6 DEF CountTotal, CountAvailable, ClaimCopy, LendNext, ReturnCopy, LockRole,
     LockUser, InsertCopy, WriteStatus, WriteCopies, tables
<1>7. CASE CommitStock(s) \/ InsertItem(s) \/ WriteRole(s) \/ WriteDelete(s)
           \/ \E b \in Books : WriteMove(s, b) \/ ArchiveBook(s, b) \/ DeleteBook(s, b)
  BY <1>3, <1>7 DEF CommitStock, WriteMove, InsertItem, WriteRole, WriteDelete, ArchiveBook, DeleteBook
<1> QED
  BY <1>1, <1>2, <1>4, <1>5, <1>6, <1>7 DEF Step, LoanStep, InventoryStep, CartStep, MembersStep

LEMMA TalliedInit == Init => Tallied
<1> SUFFICES ASSUME Init PROVE Tallied
  OBVIOUS
<1>1. LoanRoom
  BY BoundAssumption DEF Init, DatabaseInit, LoanRoom, Unwritten
<1>2. ASSUME NEW a \in Authors PROVE borrowedBooksCount[a] = Cardinality(LoansCredited(a))
  <2>1. LoansCredited(a) = {}
    BY DEF Init, DatabaseInit, LoansCredited, LoansOf
  <2>2. borrowedBooksCount[a] = 0
    BY DEF Init, DatabaseInit
  <2> QED
    BY <2>1, <2>2, FS_EmptySet
<1> QED
  BY <1>1, <1>2, LentInit DEF Tallied, BorrowedBooksCounted

LEMMA TalliedCommit ==
  ASSUME Tallied, Lent', NEW s \in Slots, CommitLoans(s)
  PROVE  LoanRoom' /\ BorrowedBooksCounted'
<1>0. Lent /\ LoanRoom /\ SlotsOK /\ TablesOK /\ RowLocksExclusive /\ MaxLoans \in Nat
  BY BoundAssumption DEF Tallied, Lent, Locking, Typed, TypeOK
<1>1. ASSUME NEW c \in Copies
      PROVE  /\ Len(loans[c]) \in Nat
             /\ c \in Claimed(s) => Len(loans'[c]) = Len(loans[c]) + 1
             /\ c \notin Claimed(s) => loans'[c] = loans[c]
  <2>1. loans[c] \in Seq(Loan)
    BY <1>0 DEF TablesOK
  <2> QED
    BY <2>1 DEF CommitLoans, Lend
<1>2. ASSUME NEW c \in Copies PROVE Len(loans'[c]) <= MaxLoans
  <2>1. Len(loans[c]) <= MaxLoans /\ (c \in Claimed(s) => Len(loans[c]) < MaxLoans)
    BY <1>0 DEF LoanRoom, Claimed
  <2> QED
    BY <1>0, <1>1, <2>1
<1>3. ASSUME NEW t \in Slots, NEW c \in Copies, hold'[t][c] = "LOANED"
      PROVE  Len(loans'[c]) < MaxLoans
  <2>1. t # s /\ hold[t][c] = "LOANED"
    BY <1>0, <1>3 DEF CommitLoans, Finish, SlotsOK, Unwritten
  <2>2. c \notin Claimed(s)
    BY <1>0, <2>1 DEF RowLocksExclusive, Claimed, Unwritten
  <2>3. Len(loans[c]) < MaxLoans
    BY <1>0, <2>1 DEF LoanRoom
  <2> QED
    BY <1>1, <2>2, <2>3
<1>4. ASSUME NEW a \in Authors
      PROVE  borrowedBooksCount'[a] = Cardinality(LoansCredited(a))'
  <2>1. PICK S : S = {c \in Claimed(s) : Credited(s, c) = a}
    OBVIOUS
  <2>2. borrowedBooksCount'[a] = borrowedBooksCount[a] + Cardinality(S)
    BY <2>1 DEF CommitLoans, CountBorrowed
  <2>3. borrowedBooksCount[a] = Cardinality(LoansCredited(a))
    BY DEF Tallied, BorrowedBooksCounted
  <2> QED
    BY <2>1, <2>2, <2>3, LoansAdded
<1> QED
  BY <1>2, <1>3, <1>4 DEF LoanRoom, BorrowedBooksCounted

LEMMA TalliedOther ==
  ASSUME Tallied, Lent',
         \A c \in Copies :
           /\ DOMAIN loans'[c] = DOMAIN loans[c]
           /\ \A i \in DOMAIN loans[c] : loans'[c][i].author = loans[c][i].author,
         borrowedBooksCount' = borrowedBooksCount,
         \A t \in Slots, c \in Copies :
           hold'[t][c] = "LOANED" => hold[t][c] = "LOANED" \/ Len(loans[c]) < MaxLoans
  PROVE  LoanRoom' /\ BorrowedBooksCounted'
<1>1. \A c \in Copies : Len(loans'[c]) = Len(loans[c])
  BY DEF Tallied, Lent, Locking, Typed, TypeOK, TablesOK
<1>2. LoanRoom'
  BY <1>1 DEF Tallied, LoanRoom
<1>3. ASSUME NEW a \in Authors PROVE LoansCredited(a)' = LoansCredited(a)
  <2>1. \A l \in Copies \X (1 .. MaxLoans) : l[1] \in Copies
    OBVIOUS
  <2> QED
    BY <2>1 DEF LoansCredited, LoansOf
<1>4. BorrowedBooksCounted'
  BY <1>3 DEF Tallied, BorrowedBooksCounted
<1> QED
  BY <1>2, <1>4

LEMMA TalliedNext == Tallied /\ [Next]_vars => Tallied'
<1> SUFFICES ASSUME Tallied, [Next]_vars PROVE Tallied'
  OBVIOUS
<1>0. Lent /\ Lent'
  BY LentNext DEF Tallied
<1>1. ASSUME NEW s \in Slots, Call(s) \/ Step(s) \/ Rollback(s)
      PROVE  LoanRoom' /\ BorrowedBooksCounted'
  <2>1. CASE CommitLoans(s)
    BY <1>0, <2>1, TalliedCommit
  <2>2. CASE ~CommitLoans(s)
    BY <1>0, <1>1, <2>2, LoansSame, ClaimsOnly, TalliedOther
  <2> QED
    BY <2>1, <2>2
<1>2. ASSUME UNCHANGED vars
      PROVE  LoanRoom' /\ BorrowedBooksCounted'
  <2>1. UNCHANGED <<loans, borrowedBooksCount, hold>>
    BY <1>2 DEF vars, tables, loanTables
  <2> QED
    BY <1>0, <2>1, TalliedOther
<1>3. LoanRoom' /\ BorrowedBooksCounted'
  BY <1>1, <1>2 DEF Next
<1> QED
  BY <1>0, <1>3 DEF Tallied

\* borrowedBooksCount of each author counts, once each, the loans whose request read
\* that author of its book, however many transactions increment it at once and
\* whatever book is moved to another author meanwhile.
THEOREM BorrowedBooksAreCounted == Spec => []BorrowedBooksCounted
<1>1. Tallied => BorrowedBooksCounted
  BY DEF Tallied
<1> QED
  BY <1>1, TalliedInit, TalliedNext, PTL DEF Spec
=============================================================================
