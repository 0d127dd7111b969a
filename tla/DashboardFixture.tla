-------------------------- MODULE DashboardFixture --------------------------
(***************************************************************************)
(* prisma/seed-staging-dashboard.ts: ten members, five books, 25 copies,   *)
(* 17 loans and three reviews of every visible book, in one transaction    *)
(* that may be repeated.  Its users and loans are numbered from 0 as in    *)
(* the source, its books and copies from 1.  Left out: the rows of its     *)
(* users, the counters and rating of its author, and the deletion of a     *)
(* category staging-demo-category, which no book has by then.              *)
(*                                                                         *)
(* One step is enough for it: it updates the five Book rows first and keeps *)
(* them locked, and a loan, a return or a removal of such a book that is   *)
(* under way needs the row too, to commit.                                 *)
(***************************************************************************)
EXTENDS SeedTables

\* copyStatus, for book i and its copy n.
\* Mutant: the copies asked back stand on the shelf.
Loaned_Shelved(i, n) == n = 1
Loaned(i, n) == (n <= 2 /\ i \in {1, 4}) \/ (n = 1 /\ i \in {2, 3, 5})
CopyStatusOf(i, n) ==
  IF Loaned(i, n) THEN "LOANED"
  ELSE IF n # 3 THEN "AVAILABLE"
  ELSE IF i \in {1, 2} THEN "DAMAGED"
  ELSE IF i = 3 THEN "LOST" ELSE "ARCHIVED"

DemoLoan(u, c, late, s) ==
  [no |-> 0, user |-> u, copy |-> c, overdue |-> late, status |-> s]

\* activeLoanSpecs: user i - 1 has copy 1 of book i; two of them are overdue.
ActiveLoans == {DemoLoan(i - 1, <<i, 1>>, i \in {2, 3}, "ACTIVE") : i \in DemoBooks}
\* Mutant: the second of them has no Loan row.
RequestedLoans_One == {DemoLoan(5, <<1, 2>>, FALSE, "RETURN_REQUESTED")}
RequestedLoans ==
  {DemoLoan(5, <<1, 2>>, FALSE, "RETURN_REQUESTED"),
   DemoLoan(6, <<4, 2>>, FALSE, "RETURN_REQUESTED")}

\* returnedCounts: 4, 3, 2, 1 and no returned loans, of copy 5 of each book.
\* The book of loan q = 0, 1, ... is the one whose loans reach beyond q.
ReturnedUpTo == <<4, 7, 9, 10, 10>>
ReturnedBook(q) ==
  CHOOSE i \in DemoBooks :
    /\ q < ReturnedUpTo[i]
    /\ \A j \in DemoBooks : j < i => q >= ReturnedUpTo[j]
ReturnedLoans ==
  {DemoLoan((q + 7) % 10, <<ReturnedBook(q), 5>>, FALSE, "RETURNED") : q \in 0..9}

DemoLoans == ActiveLoans \cup RequestedLoans \cup ReturnedLoans

\* The copies once all copies of the five books are replaced.
DemoCopies ==
  [c \in Barcodes |->
     IF c[1] \in DemoBooks THEN [book |-> c[1], status |-> CopyStatusOf(c[1], c[2])]
     ELSE IF copy[c].book \in DemoBooks THEN NoCopy
     ELSE copy[c]]

\* All five copies count, the archived ones too.
DemoRow(i) ==
  [state |-> "LIVE", total |-> 5, rated |-> TRUE,
   available |-> With(DemoCopies, i, {"AVAILABLE"})]

\* The visible books, the five included, and how many of them have a lower id.
Shown(b) == b \in DemoBooks \/ Visible(b)
Place(b) ==
  Cardinality({i \in 1..Len(ById) : Shown(ById[i]) /\ \E j \in i+1..Len(ById) : ById[j] = b})

\* The book in place p is reviewed by three members in turn.
\* Mutant: all three reviews are by one member.
Reviewer_Same(p, x) == p % 10
Reviewer(p, x) == (p + x) % 10
ReviewFixtures == <<5, 4, 3, 5, 2>>
DemoReview(p, x) == ReviewFixtures[((p * 3 + x) % 5) + 1]
DemoReviews ==
  [b \in Books |->
     IF ~Shown(b) THEN review[b]
     ELSE LET p == Place(b)
          IN [u \in Users |->
                IF \E x \in 0..2 : Reviewer(p, x) = u
                THEN DemoReview(p, CHOOSE x \in 0..2 : Reviewer(p, x) = u)
                ELSE review[b][u]]]

\* Mutant: the categories are not looked at.
CategoriesSeeded_Unchecked == TRUE
CategoriesSeeded == \A i \in 1..Len(SeedCategories) : SeedCategories[i] \in category

\* An active administrator, the name of its author, every seeded category, and no copy of another book
\* with a barcode of the fixture; otherwise nothing is written.
SeedDashboard ==
  /\ admin = "ADMIN"
  /\ CategoriesSeeded
  /\ \A c \in Barcodes : c[1] \in DemoBooks =>
       copy[c] = NoCopy \/ copy[c].book \in DemoBooks
  /\ NameFree(DemoAuthor) /\ Named(DemoAuthor)
  /\ author' = [author EXCEPT ![DemoAuthor] = "LIVE"]
  /\ copy' = DemoCopies
  /\ book' = [b \in Books |-> 
       IF b \in DemoBooks THEN DemoRow(b)
       ELSE IF Visible(b) THEN [book[b] EXCEPT !.rated = TRUE] ELSE book[b]]
  /\ loans' = {l \in loans : copy[l.copy].book \notin DemoBooks} \cup DemoLoans
  /\ review' = DemoReviews
  /\ UNCHANGED <<category, admin, changes, seed, crashes, raced>>
=============================================================================
