------------------------------ MODULE Staging -------------------------------
(***************************************************************************)
(* A deployed library while its operator seeds it: the base seed, killed   *)
(* and run again, the dashboard fixture, and requests of the library       *)
(* between their statements.                                               *)
(***************************************************************************)
EXTENDS BaseSeed, DashboardFixture, Dashboard

\* The migrations leave the tables empty.
Init ==
  /\ author = [a \in AuthorIds |-> "NONE"]
  /\ category = {}
  /\ name = [x \in AuthorIds \cup CategoryIds |-> "free"]
  /\ admin = "NONE"
  /\ book = [b \in Books |-> NoBook]
  /\ copy = [c \in Barcodes |-> NoCopy]
  /\ loans = {}
  /\ review = [b \in Books |-> [u \in Users |-> 0]]
  /\ changes = 0
  /\ seed = Off
  /\ crashes = 0
  /\ raced = {}

Next ==
  \/ StartSeed \/ SeedStep \/ SeedOnlyAdmin \/ Fails \/ Crash
  \/ SeedDashboard
  \/ LibraryStep

Spec == Init /\ [][Next]_vars

\* A script that runs goes on, and the operator runs it again.
FairSpec == Spec /\ WF_vars(SeedStep \/ Fails) /\ WF_vars(StartSeed)

-----------------------------------------------------------------------------
\* Rows, and what the base seed remembers, have their types, and foreign keys
\* name existing rows.
TypeOK ==
  /\ author \in [AuthorIds -> {"NONE", "LIVE", "ARCHIVED"}]
  /\ category \subseteq CategoryIds
  /\ name \in [AuthorIds \cup CategoryIds -> {"own", "other", "free"}]
  /\ admin \in {"NONE", "USER", "ADMIN", "DELETED"}
  /\ book \in [Books -> BookRow]
  /\ copy \in [Barcodes -> Copy \cup {NoCopy}]
  /\ loans \subseteq Loan
  /\ review \in [Books -> [Users -> 0..5]]
  /\ changes \in 0..MaxChanges /\ crashes \in 0..MaxCrashes
  /\ seed \in [pc : Statements, at : Nat, next : Nat, total : Nat]
  /\ raced \subseteq Books
  /\ \A b \in Books : BookExists(b) =>
       author[AuthorOf[b]] # "NONE" /\ CategoryOf[b] \in category
  /\ \A c \in Barcodes : copy[c] # NoCopy => BookExists(copy[c].book)
  /\ \A l \in loans : copy[l.copy] # NoCopy

\* Copies are stocked once: a base seed killed between any two statements and
\* run again leaves each base book with counters that agree with its copies,
\* if no request changed the book between the count of its copies and the update.
StockCounted ==
  \A b \in Books \ raced : Visible(b) /\ CopiesOf(b) # {} =>
    /\ book[b].available = With(copy, b, {"AVAILABLE"})
    /\ b \in BaseBooks =>
         book[b].total = With(copy, b, CopyStatus \ {"ARCHIVED"})

\* A copy is LOANED exactly while it has an open loan, and then one: the
\* statuses and loans that the fixture writes agree, also on top of loans that
\* were under way.
FixtureLoansMatch ==
  \A c \in Barcodes :
    Cardinality(OpenLoans(c)) = (IF copy[c].status = "LOANED" THEN 1 ELSE 0)

\* Each run of the fixture refreshes what the dashboard shows of its books:
\* 13 available, 7 loaned, 2 damaged, 1 lost and 2 archived copies, 5 active
\* loans (2 overdue), 2 return requests and 10 returned loans; the ranking of
\* borrowed books has its five places filled.
FixtureRuns ==
  UNCHANGED <<changes, seed, crashes>> /\ <<shelf, review>>' # <<shelf, review>>
DemoRows(status) ==
  Cardinality({c \in Barcodes : copy'[c].book \in DemoBooks /\ copy'[c].status = status})
DemoLoanRows(status) ==
  {l \in loans' : copy'[l.copy].book \in DemoBooks /\ l.status = status}
FixtureAsDocumented ==
  [][FixtureRuns =>
       /\ DemoRows("AVAILABLE") = 13 /\ DemoRows("LOANED") = 7
       /\ DemoRows("DAMAGED") = 2 /\ DemoRows("LOST") = 1 /\ DemoRows("ARCHIVED") = 2
       /\ Cardinality(DemoLoanRows("ACTIVE")) = 5
       /\ Cardinality({l \in DemoLoanRows("ACTIVE") : l.overdue}) = 2
       /\ Cardinality(DemoLoanRows("RETURN_REQUESTED")) = 2
       /\ Cardinality(DemoLoanRows("RETURNED")) = 10
       /\ Cardinality(TopBorrowed') >= 5]_vars

\* After the fixture every visible book has three demo members' reviews at
\* least, not all alike, and other members' reviews stay as they were.
FixtureReviews ==
  [][FixtureRuns =>
       \A b \in Books :
         /\ review'[b][Somebody] = review[b][Somebody]
         /\ book'[b].state = "LIVE" =>
              LET by == {u \in DemoUsers : review'[b][u] # 0}
              IN Cardinality(by) >= 3 /\ Cardinality({review'[b][u] : u \in by}) > 1]_vars

\* Whatever kills a run or breaks it off, a barcode in use included, the base
\* books come to have copies when the seed is run again; unless a row with
\* another id keeps the name of a seeded author or category, which breaks off
\* every run before it reaches the books.
Stocked == \A b \in BaseBooks : BookExists(b) /\ CopiesOf(b) # {}
NameLost ==
  \/ \E i \in 1..Len(SeedAuthors) : ~NameFree(SeedAuthors[i])
  \/ \E i \in 1..Len(SeedCategories) : ~NameFree(SeedCategories[i])
StockArrives == []<>Stocked \/ <>[]NameLost
=============================================================================
