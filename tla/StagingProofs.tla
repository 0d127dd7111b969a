---------------------------- MODULE StagingProofs ----------------------------
(***************************************************************************)
(* The seeds and the library at work on their rows: rows keep their types, *)
(* loans match copies, stocked copies are counted, and each run of the     *)
(* fixture leaves what its document says.                                  *)
(***************************************************************************)
EXTENDS Staging, TLAPS, FiniteSetTheorems, SequenceTheorems

\* The row the base seed is at.
SeedAt ==
  /\ seed.pc = "author" => seed.at \in 1 .. Len(SeedAuthors)
  /\ seed.pc = "category" => seed.at \in 1 .. Len(SeedCategories)
  /\ seed.pc \in {"barcodes", "book", "countCopies", "createCopies", "setCounters"} =>
       seed.at \in 1 .. Len(SeedBooks)

Rows == TypeOK /\ SeedAt

\* A copy that is LOANED has an open loan and one only, and an open loan is of a LOANED
\* copy.
LoansMatch ==
  /\ IsFiniteSet(loans)
  /\ \A c \in Barcodes : copy[c].status = "LOANED" => \E l \in loans : l.copy = c /\ Open(l)
  /\ \A l \in loans : Open(l) => copy[l.copy].status = "LOANED"
  /\ \A k, l \in loans : Open(k) /\ Open(l) /\ k.copy = l.copy => k = l

\* What StockCounted says of one book.
Counted(b) ==
  Visible(b) /\ CopiesOf(b) # {} =>
    /\ book[b].available = With(copy, b, {"AVAILABLE"})
    /\ b \in BaseBooks => book[b].total = With(copy, b, CopyStatus \ {"ARCHIVED"})

\* A base book without copies has the counters of its creation, and the seed has read
\* them; only a request may change a book between the count of its copies and the update
\* of its counters.
Unstocked(b) == BookExists(b) /\ CopiesOf(b) = {}
Fresh(b) ==
  b \in BaseBooks /\ Unstocked(b) =>
    book[b].total = 1 /\ (Visible(b) => book[b].available = 1)
Remembered ==
  LET b == SeedBooks[seed.at]
  IN /\ seed.pc \in {"countCopies", "createCopies"} /\ Unstocked(b) => seed.total = 1
     /\ seed.pc = "createCopies" /\ b \notin raced => CopiesOf(b) = {}
     /\ seed.pc = "setCounters" => ~Unstocked(b)
     /\ seed.pc = "setCounters" /\ b \notin raced /\ Visible(b) =>
          seed.total = With(copy, b, {"AVAILABLE"})

Sown ==
  /\ \A b \in Books : Fresh(b)
  /\ \A b \in Books \ raced : Counted(b)
  /\ Remembered

IInv == Rows /\ LoansMatch /\ Sown

-----------------------------------------------------------------------------
(* The constants.                                                          *)

\* Rows of the seeds are rows there may be.
LEMMA SeedRows ==
  /\ Len(SeedAuthors) \in Nat \ {0} /\ Len(SeedCategories) \in Nat \ {0}
  /\ Len(SeedBooks) \in Nat \ {0} /\ Len(ById) \in Nat
  /\ \A i \in 1 .. Len(SeedAuthors) : SeedAuthors[i] \in AuthorIds
  /\ \A i \in 1 .. Len(SeedCategories) : SeedCategories[i] \in CategoryIds
  /\ \A i \in 1 .. Len(SeedBooks) : SeedBooks[i] \in BaseBooks
  /\ BaseBooks \subseteq Books \ DemoBooks
  /\ DemoAuthor \in AuthorIds
<1>1. Len(SeedAuthors) \in Nat \ {0} /\ Len(SeedCategories) \in Nat \ {0}
  BY SeedAssumption, EmptySeq
<1>2. Len(SeedBooks) \in Nat \ {0} /\ Len(ById) \in Nat
  BY SeedAssumption, EmptySeq
<1>3. /\ \A i \in 1 .. Len(SeedAuthors) : SeedAuthors[i] \in AuthorIds
      /\ DemoAuthor \in AuthorIds
  BY DEF AuthorIds
<1>4. \A i \in 1 .. Len(SeedCategories) : SeedCategories[i] \in CategoryIds
  BY DEF CategoryIds
<1>5. \A i \in 1 .. Len(SeedBooks) : SeedBooks[i] \in BaseBooks
  BY DEF BaseBooks
<1>6. BaseBooks \subseteq Books \ DemoBooks
  BY <1>2, SeedAssumption, ElementOfSeq DEF BaseBooks
<1> QED
  BY <1>1, <1>2, <1>3, <1>4, <1>5, <1>6

\* A barcode is a number after BK-, or a book of the fixture and a number up to 5.
LEMMA BarcodeShape ==
  /\ \A c \in Barcodes :
       \/ c[1] = 0 /\ c[2] \in 1 .. MaxBarcode /\ c = <<0, c[2]>>
       \/ c[1] \in DemoBooks /\ c[2] \in 1 .. 5 /\ c = <<c[1], c[2]>>
  /\ \A n \in 1 .. MaxBarcode : <<0, n>> \in Barcodes
  /\ \A i \in DemoBooks, n \in 1 .. 5 : <<i, n>> \in Barcodes
  /\ 0 \notin DemoBooks
BY DEF Barcodes, DemoBooks

\* There are finitely many barcodes, users and books.
LEMMA FiniteRows == IsFiniteSet(Barcodes) /\ IsFiniteSet(Users) /\ IsFiniteSet(Books)
<1>1. IsFiniteSet({0}) /\ IsFiniteSet({Somebody})
  BY FS_Singleton
<1>2. IsFiniteSet(1 .. MaxBarcode) /\ IsFiniteSet(1 .. 5) /\ IsFiniteSet(0 .. 9)
  <2>1. MaxBarcode \in Int /\ 0 \in Int /\ 1 \in Int /\ 5 \in Int /\ 9 \in Int
    BY SeedBoundAssumption
  <2>2. IsFiniteSet(1 .. MaxBarcode)
    BY <2>1, FS_Interval
  <2>3. IsFiniteSet(1 .. 5)
    BY <2>1, FS_Interval
  <2>4. IsFiniteSet(0 .. 9)
    BY <2>1, FS_Interval
  <2> QED
    BY <2>2, <2>3, <2>4
<1>3. IsFiniteSet({0} \X (1 .. MaxBarcode)) /\ IsFiniteSet((1 .. 5) \X (1 .. 5))
  BY <1>1, <1>2, FS_Product
<1>4. IsFiniteSet(Barcodes)
  BY <1>3, FS_Union DEF Barcodes, DemoBooks
<1>5. IsFiniteSet(Users)
  BY <1>1, <1>2, FS_Union DEF Users, DemoUsers
<1> DEFINE f == [i \in 1 .. Len(ById) |-> ById[i]]
<1>6. f \in Surjection(1 .. Len(ById), Books)
  BY DEF Surjection, Books
<1>7. IsFiniteSet(1 .. Len(ById))
  BY SeedRows, FS_Interval
<1> HIDE DEF f
<1>8. IsFiniteSet(Books)
  BY <1>6, <1>7, FS_Surjection
<1> QED
  BY <1>4, <1>5, <1>8

\* Counts of copies are numbers.
LEMMA WithType == \A table, b, S : With(table, b, S) \in Nat
<1> SUFFICES ASSUME NEW table, NEW b, NEW S PROVE With(table, b, S) \in Nat
  OBVIOUS
<1> DEFINE T == {c \in Barcodes : table[c].book = b /\ table[c].status \in S}
<1>1. T \in SUBSET Barcodes
  OBVIOUS
<1> HIDE DEF T
<1>2. Cardinality(T) \in Nat
  BY <1>1, FiniteRows, FS_Subset, FS_CardinalityType
<1> QED
  BY <1>2 DEF With, T

\* Every set of numbers has a least one.
LEMMA LeastNumber ==
  ASSUME NEW S, S \subseteq Nat, S # {}
  PROVE  \E n \in S : \A m \in S : n <= m
<1>1. PICK n \in S : \A m \in S : ~ (<<m, n>> \in OpToRel(<, Nat))
  BY NatLessThanWellFounded, WFMin
<1>2. \A m \in S : ~ (m < n)
  BY <1>1 DEF OpToRel
<1> QED
  BY <1>2

-----------------------------------------------------------------------------
(* Types.                                                                  *)

\* What a copy and a book of the tables are.
LEMMA RowFacts ==
  ASSUME Rows
  PROVE  /\ \A c \in Barcodes : copy[c] \in Copy \/ copy[c] = NoCopy
         /\ \A c \in Barcodes : copy[c] # NoCopy =>
              /\ copy[c].book \in Books /\ copy[c].status \in CopyStatus
              /\ copy[c] = [book |-> copy[c].book, status |-> copy[c].status]
              /\ BookExists(copy[c].book)
         /\ \A c \in Barcodes : copy[c] = NoCopy =>
              copy[c].book = 0 /\ copy[c].book \notin Books /\ copy[c].status = "NONE"
         /\ \A b \in Books : book[b] \in BookRow /\ DOMAIN book = Books
         /\ \A l \in loans : l \in Loan /\ l.copy \in Barcodes /\ copy[l.copy] # NoCopy
BY SeedAssumption DEF Rows, TypeOK, Copy, NoCopy, Loan

\* syncBookInventory writes two counts of copies and leaves the rest of the row.
LEMMA SyncedRow ==
  ASSUME NEW b \in Books, book[b] \in BookRow, NEW table
  PROVE  /\ Synced(table, b) \in BookRow
         /\ Synced(table, b).state = book[b].state
         /\ Synced(table, b).total = With(table, b, CopyStatus \ {"ARCHIVED"})
         /\ Synced(table, b).available = With(table, b, {"AVAILABLE"})
BY WithType DEF Synced, BookRow

\* The commit of a transaction that writes copy c of book b and counts its copies.
LEMMA CopySynced ==
  ASSUME Rows, NEW b \in Books, NEW c \in Barcodes, NEW st \in CopyStatus, BookExists(b),
         copy[c] = NoCopy \/ copy[c].book = b,
         copy' = [copy EXCEPT ![c] = [book |-> b, status |-> st]],
         book' = [book EXCEPT ![b] = Synced(copy', b)]
  PROVE  /\ copy' \in [Barcodes -> Copy \cup {NoCopy}] /\ book' \in [Books -> BookRow]
         /\ copy'[c].book = b /\ copy'[c].status = st
         /\ \A d \in Barcodes \ {c} : copy'[d] = copy[d]
         /\ \A d \in Barcodes : copy[d] # NoCopy => copy'[d] # NoCopy
         /\ \A d \in Books : book'[d].state = book[d].state /\ book'[d].rated = book[d].rated
         /\ \A d \in Books \ {b} : book'[d] = book[d]
         /\ book'[b].total = With(copy', b, CopyStatus \ {"ARCHIVED"})
         /\ book'[b].available = With(copy', b, {"AVAILABLE"})
         /\ \A d \in Barcodes : copy'[d] # NoCopy => book'[copy'[d].book].state # "NONE"
<1>1. copy \in [Barcodes -> Copy \cup {NoCopy}] /\ book \in [Books -> BookRow]
  BY DEF Rows, TypeOK
<1>2. PICK table : table = copy'
  OBVIOUS
<1>3. /\ Synced(table, b) \in BookRow /\ Synced(table, b).state = book[b].state
      /\ Synced(table, b).rated = book[b].rated
      /\ Synced(table, b).total = With(table, b, CopyStatus \ {"ARCHIVED"})
      /\ Synced(table, b).available = With(table, b, {"AVAILABLE"})
  BY <1>1, SyncedRow DEF Synced, BookRow
<1>4. book' = [book EXCEPT ![b] = Synced(table, b)]
  BY <1>2
<1>5. [book |-> b, status |-> st] \in Copy /\ [book |-> b, status |-> st] # NoCopy
  BY SeedAssumption DEF Copy, NoCopy
<1>6. copy' \in [Barcodes -> Copy \cup {NoCopy}] /\ copy'[c] = [book |-> b, status |-> st]
  BY <1>1, <1>5
<1>7. \A d \in Barcodes \ {c} : copy'[d] = copy[d]
  BY <1>1
<1>8. /\ book' \in [Books -> BookRow] /\ book'[b] = Synced(table, b)
      /\ \A d \in Books \ {b} : book'[d] = book[d]
  BY <1>1, <1>3, <1>4
<1>9. \A d \in Books : book'[d].state = book[d].state /\ book'[d].rated = book[d].rated
  BY <1>3, <1>8
<1>10. ASSUME NEW d \in Barcodes, copy'[d] # NoCopy PROVE book'[copy'[d].book].state # "NONE"
  <2>1. \A e \in Books : book[e].state # "NONE" => book'[e].state # "NONE"
    BY <1>9
  <2>2. CASE d = c
    BY <1>6, <2>1, <2>2 DEF BookExists
  <2>3. CASE d # c
    BY <1>7, <1>10, <2>1, <2>3, RowFacts DEF BookExists
  <2> QED
    BY <2>2, <2>3
<1>11. book'[b].total = With(copy', b, CopyStatus \ {"ARCHIVED"}) /\ book'[b].available = With(copy', b, {"AVAILABLE"})
  BY <1>2, <1>3, <1>8
<1> QED
  BY <1>5, <1>6, <1>7, <1>8, <1>9, <1>10, <1>11

\* A request on a book keeps the rows typed if it does so of the tables it writes and
\* creates no book.
LEMMA ChangeKeepsRows ==
  ASSUME Rows, NEW b \in Touched, Change(b),
         copy' \in [Barcodes -> Copy \cup {NoCopy}], book' \in [Books -> BookRow],
         loans' \subseteq Loan, review' \in [Books -> [Users -> 0 .. 5]],
         \A d \in Books : book'[d].state # "NONE" => BookExists(d),
         \A c \in Barcodes : copy'[c] # NoCopy => book'[copy'[c].book].state # "NONE",
         \A l \in loans' : copy'[l.copy] # NoCopy
  PROVE  Rows'
<1>1. changes' \in 0 .. MaxChanges
  BY SeedBoundAssumption DEF Rows, TypeOK, Change, Request
<1>2. raced' \subseteq Books
  BY SeedBoundAssumption DEF Rows, TypeOK, Change
<1>3. UNCHANGED <<author, category, name, admin, seed, crashes>>
  BY DEF Change
<1>4. SeedAt'
  BY <1>3 DEF Rows, SeedAt
<1>5. \A d \in Books : book'[d].state # "NONE" =>
        author'[AuthorOf[d]] # "NONE" /\ CategoryOf[d] \in category'
  BY <1>3 DEF Rows, TypeOK, BookExists
<1>6. TypeOK'
  BY <1>1, <1>2, <1>3, <1>5 DEF Rows, TypeOK, BookExists
<1> QED
  BY <1>4, <1>6 DEF Rows

\* A loan, with the copy LOANED and the counters of its book.
LEMMA LendRows ==
  ASSUME Rows, NEW b \in Touched, NEW c \in CopiesOf(b), Lend(c)
  PROVE  Rows'
<1>1. b \in Books /\ c \in Barcodes /\ copy[c].book = b /\ BookExists(b)
  BY SeedBoundAssumption DEF CopiesOf, Lend, Visible, BookExists
<1>2. /\ copy' = [copy EXCEPT ![c] = [book |-> b, status |-> "LOANED"]]
      /\ book' = [book EXCEPT ![b] = Synced(copy', b)]
      /\ Change(b) /\ review' = review
  BY <1>1 DEF Lend
<1> DEFINE new == [no |-> changes + 1, user |-> Somebody, copy |-> c, overdue |-> FALSE,
                   status |-> "ACTIVE"]
<1>3. loans' = loans \cup {new}
  BY DEF Lend
<1>4. new \in Loan
  BY <1>1, <1>2, SeedBoundAssumption DEF Loan, Users, Rows, TypeOK, Change, Request
<1> HIDE DEF new
<1>5. loans' \subseteq Loan
  BY <1>3, <1>4 DEF Rows, TypeOK
<1>6. "LOANED" \in CopyStatus
  BY DEF CopyStatus
<1>7. /\ copy' \in [Barcodes -> Copy \cup {NoCopy}] /\ book' \in [Books -> BookRow]
      /\ copy'[c].book = b
      /\ \A d \in Barcodes : copy[d] # NoCopy => copy'[d] # NoCopy
      /\ \A d \in Books : book'[d].state = book[d].state
      /\ \A d \in Barcodes : copy'[d] # NoCopy => book'[copy'[d].book].state # "NONE"
  BY <1>1, <1>2, <1>6, CopySynced
<1>8. \A l \in loans' : copy'[l.copy] # NoCopy
  <2>1. copy'[new.copy] # NoCopy
    BY <1>1, <1>7, SeedAssumption DEF new, NoCopy
  <2> QED
    BY <1>3, <1>7, <2>1, RowFacts
<1> QED
  BY <1>2, <1>5, <1>7, <1>8, ChangeKeepsRows DEF Rows, TypeOK, BookExists

\* A request to return changes one loan.
LEMMA AskReturnRows ==
  ASSUME Rows, NEW l \in loans, AskReturn(l)
  PROVE  Rows'
<1>1. [l EXCEPT !.status = "RETURN_REQUESTED"] \in Loan /\ [l EXCEPT !.status = "RETURN_REQUESTED"].copy = l.copy
  BY RowFacts DEF Loan
<1>2. loans' \subseteq Loan /\ \A k \in loans' : copy[k.copy] # NoCopy
  BY <1>1, RowFacts DEF AskReturn, Rows, TypeOK
<1>3. changes' \in 0 .. MaxChanges
  BY SeedBoundAssumption DEF AskReturn, Request, Rows, TypeOK
<1> QED
  BY <1>2, <1>3 DEF AskReturn, Rows, TypeOK, SeedAt, BookExists

\* A return changes a loan and its copy, and counts.
LEMMA ReturnRows ==
  ASSUME Rows, NEW b \in Touched, NEW l \in loans, copy[l.copy].book = b, Return(l)
  PROVE  Rows'
<1>1. b \in Books /\ l.copy \in Barcodes /\ copy[l.copy] # NoCopy /\ BookExists(b) /\ l \in Loan
  BY SeedBoundAssumption, RowFacts
<1>2. /\ copy' = [copy EXCEPT ![l.copy] = [book |-> b, status |-> "AVAILABLE"]]
      /\ book' = [book EXCEPT ![b] = Synced(copy', b)]
      /\ Change(b) /\ review' = review
  BY DEF Return
<1>3. [l EXCEPT !.status = "RETURNED"] \in Loan /\ [l EXCEPT !.status = "RETURNED"].copy = l.copy
  BY <1>1 DEF Loan
<1>4. loans' \subseteq Loan /\ \A k \in loans' : copy[k.copy] # NoCopy /\ k.copy \in Barcodes
  BY <1>1, <1>3, RowFacts DEF Return, Rows, TypeOK
<1>5. "AVAILABLE" \in CopyStatus
  BY DEF CopyStatus
<1>6. /\ copy' \in [Barcodes -> Copy \cup {NoCopy}] /\ book' \in [Books -> BookRow]
      /\ \A d \in Barcodes : copy[d] # NoCopy => copy'[d] # NoCopy
      /\ \A d \in Books : book'[d].state = book[d].state
      /\ \A d \in Barcodes : copy'[d] # NoCopy => book'[copy'[d].book].state # "NONE"
  BY <1>1, <1>2, <1>5, CopySynced
<1> QED
  BY <1>2, <1>4, <1>6, ChangeKeepsRows DEF Rows, TypeOK, BookExists

\* A new copy of a book that exists.
LEMMA AddCopyRows ==
  ASSUME Rows, NEW b \in Touched, NEW c \in Typed, AddCopy(b, c)
  PROVE  Rows'
<1>1. b \in Books /\ c \in Barcodes /\ copy[c] = NoCopy /\ BookExists(b)
  BY SeedBoundAssumption DEF AddCopy, Visible, BookExists
<1>2. /\ copy' = [copy EXCEPT ![c] = [book |-> b, status |-> "AVAILABLE"]]
      /\ book' = [book EXCEPT ![b] = Synced(copy', b)]
      /\ Change(b) /\ review' = review /\ loans' = loans
  BY DEF AddCopy
<1>3. "AVAILABLE" \in CopyStatus
  BY DEF CopyStatus
<1>4. /\ copy' \in [Barcodes -> Copy \cup {NoCopy}] /\ book' \in [Books -> BookRow]
      /\ \A d \in Barcodes : copy[d] # NoCopy => copy'[d] # NoCopy
      /\ \A d \in Books : book'[d].state = book[d].state
      /\ \A d \in Barcodes : copy'[d] # NoCopy => book'[copy'[d].book].state # "NONE"
  BY <1>1, <1>2, <1>3, CopySynced
<1>5. \A l \in loans' : copy'[l.copy] # NoCopy
  BY <1>2, <1>4, RowFacts
<1> QED
  BY <1>2, <1>4, <1>5, ChangeKeepsRows DEF Rows, TypeOK, BookExists

\* A removed book keeps its row, ARCHIVED, and so do its copies, or all of them go: the
\* copies of the others stay.
LEMMA Removal ==
  ASSUME Rows, NEW b \in Touched, RemoveBook(b)
  PROVE  /\ b \in Books /\ Visible(b) /\ Change(b) /\ loans' = loans /\ review' = review
         /\ copy' \in [Barcodes -> Copy \cup {NoCopy}] /\ book' \in [Books -> BookRow]
         /\ \A d \in Books \ {b} : book'[d] = book[d]
         /\ \A c \in Barcodes : copy[c].book # b => copy'[c] = copy[c]
         /\ book'[b].state # "LIVE"
         /\ \/ /\ HasHistory(b)
               /\ book'[b].state = "ARCHIVED" /\ book'[b].total = book[b].total
               /\ book'[b].available = 0
               /\ \A c \in Barcodes : copy[c].book = b =>
                    copy'[c].book = b /\ copy'[c].status = "ARCHIVED" /\ copy'[c] # NoCopy
            \/ /\ ~HasHistory(b) /\ book'[b] = NoBook
               /\ \A c \in Barcodes : copy[c].book = b => copy'[c] = NoCopy
<1>1. /\ b \in Books /\ Visible(b) /\ Change(b) /\ loans' = loans /\ review' = review
      /\ copy \in [Barcodes -> Copy \cup {NoCopy}] /\ book \in [Books -> BookRow]
  BY SeedBoundAssumption DEF RemoveBook, Rows, TypeOK
<1>2. CASE /\ HasHistory(b)
           /\ copy' = [c \in Barcodes |-> IF copy[c].book = b
                THEN [book |-> b, status |-> "ARCHIVED"] ELSE copy[c]]
           /\ book' = [book EXCEPT ![b] = [book[b] EXCEPT !.state = "ARCHIVED", !.available = 0]]
  <2> DEFINE kept == [book |-> b, status |-> "ARCHIVED"]
             row == [book[b] EXCEPT !.state = "ARCHIVED", !.available = 0]
  <2>1. kept \in Copy /\ kept # NoCopy /\ kept.book = b /\ kept.status = "ARCHIVED"
    BY <1>1, SeedAssumption DEF Copy, CopyStatus, NoCopy
  <2>2. /\ row \in BookRow /\ row.state = "ARCHIVED" /\ row.total = book[b].total
        /\ row.available = 0
    BY <1>1 DEF BookRow
  <2>3. copy' = [c \in Barcodes |-> IF copy[c].book = b THEN kept ELSE copy[c]]
    BY <1>2
  <2>4. book' = [book EXCEPT ![b] = row]
    BY <1>2
  <2> HIDE DEF kept, row
  <2>5. /\ copy' \in [Barcodes -> Copy \cup {NoCopy}]
        /\ \A c \in Barcodes : copy[c].book # b => copy'[c] = copy[c]
        /\ \A c \in Barcodes : copy[c].book = b => copy'[c] = kept
    BY <1>1, <2>1, <2>3
  <2>6. /\ book' \in [Books -> BookRow] /\ book'[b] = row
        /\ \A d \in Books \ {b} : book'[d] = book[d]
    BY <1>1, <2>2, <2>4
  <2> QED
    BY <1>1, <1>2, <2>1, <2>2, <2>5, <2>6
<1>3. CASE /\ ~HasHistory(b)
           /\ copy' = [c \in Barcodes |-> IF copy[c].book = b THEN NoCopy ELSE copy[c]]
           /\ book' = [book EXCEPT ![b] = NoBook]
  <2>1. NoBook \in BookRow /\ NoBook.state = "NONE"
    BY DEF NoBook, BookRow
  <2>2. /\ book' \in [Books -> BookRow] /\ book'[b] = NoBook
        /\ \A d \in Books \ {b} : book'[d] = book[d]
    BY <1>1, <1>3, <2>1
  <2>3. /\ copy' \in [Barcodes -> Copy \cup {NoCopy}]
        /\ \A c \in Barcodes : copy[c].book # b => copy'[c] = copy[c]
        /\ \A c \in Barcodes : copy[c].book = b => copy'[c] = NoCopy
    BY <1>1, <1>3
  <2> QED
    BY <1>1, <1>3, <2>1, <2>2, <2>3
<1> QED
  BY <1>2, <1>3 DEF RemoveBook

\* A book is archived with its copies, or deleted with them when no loan refers to them.
LEMMA RemoveBookRows ==
  ASSUME Rows, NEW b \in Touched, RemoveBook(b)
  PROVE  Rows'
<1>1. /\ b \in Books /\ Visible(b) /\ Change(b) /\ loans' = loans /\ review' = review
      /\ copy' \in [Barcodes -> Copy \cup {NoCopy}] /\ book' \in [Books -> BookRow]
      /\ \A d \in Books \ {b} : book'[d] = book[d]
      /\ \A c \in Barcodes : copy[c].book # b => copy'[c] = copy[c]
  BY Removal
<1>2. \A d \in Books : book'[d].state # "NONE" => BookExists(d)
  BY <1>1 DEF Visible, BookExists
<1>3. \A c \in Barcodes : copy'[c] # NoCopy => book'[copy'[c].book].state # "NONE"
  <2> SUFFICES ASSUME NEW c \in Barcodes, copy'[c] # NoCopy
               PROVE  book'[copy'[c].book].state # "NONE"
    OBVIOUS
  <2>1. CASE copy[c].book = b
    BY <1>1, <2>1, Removal
  <2>2. CASE copy[c].book # b
    BY <1>1, <2>2, RowFacts DEF BookExists
  <2> QED
    BY <2>1, <2>2
<1>4. \A l \in loans' : copy'[l.copy] # NoCopy
  <2> SUFFICES ASSUME NEW l \in loans PROVE copy'[l.copy] # NoCopy
    BY <1>1
  <2>1. l.copy \in Barcodes /\ copy[l.copy] # NoCopy
    BY RowFacts
  <2>2. CASE copy[l.copy].book = b
    <3>1. HasHistory(b)
      BY <2>2 DEF HasHistory
    <3> QED
      BY <2>1, <2>2, <3>1, Removal
  <2>3. CASE copy[l.copy].book # b
    BY <1>1, <2>1, <2>3
  <2> QED
    BY <2>2, <2>3
<1> QED
  BY <1>1, <1>2, <1>3, <1>4, ChangeKeepsRows DEF Rows, TypeOK

\* A rating of a book.
LEMMA RateRows ==
  ASSUME Rows, NEW b \in Touched, Rate(b, 1)
  PROVE  Rows'
<1>1. b \in Books /\ Somebody \in Users
  BY SeedBoundAssumption DEF Users
<1>2. [book[b] EXCEPT !.rated = TRUE] \in BookRow /\ [book[b] EXCEPT !.rated = TRUE].state = book[b].state
  BY <1>1, RowFacts DEF BookRow
<1>3. /\ book' \in [Books -> BookRow]
      /\ \A d \in Books : book'[d].state = book[d].state
  BY <1>1, <1>2 DEF Rate, Rows, TypeOK
<1>4. review' \in [Books -> [Users -> 0 .. 5]]
  BY <1>1 DEF Rate, Rows, TypeOK
<1>5. changes' \in 0 .. MaxChanges
  BY SeedBoundAssumption DEF Rate, Request, Rows, TypeOK
<1> QED
  BY <1>3, <1>4, <1>5 DEF Rate, Rows, TypeOK, SeedAt, BookExists

\* A name is a row's own, another row's, or free.
LEMMA NameKept ==
  ASSUME Rows, NEW x \in AuthorIds \cup CategoryIds,
         \/ UNCHANGED name
         \/ \E who \in {"own", "other", "free"} : name' = [name EXCEPT ![x] = who]
  PROVE  name' \in [AuthorIds \cup CategoryIds -> {"own", "other", "free"}]
BY DEF Rows, TypeOK

\* A row that goes leaves its name free, or to the row that has it.
LEMMA NameLeft ==
  ASSUME Rows, NEW x \in AuthorIds \cup CategoryIds
  PROVE  Unnamed(x) \in {"own", "other", "free"}
BY DEF Rows, TypeOK, Unnamed

\* An author whose books are all hidden is archived, one without books deleted.
LEMMA RemoveAuthorRows ==
  ASSUME Rows, NEW i \in 1 .. Len(SeedAuthors), RemoveAuthor(SeedAuthors[i])
  PROVE  Rows'
<1>1. changes' \in 0 .. MaxChanges
  BY SeedBoundAssumption DEF RemoveAuthor, Request, Rows, TypeOK
<1>2. author' \in [AuthorIds -> {"NONE", "LIVE", "ARCHIVED"}]
  BY SeedRows DEF RemoveAuthor, Rows, TypeOK
<1>3. \A b \in Books : BookExists(b) => author'[AuthorOf[b]] # "NONE"
  BY SeedRows, SeedAssumption DEF RemoveAuthor, Rows, TypeOK
<1>4. name' \in [AuthorIds \cup CategoryIds -> {"own", "other", "free"}]
  BY SeedRows, NameLeft, NameKept DEF RemoveAuthor
<1> QED
  BY <1>1, <1>2, <1>3, <1>4 DEF RemoveAuthor, shelf, Rows, TypeOK, SeedAt, BookExists

\* A category goes only without books.
LEMMA RemoveCategoryRows ==
  ASSUME Rows, NEW i \in 1 .. Len(SeedCategories), RemoveCategory(SeedCategories[i])
  PROVE  Rows'
<1>1. changes' \in 0 .. MaxChanges
  BY SeedBoundAssumption DEF RemoveCategory, Request, Rows, TypeOK
<1>2. category' \subseteq CategoryIds /\ \A b \in Books : BookExists(b) => CategoryOf[b] \in category'
  BY DEF RemoveCategory, Rows, TypeOK
<1>3. name' \in [AuthorIds \cup CategoryIds -> {"own", "other", "free"}]
  BY SeedRows, NameLeft, NameKept DEF RemoveCategory
<1> QED
  BY <1>1, <1>2, <1>3 DEF RemoveCategory, shelf, Rows, TypeOK, SeedAt, BookExists

\* A name changes hands.
LEMMA RenameRows ==
  ASSUME Rows, NEW x \in Claimed, Rename(x)
  PROVE  Rows'
<1>1. changes' \in 0 .. MaxChanges
  BY SeedBoundAssumption DEF Rename, Request, Rows, TypeOK
<1>2. name' \in [AuthorIds \cup CategoryIds -> {"own", "other", "free"}]
  BY SeedBoundAssumption, NameKept DEF Rename
<1> QED
  BY <1>1, <1>2 DEF Rename, shelf, Rows, TypeOK, SeedAt, BookExists

\* The administrator's account comes or goes.
LEMMA ChangeAdminRows ==
  ASSUME Rows, ChangeAdmin
  PROVE  Rows'
<1>1. changes' \in 0 .. MaxChanges
  BY SeedBoundAssumption DEF ChangeAdmin, Request, Rows, TypeOK
<1> QED
  BY <1>1 DEF ChangeAdmin, shelf, Rows, TypeOK, SeedAt, BookExists

-----------------------------------------------------------------------------
(* Types: the statements of the base seed.                                 *)

\* A loop goes on with the next row, or ends after the last.
LEMMA LoopKinds ==
  ASSUME Rows, NEW rows, Len(rows) \in Nat, NEW label \in Statements, NEW after \in Statements
  PROVE  /\ Loop(rows, label, after) \in [pc : Statements, at : Nat, next : Nat, total : Nat]
         /\ \/ /\ Loop(rows, label, after).pc = label
               /\ Loop(rows, label, after).at = seed.at + 1 /\ seed.at + 1 <= Len(rows)
            \/ Loop(rows, label, after).pc = after /\ Loop(rows, label, after).at = 1
<1>1. seed \in [pc : Statements, at : Nat, next : Nat, total : Nat]
  BY DEF Rows, TypeOK
<1>2. CASE seed.at < Len(rows)
  <2>1. Loop(rows, label, after) = [seed EXCEPT !.pc = label, !.at = seed.at + 1]
    BY <1>2 DEF Loop
  <2>2. seed.at + 1 \in Nat /\ seed.at + 1 <= Len(rows)
    BY <1>1, <1>2
  <2> QED
    BY <1>1, <2>1, <2>2
<1>3. CASE ~(seed.at < Len(rows))
  <2>1. Loop(rows, label, after) = [seed EXCEPT !.pc = after, !.at = 1]
    BY <1>3 DEF Loop
  <2>2. /\ Loop(rows, label, after).pc = after /\ Loop(rows, label, after).at = 1
        /\ Loop(rows, label, after).next \in Nat /\ Loop(rows, label, after).total \in Nat
    BY <1>1, <2>1
  <2>3. Loop(rows, label, after) \in [pc : Statements, at : Nat, next : Nat, total : Nat]
    <3>1. PICK one \in Nat : one = 1
      OBVIOUS
    <3>2. Loop(rows, label, after) = [seed EXCEPT !.pc = after, !.at = one]
      BY <2>1, <3>1
    <3> QED
      BY <1>1, <3>2
  <2> QED
    BY <2>2, <2>3
<1> QED
  BY <1>2, <1>3

\* After a book the seed goes on with the next, or with the administrator.
LEMMA NextBookKinds ==
  ASSUME Rows
  PROVE  /\ NextBook \in [pc : Statements, at : Nat, next : Nat, total : Nat]
         /\ \/ NextBook.pc = "book" /\ NextBook.at \in 1 .. Len(SeedBooks)
            \/ NextBook.pc = "admin"
<1>1. "book" \in Statements /\ "admin" \in Statements
  BY DEF Statements
<1>2. Len(SeedBooks) \in Nat /\ seed.at \in Nat
  BY SeedRows DEF Rows, TypeOK
<1> QED
  BY <1>1, <1>2, LoopKinds DEF NextBook

\* A statement of the seed that leaves the library's tables as they are, and the row it
\* is at is one of the loop's.
LEMMA SeedKeepsRows ==
  ASSUME Rows, UNCHANGED <<tables, raced, changes, crashes>>,
         seed' \in [pc : Statements, at : Nat, next : Nat, total : Nat], SeedAt'
  PROVE  Rows'
BY DEF Rows, TypeOK, BookExists, tables, shelf

\* There is a number after the highest barcode, which is the least with all above it free.
LEMMA NextBarcodeExists ==
  ASSUME Rows
  PROVE  NextBarcode \in 1 .. MaxBarcode + 1
<1> DEFINE Free(n) == \A m \in n .. MaxBarcode : copy[<<0, m>>] = NoCopy
           S == {n \in 1 .. MaxBarcode + 1 : Free(n)}
<1>1. S \subseteq Nat /\ MaxBarcode + 1 \in S
  BY SeedBoundAssumption
<1>2. PICK n \in S : \A m \in S : n <= m
  <2> HIDE DEF S
  <2> QED
    BY <1>1, LeastNumber
<1>3. ASSUME n # 1 PROVE copy[<<0, n - 1>>] # NoCopy
  <2>1. n - 1 \in 1 .. MaxBarcode /\ n - 1 \notin S
    BY <1>2, <1>3, SeedBoundAssumption
  <2>2. PICK m \in n - 1 .. MaxBarcode : copy[<<0, m>>] # NoCopy
    BY <2>1, SeedBoundAssumption
  <2>3. m \notin n .. MaxBarcode
    BY <1>2, <2>2
  <2>4. m = n - 1
    BY <1>2, <2>1, <2>2, <2>3, SeedBoundAssumption
  <2> QED
    BY <2>2, <2>4
<1> QED
  BY <1>2, <1>3 DEF NextBarcode

\* The book that the seed is at is one of its own.
LEMMA BaseBook ==
  ASSUME Rows, seed.pc \in {"barcodes", "book", "countCopies", "createCopies", "setCounters"}
  PROVE  /\ SeedBooks[seed.at] \in Books /\ SeedBooks[seed.at] \in BaseBooks
         /\ SeedBooks[seed.at] \notin DemoBooks
BY SeedRows DEF Rows, SeedAt

\* An upsert of an author takes none away.
LEMMA UpsertAuthorRows ==
  ASSUME Rows, UpsertAuthor
  PROVE  Rows'
<1>1. SeedAuthors[seed.at] \in AuthorIds
  BY SeedRows DEF UpsertAuthor, Rows, SeedAt
<1>2. /\ author' \in [AuthorIds -> {"NONE", "LIVE", "ARCHIVED"}]
      /\ \A a \in AuthorIds : author[a] # "NONE" => author'[a] # "NONE"
  BY <1>1 DEF UpsertAuthor, Rows, TypeOK
<1>3. \A b \in Books : BookExists(b) => author'[AuthorOf[b]] # "NONE"
  BY <1>2, SeedAssumption DEF Rows, TypeOK
<1>4. /\ seed' \in [pc : Statements, at : Nat, next : Nat, total : Nat]
      /\ \/ seed'.pc = "author" /\ seed'.at \in 1 .. Len(SeedAuthors)
         \/ seed'.pc = "category" /\ seed'.at = 1
  <2>1. seed' = Loop(SeedAuthors, "author", "category") /\ Len(SeedAuthors) \in Nat /\ seed.at \in Nat
    BY SeedRows DEF UpsertAuthor, Write, Rows, TypeOK
  <2>2. "author" \in Statements /\ "category" \in Statements
    BY DEF Statements
  <2> QED
    BY <2>1, <2>2, LoopKinds
<1>5. SeedAt'
  BY <1>4, SeedRows DEF SeedAt
<1>6. name' \in [AuthorIds \cup CategoryIds -> {"own", "other", "free"}]
  BY <1>1, NameKept DEF UpsertAuthor, Named
<1> QED
  BY <1>2, <1>3, <1>4, <1>5, <1>6 DEF UpsertAuthor, Write, shelf, Rows, TypeOK, BookExists

\* Nor does one of a category.
LEMMA UpsertCategoryRows ==
  ASSUME Rows, UpsertCategory
  PROVE  Rows'
<1>1. SeedCategories[seed.at] \in CategoryIds
  BY SeedRows DEF UpsertCategory, Rows, SeedAt
<1>2. category' \subseteq CategoryIds /\ category \subseteq category'
  BY <1>1 DEF UpsertCategory, Rows, TypeOK
<1>3. /\ seed' \in [pc : Statements, at : Nat, next : Nat, total : Nat]
      /\ \/ seed'.pc = "category" /\ seed'.at \in 1 .. Len(SeedCategories)
         \/ seed'.pc = "barcodes" /\ seed'.at = 1
  <2>1. seed' = Loop(SeedCategories, "category", "barcodes") /\ Len(SeedCategories) \in Nat /\ seed.at \in Nat
    BY SeedRows DEF UpsertCategory, Write, Rows, TypeOK
  <2>2. "category" \in Statements /\ "barcodes" \in Statements
    BY DEF Statements
  <2> QED
    BY <2>1, <2>2, LoopKinds
<1>4. SeedAt'
  BY <1>3, SeedRows DEF SeedAt
<1>5. name' \in [AuthorIds \cup CategoryIds -> {"own", "other", "free"}]
  BY <1>1, NameKept DEF UpsertCategory, Named
<1> QED
  BY <1>2, <1>3, <1>4, <1>5 DEF UpsertCategory, Write, shelf, Rows, TypeOK, BookExists

\* What the upsert leaves in the row of a book, and remembers.
LEMMA Upserted ==
  ASSUME Rows, UpsertBook, NEW b, b = SeedBooks[seed.at]
  PROVE  /\ b \in Books /\ b \in BaseBooks /\ b \notin DemoBooks
         /\ book' \in [Books -> BookRow] /\ \A d \in Books \ {b} : book'[d] = book[d]
         /\ book'[b].state # "NONE" /\ (BookExists(b) => book'[b].state = book[b].state)
         /\ BookExists(b) => book'[b].total = book[b].total /\ book'[b].available = book[b].available
         /\ ~BookExists(b) => book'[b].total = 1 /\ book'[b].available = 1
         /\ seed'.pc = "countCopies" /\ seed'.at = seed.at /\ seed'.total = book'[b].total
         /\ seed' \in [pc : Statements, at : Nat, next : Nat, total : Nat]
         /\ author[AuthorOf[b]] # "NONE" /\ CategoryOf[b] \in category
<1> DEFINE row == IF BookExists(b) THEN [book[b] EXCEPT !.rated = FALSE]
                  ELSE [state |-> "LIVE", total |-> 1, available |-> 1, rated |-> FALSE]
<1>1. /\ b \in Books /\ b \in BaseBooks /\ b \notin DemoBooks
      /\ book \in [Books -> BookRow]
      /\ seed \in [pc : Statements, at : Nat, next : Nat, total : Nat]
  BY BaseBook DEF UpsertBook, Rows, TypeOK
<1>2. /\ row \in BookRow /\ row.total \in Nat /\ row.state # "NONE"
      /\ (BookExists(b) => row.state = book[b].state)
      /\ BookExists(b) => row.total = book[b].total /\ row.available = book[b].available
      /\ ~BookExists(b) => row.total = 1 /\ row.available = 1
  BY <1>1 DEF BookRow, BookExists
<1>3. /\ book' = [book EXCEPT ![b] = row]
      /\ seed' = [seed EXCEPT !.pc = "countCopies", !.total = row.total]
      /\ author[AuthorOf[b]] # "NONE" /\ CategoryOf[b] \in category
  BY DEF UpsertBook, Write
<1> HIDE DEF row
<1>4. book' \in [Books -> BookRow] /\ book'[b] = row /\ \A d \in Books \ {b} : book'[d] = book[d]
  BY <1>1, <1>2, <1>3
<1>5. /\ seed'.pc = "countCopies" /\ seed'.at = seed.at /\ seed'.total = row.total
      /\ seed' \in [pc : Statements, at : Nat, next : Nat, total : Nat]
  BY <1>1, <1>2, <1>3 DEF Statements
<1> QED
  BY <1>1, <1>2, <1>3, <1>4, <1>5

\* A book is inserted only with its author and category.
LEMMA UpsertBookRows ==
  ASSUME Rows, UpsertBook
  PROVE  Rows'
<1>1. PICK b : b = SeedBooks[seed.at]
  OBVIOUS
<1>2. /\ b \in Books /\ book' \in [Books -> BookRow] /\ \A d \in Books \ {b} : book'[d] = book[d]
      /\ book'[b].state # "NONE"
      /\ seed'.pc = "countCopies" /\ seed'.at = seed.at
      /\ seed' \in [pc : Statements, at : Nat, next : Nat, total : Nat]
      /\ author[AuthorOf[b]] # "NONE" /\ CategoryOf[b] \in category
  BY <1>1, Upserted
<1>3. SeedAt'
  BY <1>2 DEF UpsertBook, Rows, SeedAt
<1>4. UNCHANGED <<author, category, name, admin, copy, loans, review, raced, changes, crashes>>
  BY DEF UpsertBook, Write
<1>5. \A d \in Books : book'[d].state # "NONE" =>
        author'[AuthorOf[d]] # "NONE" /\ CategoryOf[d] \in category'
  BY <1>2, <1>4 DEF Rows, TypeOK, BookExists
<1>6. \A c \in Barcodes : copy[c] # NoCopy => book'[copy[c].book].state # "NONE"
  BY <1>2, RowFacts DEF BookExists
<1> QED
  BY <1>2, <1>3, <1>4, <1>5, <1>6 DEF Rows, TypeOK, BookExists

\* The count writes nothing.
LEMMA CountCopiesRows ==
  ASSUME Rows, CountCopies
  PROVE  Rows'
<1>1. /\ seed' \in [pc : Statements, at : Nat, next : Nat, total : Nat]
      /\ \/ seed'.pc = "createCopies" /\ seed'.at = seed.at
         \/ seed'.pc = "book" /\ seed'.at \in 1 .. Len(SeedBooks)
         \/ seed'.pc = "admin"
  <2>1. CASE seed' = [seed EXCEPT !.pc = "createCopies"]
    BY <2>1 DEF Statements, Rows, TypeOK
  <2>2. CASE seed' = NextBook
    BY <2>2, NextBookKinds
  <2> QED
    BY <2>1, <2>2 DEF CountCopies, Write
<1>2. SeedAt'
  BY <1>1 DEF CountCopies, Rows, SeedAt
<1> QED
  BY <1>1, <1>2, SeedKeepsRows DEF CountCopies, Write

\* The copies that createMany inserts.
NewBarcodes == {<<0, n>> : n \in seed.next .. seed.next + seed.total - 1}
\* What createMany leaves: new copies of the book, all on the shelf, on barcodes that were free.
LEMMA Created ==
  ASSUME Rows, CreateCopies, NEW b, b = SeedBooks[seed.at], NEW new, new = NewBarcodes
  PROVE  /\ b \in Books /\ b \in BaseBooks /\ b \notin DemoBooks /\ BookExists(b)
         /\ new \subseteq Barcodes /\ \A c \in new : copy[c] = NoCopy
         /\ copy' \in [Barcodes -> Copy \cup {NoCopy}]
         /\ \A c \in Barcodes \ new : copy'[c] = copy[c]
         /\ \A c \in new : copy'[c].book = b /\ copy'[c].status = "AVAILABLE" /\ copy'[c] # NoCopy
         /\ seed'.pc = "setCounters" /\ seed'.at = seed.at /\ seed'.total = seed.total
         /\ seed' \in [pc : Statements, at : Nat, next : Nat, total : Nat]
<1> DEFINE row == [book |-> b, status |-> "AVAILABLE"]
<1>1. /\ b \in Books /\ b \in BaseBooks /\ b \notin DemoBooks /\ BookExists(b)
      /\ copy \in [Barcodes -> Copy \cup {NoCopy}]
      /\ seed \in [pc : Statements, at : Nat, next : Nat, total : Nat]
  BY BaseBook DEF CreateCopies, Rows, TypeOK
<1>2. row \in Copy /\ row # NoCopy /\ row.book = b /\ row.status = "AVAILABLE"
  BY <1>1, SeedAssumption DEF Copy, CopyStatus, NoCopy
<1>3. /\ new \subseteq Barcodes /\ \A c \in new : copy[c] = NoCopy
      /\ copy' = [c \in Barcodes |-> IF c \in new THEN row ELSE copy[c]]
      /\ seed' = [seed EXCEPT !.pc = "setCounters", !.next = seed.next + seed.total]
  BY DEF CreateCopies, Write, NewBarcodes
<1> HIDE DEF row
<1>4. /\ copy' \in [Barcodes -> Copy \cup {NoCopy}]
      /\ \A c \in Barcodes \ new : copy'[c] = copy[c] 
      /\ \A c \in new : copy'[c] = row
  BY <1>1, <1>2, <1>3
<1>5. /\ seed'.pc = "setCounters" /\ seed'.at = seed.at /\ seed'.total = seed.total
      /\ seed' \in [pc : Statements, at : Nat, next : Nat, total : Nat]
  <2>1. PICK n : n = seed.next + seed.total
    OBVIOUS
  <2>2. n \in Nat /\ seed' = [seed EXCEPT !.pc = "setCounters", !.next = n]
    BY <1>1, <1>3, <2>1
  <2> QED
    BY <1>1, <2>2 DEF Statements
<1> QED
  BY <1>1, <1>2, <1>3, <1>4, <1>5

\* They are of a book that exists.
LEMMA CreateCopiesRows ==
  ASSUME Rows, CreateCopies
  PROVE  Rows'
<1>1. PICK b : b = SeedBooks[seed.at]
  OBVIOUS
<1>2. PICK new : new = NewBarcodes
  OBVIOUS
<1>3. /\ b \in Books /\ BookExists(b) /\ copy' \in [Barcodes -> Copy \cup {NoCopy}]
      /\ \A c \in Barcodes \ new : copy'[c] = copy[c]
      /\ \A c \in new : copy'[c].book = b /\ copy'[c] # NoCopy
      /\ seed'.pc = "setCounters" /\ seed'.at = seed.at
      /\ seed' \in [pc : Statements, at : Nat, next : Nat, total : Nat]
  BY <1>1, <1>2, Created
<1>4. SeedAt'
  BY <1>3 DEF CreateCopies, Rows, SeedAt
<1>5. UNCHANGED <<author, category, name, admin, book, loans, review, raced, changes, crashes>>
  BY DEF CreateCopies, Write
<1>6. \A c \in Barcodes : copy'[c] # NoCopy => book[copy'[c].book].state # "NONE"
  BY <1>3, RowFacts DEF BookExists
<1>7. \A l \in loans : copy'[l.copy] # NoCopy
  BY <1>3, RowFacts
<1> QED
  BY <1>3, <1>4, <1>5, <1>6, <1>7 DEF Rows, TypeOK, BookExists

\* The counter is a number.
LEMMA SetCountersRows ==
  ASSUME Rows, SetCounters
  PROVE  Rows'
<1>1. PICK b : b = SeedBooks[seed.at]
  OBVIOUS
<1>2. b \in Books /\ book[b] \in BookRow /\ seed.total \in Nat
  BY <1>1, BaseBook DEF SetCounters, Rows, TypeOK
<1>3. [book[b] EXCEPT !.available = seed.total] \in BookRow /\ [book[b] EXCEPT !.available = seed.total].state = book[b].state
  BY <1>2 DEF BookRow
<1>4. book' \in [Books -> BookRow] /\ \A d \in Books : book'[d].state = book[d].state
  BY <1>1, <1>2, <1>3 DEF SetCounters, Rows, TypeOK
<1>5. /\ seed' \in [pc : Statements, at : Nat, next : Nat, total : Nat]
      /\ \/ seed'.pc = "book" /\ seed'.at \in 1 .. Len(SeedBooks)
         \/ seed'.pc = "admin"
  BY NextBookKinds DEF SetCounters, Write
<1>6. SeedAt'
  BY <1>5 DEF SeedAt
<1> QED
  BY <1>4, <1>5, <1>6 DEF SetCounters, Write, Rows, TypeOK, BookExists

\* The statements that write no rows but the administrator's.
LEMMA OtherSeedRows ==
  ASSUME Rows, StartSeed \/ ReadBarcodes \/ SeedAdmin \/ SeedOnlyAdmin \/ Fails \/ Crash
  PROVE  Rows'
<1>1. CASE StartSeed
  <2>1. seed' = [pc |-> "author", at |-> 1, next |-> 0, total |-> 0]
    BY <1>1 DEF StartSeed, Off, Write
  <2>2. seed' \in [pc : Statements, at : Nat, next : Nat, total : Nat]
    BY <2>1 DEF Statements
  <2>3. SeedAt'
    BY <2>1, SeedRows DEF SeedAt
  <2> QED
    BY <1>1, <2>2, <2>3, SeedKeepsRows DEF StartSeed, Write
<1>2. CASE ReadBarcodes
  <2>1. NextBarcode \in Nat
    BY NextBarcodeExists, SeedBoundAssumption
  <2>2. seed' = [seed EXCEPT !.pc = "book", !.next = NextBarcode] /\ seed.pc = "barcodes"
    BY <1>2 DEF ReadBarcodes, Write
  <2>3. /\ seed' \in [pc : Statements, at : Nat, next : Nat, total : Nat]
        /\ seed'.pc = "book" /\ seed'.at = seed.at
    BY <2>1, <2>2 DEF Statements, Rows, TypeOK
  <2>4. SeedAt'
    BY <2>2, <2>3 DEF SeedAt, Rows
  <2> QED
    BY <1>2, <2>3, <2>4, SeedKeepsRows DEF ReadBarcodes, Write
<1>3. CASE SeedAdmin \/ SeedOnlyAdmin
  <2>1. admin' \in {"NONE", "USER", "ADMIN", "DELETED"}
    BY <1>3 DEF SeedAdmin, SeedOnlyAdmin
  <2>2. seed' = seed \/ seed' = Off
    BY <1>3 DEF SeedAdmin, SeedOnlyAdmin, Write
  <2>3. seed' \in [pc : Statements, at : Nat, next : Nat, total : Nat] /\ SeedAt'
    BY <2>2 DEF Off, Statements, SeedAt, Rows, TypeOK
  <2>4. UNCHANGED <<author, category, name, shelf, review, changes, crashes, raced>>
    BY <1>3 DEF SeedAdmin, SeedOnlyAdmin, Write
  <2> QED
    BY <2>1, <2>3, <2>4 DEF shelf, Rows, TypeOK, BookExists
<1>4. CASE Fails \/ Crash
  <2>1. seed' = Off /\ UNCHANGED <<tables, changes, raced>>
    BY <1>4 DEF Fails, Crash, Stop
  <2>2. crashes' \in 0 .. MaxCrashes
    BY <1>4, SeedBoundAssumption DEF Fails, Crash, Rows, TypeOK
  <2>3. seed' \in [pc : Statements, at : Nat, next : Nat, total : Nat] /\ SeedAt'
    BY <2>1 DEF Off, Statements, SeedAt
  <2> QED
    BY <2>1, <2>2, <2>3 DEF tables, shelf, Rows, TypeOK, BookExists
<1> QED
  BY <1>1, <1>2, <1>3, <1>4

-----------------------------------------------------------------------------
(* Types: the fixture.                                                     *)

\* The copies it leaves: its own 25, none else of its books, and the others'.
LEMMA FixtureCopies ==
  ASSUME Rows, SeedDashboard
  PROVE  /\ copy' \in [Barcodes -> Copy \cup {NoCopy}]
         /\ \A c \in Barcodes : c[1] \in DemoBooks =>
              /\ copy'[c].book = c[1] /\ copy'[c].status = CopyStatusOf(c[1], c[2])
              /\ copy'[c] # NoCopy
         /\ \A c \in Barcodes : c[1] \notin DemoBooks /\ copy[c].book \in DemoBooks =>
              copy'[c] = NoCopy
         /\ \A c \in Barcodes : c[1] \notin DemoBooks /\ copy[c].book \notin DemoBooks =>
              copy'[c] = copy[c]
         /\ \A c \in Barcodes : copy[c].book \notin DemoBooks /\ copy[c] # NoCopy =>
              c[1] \notin DemoBooks
<1>1. copy \in [Barcodes -> Copy \cup {NoCopy}] /\ DemoBooks \subseteq Books
  BY SeedAssumption DEF Rows, TypeOK
<1>2. \A i, n : CopyStatusOf(i, n) \in CopyStatus
  BY DEF CopyStatusOf, CopyStatus
<1>3. \A b \in DemoBooks, st \in CopyStatus :
        /\ [book |-> b, status |-> st] \in Copy /\ [book |-> b, status |-> st] # NoCopy
  BY <1>1, SeedAssumption DEF Copy, NoCopy
<1>4. copy' = DemoCopies
  BY DEF SeedDashboard
<1>5. \A c \in Barcodes :
        copy'[c] = IF c[1] \in DemoBooks THEN [book |-> c[1], status |-> CopyStatusOf(c[1], c[2])]
                   ELSE IF copy[c].book \in DemoBooks THEN NoCopy ELSE copy[c]
  BY <1>4 DEF DemoCopies
<1>6. ASSUME NEW c \in Barcodes, c[1] \in DemoBooks
      PROVE  /\ copy'[c].book = c[1] /\ copy'[c].status = CopyStatusOf(c[1], c[2])
             /\ copy'[c] \in Copy /\ copy'[c] # NoCopy
  <2>1. PICK st \in CopyStatus : st = CopyStatusOf(c[1], c[2])
    BY <1>2
  <2>2. PICK b \in DemoBooks : b = c[1]
    BY <1>6
  <2>3. copy'[c] = [book |-> b, status |-> st]
    BY <1>5, <1>6, <2>1, <2>2
  <2> QED
    BY <1>3, <2>1, <2>2, <2>3
<1>7. copy' \in [Barcodes -> Copy \cup {NoCopy}]
  <2>1. \A c \in Barcodes : copy'[c] \in Copy \cup {NoCopy}
    BY <1>1, <1>5, <1>6
  <2>2. copy' = [c \in Barcodes |-> copy'[c]]
    BY <1>4 DEF DemoCopies
  <2> HIDE DEF NoCopy
  <2> QED
    BY <2>1, <2>2
<1>8. \A c \in Barcodes : c[1] \in DemoBooks =>
        /\ copy'[c].book = c[1] /\ copy'[c].status = CopyStatusOf(c[1], c[2])
        /\ copy'[c] # NoCopy
  BY <1>6
<1>9. \A c \in Barcodes : copy[c].book \notin DemoBooks /\ copy[c] # NoCopy => c[1] \notin DemoBooks
  BY DEF SeedDashboard
<1> QED
  BY <1>5, <1>7, <1>8, <1>9

\* The books it leaves: its own five anew, the others with the counters they had.
LEMMA FixtureBooks ==
  ASSUME Rows, SeedDashboard
  PROVE  /\ book' \in [Books -> BookRow]
         /\ \A b \in DemoBooks : /\ b \in Books /\ book'[b].state = "LIVE"
                                 /\ book'[b].available = With(copy', b, {"AVAILABLE"})
         /\ \A b \in Books \ DemoBooks :
              /\ book'[b].state = book[b].state /\ book'[b].total = book[b].total
              /\ book'[b].available = book[b].available
<1>1. book \in [Books -> BookRow] /\ DemoBooks \subseteq Books
  BY SeedAssumption DEF Rows, TypeOK
<1>2. \A b \in Books :
        book'[b] = IF b \in DemoBooks THEN DemoRow(b)
                   ELSE IF Visible(b) THEN [book[b] EXCEPT !.rated = TRUE] ELSE book[b]
  BY DEF SeedDashboard
<1>3. \A b \in DemoBooks : /\ DemoRow(b) \in BookRow /\ DemoRow(b).state = "LIVE"
                           /\ DemoRow(b).available = With(DemoCopies, b, {"AVAILABLE"})
  BY WithType DEF DemoRow, BookRow
<1>4. \A b \in Books \ DemoBooks :
        /\ book'[b] \in BookRow
        /\ book'[b].state = book[b].state /\ book'[b].total = book[b].total
        /\ book'[b].available = book[b].available
  BY <1>1, <1>2 DEF BookRow
<1>5. \A b \in Books : book'[b] \in BookRow
  BY <1>2, <1>3, <1>4
<1>6. book' = [b \in Books |-> book'[b]]
  BY DEF SeedDashboard
<1>7. copy' = DemoCopies
  BY DEF SeedDashboard
<1> QED
  BY <1>1, <1>2, <1>3, <1>4, <1>5, <1>6, <1>7

\* The first four books have 4, 3, 2 and 1 of the returned loans, the fifth none.
LEMMA ReturnedBooks ==
  \A q \in 0 .. 9 :
    ReturnedBook(q) = IF q < 4 THEN 1 ELSE IF q < 7 THEN 2 ELSE IF q < 9 THEN 3 ELSE 4
<1> SUFFICES ASSUME NEW q \in 0 .. 9
             PROVE  ReturnedBook(q) = IF q < 4 THEN 1 ELSE IF q < 7 THEN 2 ELSE IF q < 9 THEN 3 ELSE 4
  OBVIOUS
<1> DEFINE i == IF q < 4 THEN 1 ELSE IF q < 7 THEN 2 ELSE IF q < 9 THEN 3 ELSE 4
           Takes(k) == q < ReturnedUpTo[k] /\ \A j \in DemoBooks : j < k => q >= ReturnedUpTo[j]
<1>1. /\ ReturnedUpTo[1] = 4 /\ ReturnedUpTo[2] = 7 /\ ReturnedUpTo[3] = 9
      /\ ReturnedUpTo[4] = 10 /\ ReturnedUpTo[5] = 10
  BY DEF ReturnedUpTo
<1>2. i \in DemoBooks /\ Takes(i)
  BY <1>1 DEF DemoBooks
<1>3. \A k \in DemoBooks : Takes(k) => k = i
  BY <1>1 DEF DemoBooks
<1>4. ReturnedBook(q) = CHOOSE k \in DemoBooks : Takes(k)
  BY DEF ReturnedBook
<1> HIDE DEF i, Takes
<1>5. ReturnedBook(q) = i
  BY <1>2, <1>3, <1>4
<1> QED
  BY <1>5 DEF i

\* A row of the fixture's loans.
LEMMA DemoLoanRow ==
  ASSUME NEW u \in DemoUsers, NEW i \in DemoBooks, NEW n \in 1 .. 5,
         NEW late, late \in BOOLEAN,
         NEW s, s \in {"ACTIVE", "RETURN_REQUESTED", "RETURNED"},
         NEW c, c = <<i, n>>, NEW l, l = DemoLoan(u, c, late, s)
  PROVE  /\ l \in Loan /\ l.copy \in Barcodes /\ l.copy = c
         /\ l.copy[1] = i /\ l.copy[2] = n
         /\ l.no = 0 /\ l.user = u /\ l.overdue = late /\ l.status = s
<1>1. c \in Barcodes
  BY BarcodeShape
<1>2. l = [no |-> 0, user |-> u, copy |-> c, overdue |-> late, status |-> s]
  BY <1>1 DEF DemoLoan
<1>3. 0 \in 0 .. MaxChanges /\ u \in Users
  BY SeedBoundAssumption DEF Users
<1>4. l \in Loan /\ l.copy = c
  BY <1>1, <1>2, <1>3 DEF Loan
<1>5. l.no = 0 /\ l.user = u /\ l.status = s
  BY <1>2
<1>6. l.overdue = late
  BY <1>2
<1> QED
  BY <1>1, <1>4, <1>5, <1>6

\* The five active loans, by book.
ActiveOf == [i \in DemoBooks |-> DemoLoan(i - 1, <<i, 1>>, i \in {2, 3}, "ACTIVE")]
\* Each is of the first copy; those of books 2 and 3 are overdue.
LEMMA ActiveRows ==
  /\ ActiveLoans = {ActiveOf[i] : i \in DemoBooks}
  /\ \A i \in DemoBooks :
       /\ ActiveOf[i] \in Loan /\ ActiveOf[i].copy \in Barcodes /\ ActiveOf[i].copy = <<i, 1>>
       /\ ActiveOf[i].copy[1] = i /\ ActiveOf[i].copy[2] = 1
       /\ ActiveOf[i].status = "ACTIVE" /\ (ActiveOf[i].overdue <=> i \in {2, 3})
<1>1. ActiveLoans = {ActiveOf[i] : i \in DemoBooks}
  BY DEF ActiveLoans, ActiveOf
<1>2. ASSUME NEW i \in DemoBooks
      PROVE  /\ ActiveOf[i] \in Loan /\ ActiveOf[i].copy \in Barcodes /\ ActiveOf[i].copy = <<i, 1>>
             /\ ActiveOf[i].copy[1] = i /\ ActiveOf[i].copy[2] = 1
             /\ ActiveOf[i].status = "ACTIVE" /\ (ActiveOf[i].overdue <=> i \in {2, 3})
  <2>1. PICK l : l = ActiveOf[i]
    OBVIOUS
  <2>2. PICK u : u = i - 1
    OBVIOUS
  <2>3. u \in DemoUsers
    BY <2>2 DEF DemoBooks, DemoUsers
  <2>4. PICK late : late = (i \in {2, 3})
    OBVIOUS
  <2>5. late \in BOOLEAN
    <3>1. CASE i \in {2, 3}
      BY <2>4, <3>1
    <3>2. CASE i \notin {2, 3}
      BY <2>4, <3>2
    <3> QED
      BY <3>1, <3>2
  <2>c. PICK c : c = <<i, 1>>
    OBVIOUS
  <2>6. l = DemoLoan(u, c, late, "ACTIVE")
    BY <2>c, <2>1, <2>2, <2>4, Zenon DEF ActiveOf
  <2>7. 1 \in 1 .. 5 /\ "ACTIVE" \in {"ACTIVE", "RETURN_REQUESTED", "RETURNED"}
    OBVIOUS
  <2>8. /\ l \in Loan /\ l.copy \in Barcodes /\ l.copy = c
        /\ l.copy[1] = i /\ l.copy[2] = 1 /\ l.status = "ACTIVE" /\ l.overdue = late
    BY <2>3, <2>5, <2>6, <2>7, <2>c, DemoLoanRow
  <2>9. l.overdue <=> i \in {2, 3}
    BY <2>4, <2>8, Zenon
  <2> QED
    BY <2>c, <2>1, <2>8, <2>9
<1> QED
  BY <1>1, <1>2

\* The two loans asked back, of books 1 and 4.
RequestOf ==
  [i \in {1, 4} |-> IF i = 1 THEN DemoLoan(5, <<1, 2>>, FALSE, "RETURN_REQUESTED")
                    ELSE DemoLoan(6, <<4, 2>>, FALSE, "RETURN_REQUESTED")]
\* Each is of the second copy.
LEMMA RequestRows ==
  /\ RequestedLoans = {RequestOf[i] : i \in {1, 4}}
  /\ \A i \in {1, 4} :
       /\ i \in DemoBooks
       /\ RequestOf[i] \in Loan /\ RequestOf[i].copy \in Barcodes /\ RequestOf[i].copy = <<i, 2>>
       /\ RequestOf[i].copy[1] = i /\ RequestOf[i].copy[2] = 2
       /\ RequestOf[i].status = "RETURN_REQUESTED"
<1>1. RequestedLoans = {RequestOf[i] : i \in {1, 4}}
  BY DEF RequestedLoans, RequestOf
<1>2. ASSUME NEW i \in {1, 4}
      PROVE  /\ i \in DemoBooks
             /\ RequestOf[i] \in Loan /\ RequestOf[i].copy \in Barcodes /\ RequestOf[i].copy = <<i, 2>>
             /\ RequestOf[i].copy[1] = i /\ RequestOf[i].copy[2] = 2
             /\ RequestOf[i].status = "RETURN_REQUESTED"
  <2>1. PICK l : l = RequestOf[i]
    OBVIOUS
  <2>2. PICK u \in DemoUsers : u = IF i = 1 THEN 5 ELSE 6
    BY DEF DemoUsers
  <2>c. PICK c : c = <<i, 2>>
    OBVIOUS
  <2>5. PICK late : late = FALSE /\ late \in BOOLEAN
    OBVIOUS
  <2>3. l = DemoLoan(u, c, late, "RETURN_REQUESTED")
    BY <2>c, <2>1, <2>2, <2>5 DEF RequestOf
  <2>4. 2 \in 1 .. 5 /\ i \in DemoBooks /\ "RETURN_REQUESTED" \in {"ACTIVE", "RETURN_REQUESTED", "RETURNED"}
    BY DEF DemoBooks
  <2>6. /\ l \in Loan /\ l.copy \in Barcodes /\ l.copy = c
        /\ l.copy[1] = i /\ l.copy[2] = 2 /\ l.status = "RETURN_REQUESTED"
    BY <2>2, <2>3, <2>4, <2>5, <2>c, DemoLoanRow
  <2> QED
    BY <2>c, <2>1, <2>4, <2>6
<1> QED
  BY <1>1, <1>2

\* The ten returned loans, each of its own user.
ReturnOf == [q \in 0 .. 9 |-> DemoLoan((q + 7) % 10, <<ReturnedBook(q), 5>>, FALSE, "RETURNED")]
\* They are of the fifth copies.
LEMMA ReturnRowsOf ==
  /\ ReturnedLoans = {ReturnOf[q] : q \in 0 .. 9}
  /\ \A q \in 0 .. 9 :
       /\ ReturnedBook(q) \in DemoBooks
       /\ ReturnOf[q] \in Loan /\ ReturnOf[q].copy \in Barcodes
       /\ ReturnOf[q].copy[1] = ReturnedBook(q) /\ ReturnOf[q].copy[2] = 5
       /\ ReturnOf[q].status = "RETURNED" /\ ReturnOf[q].user = (q + 7) % 10
<1>1. ReturnedLoans = {ReturnOf[q] : q \in 0 .. 9}
  BY DEF ReturnedLoans, ReturnOf
<1>2. ASSUME NEW q \in 0 .. 9
      PROVE  /\ ReturnedBook(q) \in DemoBooks
             /\ ReturnOf[q] \in Loan /\ ReturnOf[q].copy \in Barcodes
             /\ ReturnOf[q].copy[1] = ReturnedBook(q) /\ ReturnOf[q].copy[2] = 5
             /\ ReturnOf[q].status = "RETURNED" /\ ReturnOf[q].user = (q + 7) % 10
  <2>1. PICK l : l = ReturnOf[q]
    OBVIOUS
  <2>2. PICK u \in DemoUsers : u = (q + 7) % 10
    BY DEF DemoUsers
  <2>3. PICK i \in DemoBooks : i = ReturnedBook(q)
    BY ReturnedBooks DEF DemoBooks
  <2>c. PICK c : c = <<i, 5>>
    OBVIOUS
  <2>6. PICK late : late = FALSE /\ late \in BOOLEAN
    OBVIOUS
  <2>4. l = DemoLoan(u, c, late, "RETURNED")
    BY <2>c, <2>1, <2>2, <2>3, <2>6 DEF ReturnOf
  <2>5. 5 \in 1 .. 5 /\ "RETURNED" \in {"ACTIVE", "RETURN_REQUESTED", "RETURNED"}
    OBVIOUS
  <2>7. /\ l \in Loan /\ l.copy \in Barcodes /\ l.copy[1] = i /\ l.copy[2] = 5
        /\ l.status = "RETURNED" /\ l.user = u
    BY <2>2, <2>3, <2>4, <2>5, <2>6, <2>c, DemoLoanRow
  <2> QED
    BY <2>1, <2>2, <2>3, <2>7
<1> QED
  BY <1>1, <1>2

\* A loan of the fixture is of one of its copies.
LEMMA FixtureLoan ==
  \A l \in DemoLoans : l \in Loan /\ l.copy \in Barcodes /\ l.copy[1] \in DemoBooks
BY ActiveRows, RequestRows, ReturnRowsOf DEF DemoLoans

\* Ratings of the fixture are ratings, its reviewers are demo users.
LEMMA PlaceType == \A b \in Books : Place(b) \in Nat
<1> SUFFICES ASSUME NEW b \in Books PROVE Place(b) \in Nat
  OBVIOUS
<1> DEFINE S == {i \in 1 .. Len(ById) : Shown(ById[i]) /\ \E j \in i + 1 .. Len(ById) : ById[j] = b}
<1>1. IsFiniteSet(1 .. Len(ById)) /\ S \in SUBSET (1 .. Len(ById))
  BY SeedRows, FS_Interval
<1> HIDE DEF S
<1>2. Cardinality(S) \in Nat
  BY <1>1, FS_Subset, FS_CardinalityType
<1> QED
  BY <1>2 DEF Place, S

\* Reviewers are demo users, and rate 2 to 5.
LEMMA DemoRating ==
  \A p \in Nat, x \in 0 .. 2 :
    /\ Reviewer(p, x) \in DemoUsers
    /\ DemoReview(p, x) \in 2 .. 5
<1> SUFFICES ASSUME NEW p \in Nat, NEW x \in 0 .. 2
             PROVE  Reviewer(p, x) \in DemoUsers /\ DemoReview(p, x) \in 2 .. 5
  OBVIOUS
<1>1. Reviewer(p, x) \in DemoUsers
  BY DEF Reviewer, DemoUsers
<1>2. PICK k \in 1 .. 5 : k = ((p * 3 + x) % 5) + 1
  OBVIOUS
<1>3. ReviewFixtures[k] \in 2 .. 5
  BY DEF ReviewFixtures
<1> QED
  BY <1>1, <1>2, <1>3 DEF DemoReview

\* The loans that the fixture keeps are of other books and have the copies they had.
LEMMA KeptLoans ==
  ASSUME Rows, SeedDashboard
  PROVE  /\ loans' = {l \in loans : copy[l.copy].book \notin DemoBooks} \cup DemoLoans
         /\ \A l \in loans : copy[l.copy].book \notin DemoBooks =>
              l.copy \in Barcodes /\ l.copy[1] \notin DemoBooks /\ copy'[l.copy] = copy[l.copy]
         /\ loans' \subseteq Loan
         /\ \A l \in loans' : l.copy \in Barcodes /\ copy'[l.copy] # NoCopy
<1>1. loans' = {l \in loans : copy[l.copy].book \notin DemoBooks} \cup DemoLoans
  BY DEF SeedDashboard
<1>2. \A l \in loans : copy[l.copy].book \notin DemoBooks =>
        l.copy \in Barcodes /\ l.copy[1] \notin DemoBooks /\ copy'[l.copy] = copy[l.copy]
  BY RowFacts, FixtureCopies
<1>3. loans' \subseteq Loan
  BY <1>1, FixtureLoan DEF Rows, TypeOK
<1>4. \A l \in loans' : l.copy \in Barcodes /\ copy'[l.copy] # NoCopy
  BY <1>1, <1>2, FixtureLoan, FixtureCopies, RowFacts
<1> QED
  BY <1>1, <1>2, <1>3, <1>4

\* The reviews it leaves are ratings.
LEMMA FixtureRatings ==
  ASSUME Rows, SeedDashboard
  PROVE  review' \in [Books -> [Users -> 0 .. 5]]
<1>1. review \in [Books -> [Users -> 0 .. 5]] /\ review' = DemoReviews
  BY DEF SeedDashboard, Rows, TypeOK
<1>2. ASSUME NEW b \in Books
      PROVE  DemoReviews[b] \in [Users -> 0 .. 5]
  <2>1. PICK p \in Nat : p = Place(b)
    BY PlaceType
  <2>2. ASSUME NEW u \in Users
        PROVE  (IF \E x \in 0 .. 2 : Reviewer(p, x) = u
                THEN DemoReview(p, CHOOSE x \in 0 .. 2 : Reviewer(p, x) = u)
                ELSE review[b][u]) \in 0 .. 5
    <3>1. CASE \E x \in 0 .. 2 : Reviewer(p, x) = u
      <4>1. PICK x \in 0 .. 2 : x = CHOOSE y \in 0 .. 2 : Reviewer(p, y) = u
        BY <3>1
      <4>2. DemoReview(p, x) \in 0 .. 5
        BY DemoRating
      <4> QED
        BY <3>1, <4>1, <4>2
    <3>2. CASE ~ \E x \in 0 .. 2 : Reviewer(p, x) = u
      BY <1>1, <3>2
    <3> QED
      BY <3>1, <3>2
  <2>3. DemoReviews[b] =
          IF ~Shown(b) THEN review[b]
          ELSE [u \in Users |->
                  IF \E x \in 0 .. 2 : Reviewer(p, x) = u
                  THEN DemoReview(p, CHOOSE x \in 0 .. 2 : Reviewer(p, x) = u)
                  ELSE review[b][u]]
    BY <2>1 DEF DemoReviews
  <2>4. [u \in Users |->
           IF \E x \in 0 .. 2 : Reviewer(p, x) = u
           THEN DemoReview(p, CHOOSE x \in 0 .. 2 : Reviewer(p, x) = u)
           ELSE review[b][u]] \in [Users -> 0 .. 5]
    BY <2>2
  <2> QED
    BY <1>1, <2>3, <2>4
<1>3. DemoReviews = [b \in Books |-> DemoReviews[b]]
  BY DEF DemoReviews
<1> QED
  BY <1>1, <1>2, <1>3

\* Copies of books that exist, books of categories and authors that exist.
LEMMA SeedDashboardRows ==
  ASSUME Rows, SeedDashboard
  PROVE  Rows'
<1>1. /\ author' = [author EXCEPT ![DemoAuthor] = "LIVE"]
      /\ UNCHANGED <<category, admin, changes, seed, crashes, raced>>
  BY DEF SeedDashboard
<1>2. /\ author' \in [AuthorIds -> {"NONE", "LIVE", "ARCHIVED"}]
      /\ \A a \in AuthorIds : author[a] # "NONE" => author'[a] # "NONE"
      /\ author'[DemoAuthor] # "NONE"
  BY <1>1, SeedRows DEF Rows, TypeOK
<1>3. /\ book' \in [Books -> BookRow]
      /\ \A b \in Books \ DemoBooks : book'[b].state = book[b].state
      /\ \A b \in DemoBooks : b \in Books /\ book'[b].state = "LIVE"
  BY FixtureBooks
<1>4. /\ copy' \in [Barcodes -> Copy \cup {NoCopy}]
      /\ loans' \subseteq Loan /\ \A l \in loans' : copy'[l.copy] # NoCopy
      /\ review' \in [Books -> [Users -> 0 .. 5]]
  BY FixtureCopies, KeptLoans, FixtureRatings
<1>5. CategoryIds \subseteq category'
  BY <1>1, SeedAssumption DEF SeedDashboard, CategoriesSeeded, CategoryIds
<1>6. \A b \in Books : book'[b].state # "NONE" =>
        author'[AuthorOf[b]] # "NONE" /\ CategoryOf[b] \in category'
  <2> SUFFICES ASSUME NEW b \in Books, book'[b].state # "NONE"
               PROVE  author'[AuthorOf[b]] # "NONE" /\ CategoryOf[b] \in category'
    OBVIOUS
  <2>1. CategoryOf[b] \in category'
    BY <1>5, SeedAssumption
  <2>2. author'[AuthorOf[b]] # "NONE"
    <3>1. CASE b \in DemoBooks
      BY <1>2, <3>1, SeedAssumption
    <3>2. CASE b \notin DemoBooks
      BY <1>2, <1>3, <3>2, SeedAssumption DEF Rows, TypeOK, BookExists
    <3> QED
      BY <3>1, <3>2
  <2> QED
    BY <2>1, <2>2
<1>7. \A c \in Barcodes : copy'[c] # NoCopy => book'[copy'[c].book].state # "NONE"
  <2> SUFFICES ASSUME NEW c \in Barcodes, copy'[c] # NoCopy
               PROVE  book'[copy'[c].book].state # "NONE"
    OBVIOUS
  <2>1. CASE c[1] \in DemoBooks
    BY <1>3, <2>1, FixtureCopies
  <2>2. CASE c[1] \notin DemoBooks
    <3>1. copy'[c] = copy[c] /\ copy[c].book \notin DemoBooks
      BY <2>2, FixtureCopies
    <3>2. copy[c].book \in Books /\ book[copy[c].book].state # "NONE"
      BY <3>1, RowFacts DEF BookExists
    <3> QED
      BY <1>3, <3>1, <3>2
  <2> QED
    BY <2>1, <2>2
<1>8. SeedAt'
  BY <1>1 DEF Rows, SeedAt
<1>9. name' \in [AuthorIds \cup CategoryIds -> {"own", "other", "free"}]
  BY SeedRows, NameKept DEF SeedDashboard, Named
<1> QED
  BY <1>1, <1>2, <1>3, <1>4, <1>6, <1>7, <1>8, <1>9 DEF Rows, TypeOK, BookExists

\* A request of the library, with the book it is about.
LEMMA LibrarySteps ==
  ASSUME LibraryStep
  PROVE  \/ \E b \in Touched : \E c \in CopiesOf(b) : Lend(c)
         \/ \E l \in loans : AskReturn(l)
         \/ \E b \in Touched : \E l \in loans : copy[l.copy].book = b /\ Return(l)
         \/ \E b \in Touched : \E c \in Typed : AddCopy(b, c)
         \/ \E b \in Touched : RemoveBook(b)
         \/ \E b \in Touched : Rate(b, 1)
         \/ \E i \in 1 .. Len(SeedAuthors) : RemoveAuthor(SeedAuthors[i])
         \/ \E i \in 1 .. Len(SeedCategories) : RemoveCategory(SeedCategories[i])
         \/ \E x \in Claimed : Rename(x)
         \/ ChangeAdmin
BY DEF LibraryStep

\* Empty tables are typed.
LEMMA RowsInit == Init => Rows
<1> SUFFICES ASSUME Init PROVE Rows
  OBVIOUS
<1>1. NoBook \in BookRow
  BY DEF NoBook, BookRow
<1>2. seed \in [pc : Statements, at : Nat, next : Nat, total : Nat] /\ SeedAt
  BY DEF Init, Off, Statements, SeedAt
<1>3. author \in [AuthorIds -> {"NONE", "LIVE", "ARCHIVED"}] /\ book \in [Books -> BookRow]
  BY <1>1 DEF Init
<1>4. copy \in [Barcodes -> Copy \cup {NoCopy}] /\ \A c \in Barcodes : copy[c] = NoCopy
  BY DEF Init
<1>5. review \in [Books -> [Users -> 0 .. 5]]
  BY DEF Init
<1>6. \A b \in Books : ~BookExists(b)
  BY DEF Init, BookExists, NoBook
<1>7. changes \in 0 .. MaxChanges /\ crashes \in 0 .. MaxCrashes
  BY SeedBoundAssumption DEF Init
<1> QED
  BY <1>2, <1>3, <1>4, <1>5, <1>6, <1>7 DEF Init, Rows, TypeOK

\* Every step keeps types and foreign keys.
LEMMA RowsNext == Rows /\ [Next]_vars => Rows'
<1> SUFFICES ASSUME Rows, [Next]_vars PROVE Rows'
  OBVIOUS
<1>1. CASE StartSeed \/ ReadBarcodes \/ SeedAdmin \/ SeedOnlyAdmin \/ Fails \/ Crash
  BY <1>1, OtherSeedRows
<1>2. CASE UpsertAuthor
  BY <1>2, UpsertAuthorRows
<1>3. CASE UpsertCategory
  BY <1>3, UpsertCategoryRows
<1>4. CASE UpsertBook
  BY <1>4, UpsertBookRows
<1>5. CASE CountCopies
  BY <1>5, CountCopiesRows
<1>6. CASE CreateCopies
  BY <1>6, CreateCopiesRows
<1>7. CASE SetCounters
  BY <1>7, SetCountersRows
<1>8. CASE SeedDashboard
  BY <1>8, SeedDashboardRows
<1>9. CASE LibraryStep
  BY <1>9, LibrarySteps, LendRows, AskReturnRows, ReturnRows, AddCopyRows, RemoveBookRows,
     RateRows, RemoveAuthorRows, RemoveCategoryRows, RenameRows,
     ChangeAdminRows
<1>10. CASE UNCHANGED vars
  BY <1>10 DEF vars, tables, shelf, Rows, TypeOK, SeedAt, BookExists
<1> QED
  BY <1>1, <1>2, <1>3, <1>4, <1>5, <1>6, <1>7, <1>8, <1>9, <1>10 DEF Next, SeedStep

\* Rows, and what the base seed remembers, have their types, and foreign keys name
\* existing rows, whatever statement of the seeds, the fixture or a request wrote last.
THEOREM StagingTyped == Spec => []TypeOK
<1>1. Rows => TypeOK
  BY DEF Rows
<1> QED
  BY <1>1, RowsInit, RowsNext, PTL DEF Spec

-----------------------------------------------------------------------------
(* Loans match copies.                                                     *)

\* The fixture has finitely many loans.
LEMMA FiniteDemoLoans == IsFiniteSet(DemoLoans)
<1>1. IsFiniteSet(1 .. 5) /\ IsFiniteSet(0 .. 9)
  <2>1. 0 \in Int /\ 1 \in Int /\ 5 \in Int /\ 9 \in Int
    OBVIOUS
  <2>2. IsFiniteSet(1 .. 5)
    BY <2>1, FS_Interval
  <2>3. IsFiniteSet(0 .. 9)
    BY <2>1, FS_Interval
  <2> QED
    BY <2>2, <2>3
<1>2. IsFiniteSet({1, 4})
  BY <1>1, FS_Subset
<1>3. IsFiniteSet(ActiveLoans)
  <2>1. ActiveOf \in Surjection(DemoBooks, ActiveLoans)
    <3>1. ActiveOf = [i \in DemoBooks |-> ActiveOf[i]]
      BY Zenon DEF ActiveOf
    <3> QED
      BY <3>1, ActiveRows DEF Surjection
  <2> QED
    BY <1>1, <2>1, FS_Surjection DEF DemoBooks
<1>4. IsFiniteSet(RequestedLoans)
  <2>1. RequestOf \in Surjection({1, 4}, RequestedLoans)
    BY RequestRows DEF Surjection, RequestOf
  <2> QED
    BY <1>2, <2>1, FS_Surjection
<1>5. IsFiniteSet(ReturnedLoans)
  <2>1. ReturnOf \in Surjection(0 .. 9, ReturnedLoans)
    BY ReturnRowsOf DEF Surjection, ReturnOf
  <2> QED
    BY <1>1, <2>1, FS_Surjection
<1> QED
  BY <1>3, <1>4, <1>5, FS_Union DEF DemoLoans

\* A copy on the shelf has no open loan, and gets one as it becomes LOANED.
LEMMA LendMatch ==
  ASSUME Rows, LoansMatch, NEW c \in Barcodes, Lend(c)
  PROVE  LoansMatch'
<1> DEFINE new == [no |-> changes + 1, user |-> Somebody, copy |-> c, overdue |-> FALSE,
                   status |-> "ACTIVE"]
<1>1. new.copy = c /\ Open(new)
  BY DEF Open
<1>2. loans' = loans \cup {new} /\ copy[c].status = "AVAILABLE"
  BY DEF Lend
<1> HIDE DEF new
<1>3. copy'[c].status = "LOANED" /\ \A d \in Barcodes \ {c} : copy'[d] = copy[d]
  BY DEF Lend, Rows, TypeOK
<1>4. IsFiniteSet(loans')
  BY <1>2, FS_AddElement DEF LoansMatch
<1>5. \A l \in loans : Open(l) => l.copy # c /\ l.copy \in Barcodes
  BY <1>2, RowFacts DEF LoansMatch
<1> QED
  BY <1>1, <1>2, <1>3, <1>4, <1>5 DEF LoansMatch

\* A loan that is asked back stays open.
LEMMA AskReturnMatch ==
  ASSUME Rows, LoansMatch, NEW l \in loans, AskReturn(l)
  PROVE  LoansMatch'
<1>1. PICK m : m = [l EXCEPT !.status = "RETURN_REQUESTED"]
  OBVIOUS
<1>2. m.copy = l.copy /\ Open(m) /\ Open(l)
  BY <1>1, RowFacts DEF AskReturn, Open, Loan
<1>3. loans' = (loans \ {l}) \cup {m} /\ copy' = copy
  BY <1>1 DEF AskReturn
<1>4. IsFiniteSet(loans')
  BY <1>3, FS_AddElement, FS_RemoveElement DEF LoansMatch
<1> QED
  BY <1>2, <1>3, <1>4 DEF LoansMatch

\* A return closes the one open loan of its copy, which leaves LOANED.
LEMMA ReturnMatch ==
  ASSUME Rows, LoansMatch, NEW l \in loans, Return(l)
  PROVE  LoansMatch'
<1>1. PICK m : m = [l EXCEPT !.status = "RETURNED"]
  OBVIOUS
<1>2. m.copy = l.copy /\ ~Open(m) /\ Open(l) /\ l.copy \in Barcodes
  BY <1>1, RowFacts DEF Return, Open, Loan
<1>3. loans' = (loans \ {l}) \cup {m}
  BY <1>1 DEF Return
<1>4. /\ copy'[l.copy].status = "AVAILABLE"
      /\ \A d \in Barcodes \ {l.copy} : copy'[d] = copy[d]
  BY <1>2 DEF Return, Rows, TypeOK
<1>5. IsFiniteSet(loans')
  BY <1>3, FS_AddElement, FS_RemoveElement DEF LoansMatch
<1>6. \A k \in loans \ {l} : Open(k) => k.copy # l.copy /\ k.copy \in Barcodes
  BY <1>2, RowFacts DEF LoansMatch
<1> QED
  BY <1>2, <1>3, <1>4, <1>5, <1>6 DEF LoansMatch

\* Rows that no loan refers to come and go without an effect on loans.
LEMMA OthersMatch ==
  ASSUME Rows, LoansMatch, loans' = loans,
         \A c \in Barcodes : copy'[c] # copy[c] =>
           copy'[c].status # "LOANED" /\ \A l \in loans : Open(l) => l.copy # c
  PROVE  LoansMatch'
<1>1. \A l \in loans : Open(l) => copy'[l.copy].status = "LOANED"
  BY RowFacts DEF LoansMatch
<1>2. \A c \in Barcodes : copy'[c].status = "LOANED" => copy'[c] = copy[c]
  OBVIOUS
<1> QED
  BY <1>1, <1>2 DEF LoansMatch

\* Copies are added, archived and removed without open loans.
LEMMA StockMatch ==
  ASSUME Rows, LoansMatch,
         \/ \E b \in Touched : \E c \in Typed : AddCopy(b, c)
         \/ \E b \in Touched : RemoveBook(b)
         \/ CreateCopies
  PROVE  LoansMatch'
<1>1. \A l \in loans : l.copy \in Barcodes /\ copy[l.copy] # NoCopy
  BY RowFacts
<1>2. ASSUME NEW b \in Touched, NEW c \in Typed, AddCopy(b, c)
      PROVE  LoansMatch'
  <2>1. /\ copy[c] = NoCopy /\ c \in Barcodes /\ loans' = loans
        /\ copy'[c].status = "AVAILABLE"
        /\ \A d \in Barcodes \ {c} : copy'[d] = copy[d]
    BY <1>2, SeedBoundAssumption DEF AddCopy, Rows, TypeOK
  <2> QED
    BY <1>1, <2>1, OthersMatch
<1>3. ASSUME NEW b \in Touched, RemoveBook(b)
      PROVE  LoansMatch'
  <2>1. /\ loans' = loans
        /\ \A c \in Barcodes : copy[c].book # b => copy'[c] = copy[c]
        /\ \A c \in Barcodes : copy[c].book = b => copy'[c].status # "LOANED"
    BY <1>3, Removal DEF NoCopy
  <2>2. \A c \in Barcodes : copy[c].book = b => \A l \in loans : Open(l) => l.copy # c
    BY <1>3 DEF RemoveBook, CopiesOf, OpenLoans
  <2> QED
    BY <2>1, <2>2, OthersMatch
<1>4. ASSUME CreateCopies
      PROVE  LoansMatch'
  <2>1. PICK b : b = SeedBooks[seed.at]
    OBVIOUS
  <2>2. PICK new : new = NewBarcodes
    OBVIOUS
  <2>3. /\ \A c \in new : copy[c] = NoCopy /\ copy'[c].status = "AVAILABLE"
        /\ \A c \in Barcodes \ new : copy'[c] = copy[c]
    BY <1>4, <2>1, <2>2, Created
  <2>4. loans' = loans
    BY <1>4 DEF CreateCopies
  <2> QED
    BY <1>1, <2>3, <2>4, OthersMatch
<1> QED
  BY <1>2, <1>3, <1>4

\* Of the fixture's copies the first of each book is LOANED, and the second of two of
\* them.
LEMMA LoanedCopies ==
  ASSUME Rows, SeedDashboard, NEW c \in Barcodes, c[1] \in DemoBooks
  PROVE  copy'[c].status = "LOANED" <=> c[2] = 1 \/ (c[2] = 2 /\ c[1] \in {1, 4})
<1>1. copy'[c].status = CopyStatusOf(c[1], c[2]) /\ c[2] \in 1 .. 5 /\ c[1] \in 1 .. 5
  BY FixtureCopies, BarcodeShape DEF DemoBooks
<1> QED
  BY <1>1 DEF CopyStatusOf, Loaned

\* Its open loans are one for each of those.
LEMMA OpenDemoLoans ==
  /\ \A l \in DemoLoans : Open(l) => l.copy[2] = 1 \/ (l.copy[2] = 2 /\ l.copy[1] \in {1, 4})
  /\ \A c \in Barcodes : c[1] \in DemoBooks /\ (c[2] = 1 \/ (c[2] = 2 /\ c[1] \in {1, 4})) =>
       \E l \in DemoLoans : l.copy = c /\ Open(l)
  /\ \A k, l \in DemoLoans : Open(k) /\ Open(l) /\ k.copy = l.copy => k = l
<1>1. \A l \in ActiveLoans : Open(l) /\ l.copy[2] = 1
  BY ActiveRows DEF Open
<1>2. \A l \in RequestedLoans : Open(l) /\ l.copy[2] = 2 /\ l.copy[1] \in {1, 4}
  BY RequestRows DEF Open
<1>3. \A l \in ReturnedLoans : ~Open(l)
  BY ReturnRowsOf DEF Open
<1>4. \A c \in Barcodes : c[1] \in DemoBooks => c = <<c[1], c[2]>>
  BY BarcodeShape
<1>5. ASSUME NEW c \in Barcodes, c[1] \in DemoBooks, c[2] = 1
      PROVE  \E l \in DemoLoans : l.copy = c /\ Open(l)
  <2>1. ActiveOf[c[1]] \in ActiveLoans /\ ActiveOf[c[1]].copy = c
    BY <1>4, <1>5, ActiveRows
  <2> QED
    BY <1>1, <2>1 DEF DemoLoans
<1>6. ASSUME NEW c \in Barcodes, c[1] \in DemoBooks, c[2] = 2, c[1] \in {1, 4}
      PROVE  \E l \in DemoLoans : l.copy = c /\ Open(l)
  <2>1. RequestOf[c[1]] \in RequestedLoans /\ RequestOf[c[1]].copy = c
    BY <1>4, <1>6, RequestRows
  <2> QED
    BY <1>2, <2>1 DEF DemoLoans
<1>7. \A k, l \in ActiveLoans : k.copy[1] = l.copy[1] => k = l
  BY ActiveRows
<1>8. \A k, l \in RequestedLoans : k.copy[1] = l.copy[1] => k = l
  BY RequestRows
<1>9. ASSUME NEW k \in DemoLoans, NEW l \in DemoLoans, Open(k), Open(l), k.copy = l.copy
      PROVE  k = l
  BY <1>1, <1>2, <1>3, <1>7, <1>8, <1>9 DEF DemoLoans
<1> QED
  BY <1>1, <1>2, <1>3, <1>5, <1>6, <1>9 DEF DemoLoans

\* The fixture's loans are of its own copies, the loans it keeps of the others'.
LEMMA SeedDashboardMatch ==
  ASSUME Rows, LoansMatch, SeedDashboard
  PROVE  LoansMatch'
<1>1. PICK kept : kept = {l \in loans : copy[l.copy].book \notin DemoBooks}
  OBVIOUS
<1>2. /\ loans' = kept \cup DemoLoans /\ kept \subseteq loans
      /\ \A l \in kept : l.copy \in Barcodes /\ l.copy[1] \notin DemoBooks /\ copy'[l.copy] = copy[l.copy]
      /\ \A l \in DemoLoans : l.copy \in Barcodes /\ l.copy[1] \in DemoBooks
  BY <1>1, KeptLoans, FixtureLoan
<1>3. IsFiniteSet(loans')
  BY <1>2, FiniteDemoLoans, FS_Subset, FS_Union DEF LoansMatch
<1>4. ASSUME NEW c \in Barcodes, copy'[c].status = "LOANED"
      PROVE  \E l \in loans' : l.copy = c /\ Open(l)
  <2>1. CASE c[1] \in DemoBooks
    BY <1>2, <1>4, <2>1, LoanedCopies, OpenDemoLoans
  <2>2. CASE c[1] \notin DemoBooks
    <3>1. copy'[c] = copy[c] /\ copy[c].book \notin DemoBooks
      BY <1>4, <2>2, FixtureCopies DEF NoCopy
    <3>2. PICK l \in loans : l.copy = c /\ Open(l)
      BY <1>4, <3>1 DEF LoansMatch
    <3> QED
      BY <1>1, <1>2, <3>1, <3>2
  <2> QED
    BY <2>1, <2>2
<1>5. \A l \in loans' : Open(l) => copy'[l.copy].status = "LOANED"
  BY <1>2, LoanedCopies, OpenDemoLoans DEF LoansMatch
<1>6. \A k, l \in loans' : Open(k) /\ Open(l) /\ k.copy = l.copy => k = l
  BY <1>2, OpenDemoLoans DEF LoansMatch
<1> QED
  BY <1>3, <1>4, <1>5, <1>6 DEF LoansMatch

\* No copies, no loans.
LEMMA MatchInit == Init => LoansMatch
BY FS_EmptySet DEF Init, LoansMatch, NoCopy

\* Every step keeps loans and copies in agreement.
LEMMA MatchNext == Rows /\ LoansMatch /\ [Next]_vars => LoansMatch'
<1> SUFFICES ASSUME Rows, LoansMatch, [Next]_vars PROVE LoansMatch'
  OBVIOUS
<1>1. CASE \E b \in Touched : \E c \in CopiesOf(b) : Lend(c)
  BY <1>1, LendMatch DEF CopiesOf
<1>2. CASE \E l \in loans : AskReturn(l)
  BY <1>2, AskReturnMatch
<1>3. CASE \E b \in Touched : \E l \in loans : copy[l.copy].book = b /\ Return(l)
  BY <1>3, ReturnMatch
<1>4. CASE \/ \E b \in Touched : \E c \in Typed : AddCopy(b, c)
           \/ \E b \in Touched : RemoveBook(b)
           \/ CreateCopies
  BY <1>4, StockMatch
<1>5. CASE SeedDashboard
  BY <1>5, SeedDashboardMatch
<1>6. CASE UNCHANGED <<copy, loans>>
  BY <1>6 DEF LoansMatch
<1>7. ASSUME \/ \E b \in Touched : Rate(b, 1)
             \/ \E i \in 1 .. Len(SeedAuthors) : RemoveAuthor(SeedAuthors[i])
             \/ \E i \in 1 .. Len(SeedCategories) : RemoveCategory(SeedCategories[i])
             \/ \E x \in Claimed : Rename(x)
             \/ ChangeAdmin
      PROVE  UNCHANGED <<copy, loans>>
  BY <1>7 DEF Rate, RemoveAuthor, RemoveCategory, Rename, ChangeAdmin, shelf
<1>8. ASSUME \/ StartSeed \/ ReadBarcodes \/ CountCopies \/ SeedAdmin \/ SeedOnlyAdmin
             \/ Fails \/ Crash \/ UNCHANGED vars
             \/ UpsertAuthor \/ UpsertCategory \/ UpsertBook \/ SetCounters
      PROVE  UNCHANGED <<copy, loans>>
  BY <1>8 DEF StartSeed, ReadBarcodes, CountCopies, SeedAdmin, SeedOnlyAdmin, Fails, Crash,
     Stop, UpsertAuthor, UpsertCategory, UpsertBook, SetCounters, vars, tables, shelf
<1>9. CASE LibraryStep
  BY <1>1, <1>2, <1>3, <1>4, <1>6, <1>7, <1>9, LibrarySteps
<1> QED
  BY <1>4, <1>5, <1>6, <1>8, <1>9 DEF Next, SeedStep

\* A copy is LOANED exactly while it has an open loan, and then one: what the fixture
\* writes agrees, also on top of loans under way.
THEOREM FixtureLoansAgree == Spec => []FixtureLoansMatch
<1>1. ASSUME Rows, LoansMatch PROVE FixtureLoansMatch
  <2> SUFFICES ASSUME NEW c \in Barcodes
               PROVE  Cardinality(OpenLoans(c)) = (IF copy[c].status = "LOANED" THEN 1 ELSE 0)
    BY DEF FixtureLoansMatch
  <2>1. CASE copy[c].status = "LOANED"
    <3>1. PICK l \in loans : l.copy = c /\ Open(l)
      BY <1>1, <2>1 DEF LoansMatch
    <3>2. OpenLoans(c) = {l}
      BY <1>1, <3>1 DEF LoansMatch, OpenLoans
    <3> QED
      BY <2>1, <3>2, FS_Singleton
  <2>2. CASE copy[c].status # "LOANED"
    <3>1. OpenLoans(c) = {}
      BY <1>1, <2>2 DEF LoansMatch, OpenLoans
    <3> QED
      BY <2>2, <3>1, FS_EmptySet
  <2> QED
    BY <2>1, <2>2
<1>2. Rows /\ LoansMatch => FixtureLoansMatch
  BY <1>1
<1> QED
  BY <1>2, RowsInit, RowsNext, MatchInit, MatchNext, PTL DEF Spec

-----------------------------------------------------------------------------
(* Counters.                                                               *)

\* A step that leaves a book's row and copies keeps what is said of them.
LEMMA SameBook ==
  ASSUME NEW b,
         \A c \in Barcodes : copy[c].book = b \/ copy'[c].book = b => copy'[c] = copy[c],
         book'[b].state = book[b].state, book'[b].total = book[b].total,
         book'[b].available = book[b].available
  PROVE  /\ Unstocked(b)' <=> Unstocked(b)
         /\ Visible(b)' <=> Visible(b)
         /\ CopiesOf(b)' = CopiesOf(b)
         /\ With(copy', b, {"AVAILABLE"}) = With(copy, b, {"AVAILABLE"})
         /\ Fresh(b) => Fresh(b)'
         /\ Counted(b) => Counted(b)'
<1>1. /\ CopiesOf(b)' = CopiesOf(b)
      /\ Unstocked(b)' <=> Unstocked(b)
      /\ Visible(b)' <=> Visible(b)
  BY DEF CopiesOf, Unstocked, BookExists, Visible
<1>2. \A S : With(copy', b, S) = With(copy, b, S)
  <2> SUFFICES ASSUME NEW S PROVE With(copy', b, S) = With(copy, b, S)
    OBVIOUS
  <2>1. {c \in Barcodes : copy'[c].book = b /\ copy'[c].status \in S} =
        {c \in Barcodes : copy[c].book = b /\ copy[c].status \in S}
    OBVIOUS
  <2> QED
    BY <2>1 DEF With
<1>3. Fresh(b) => Fresh(b)'
  BY <1>1 DEF Fresh
<1>4. Counted(b) => Counted(b)'
  BY <1>1, <1>2 DEF Counted
<1> QED
  BY <1>1, <1>2, <1>3, <1>4

\* A step that leaves all rows and copies, and what the seed remembers of a book it is
\* stocking, keeps the counters right.
LEMMA StillSown ==
  ASSUME Sown, UNCHANGED <<copy, raced>>,
         \A b \in Books : /\ book'[b].state = book[b].state /\ book'[b].total = book[b].total
                          /\ book'[b].available = book[b].available,
         Remembered'
  PROVE  Sown'
<1>1. \A b \in Books : (Fresh(b) => Fresh(b)') /\ (Counted(b) => Counted(b)')
  BY SameBook
<1> QED
  BY <1>1 DEF Sown

\* What the seed remembers stays true of books that are left as they are.
LEMMA RememberedStays ==
  ASSUME Rows, Sown, UNCHANGED <<copy, raced, seed>>,
         \A b \in Books : /\ book'[b].state = book[b].state /\ book'[b].total = book[b].total
                          /\ book'[b].available = book[b].available
  PROVE  Remembered'
<1>1. CASE seed.pc \notin {"countCopies", "createCopies", "setCounters"}
  BY <1>1 DEF Remembered
<1>2. CASE seed.pc \in {"countCopies", "createCopies", "setCounters"}
  <2>1. PICK b \in Books : b = SeedBooks[seed.at]
    BY <1>2, BaseBook
  <2>2. /\ Unstocked(b)' <=> Unstocked(b)
        /\ Visible(b)' <=> Visible(b)
        /\ CopiesOf(b)' = CopiesOf(b)
        /\ With(copy', b, {"AVAILABLE"}) = With(copy, b, {"AVAILABLE"})
    BY SameBook
  <2> QED
    BY <2>1, <2>2 DEF Sown, Remembered
<1> QED
  BY <1>1, <1>2

\* A request on a book leaves the others; it counts the copies of its own, or leaves it
\* hidden: while the seed is stocking that book, the request has raced it.
LEMMA ChangeSown ==
  ASSUME Rows, Sown, NEW b \in Touched, Change(b),
         \A d \in Books \ {b} :
           /\ \A c \in Barcodes : copy[c].book = d \/ copy'[c].book = d => copy'[c] = copy[c]
           /\ book'[d] = book[d],
         \/ CopiesOf(b)' # {} /\ Counted(b)'
         \/ /\ ~Visible(b)'
            /\ Unstocked(b)' => Unstocked(b) /\ book'[b].total = book[b].total
  PROVE  Sown'
<1>1. \A d \in Books \ {b} :
        /\ Unstocked(d)' <=> Unstocked(d)
        /\ Visible(d)' <=> Visible(d)
        /\ CopiesOf(d)' = CopiesOf(d)
        /\ With(copy', d, {"AVAILABLE"}) = With(copy, d, {"AVAILABLE"})
        /\ Fresh(d) => Fresh(d)'
        /\ Counted(d) => Counted(d)'
  BY SameBook
<1>2. /\ raced' = IF Stocking(b) THEN raced \cup {b} ELSE raced \ {b}
      /\ seed' = seed /\ b \in Books
  BY SeedBoundAssumption DEF Change
<1>3. Counted(b)'
  BY DEF Counted
<1>4. Fresh(b)'
  BY <1>2 DEF Fresh, Unstocked, Sown
<1>5. \A d \in Books : Fresh(d)'
  BY <1>1, <1>4 DEF Sown
<1>6. \A d \in Books \ raced' : Counted(d)'
  BY <1>1, <1>2, <1>3 DEF Sown
<1>7. Remembered'
  <2>1. CASE seed.pc \notin {"countCopies", "createCopies", "setCounters"}
    BY <1>2, <2>1 DEF Remembered
  <2>2. CASE seed.pc \in {"countCopies", "createCopies", "setCounters"}
    <3>1. PICK d \in Books : d = SeedBooks[seed.at]
      BY <2>2, BaseBook
    <3>2. CASE d = b
      <4>1. seed.pc # "countCopies" => b \in raced'
        BY <1>2, <2>2, <3>1, <3>2 DEF Stocking
      <4>2. Unstocked(b)' => Unstocked(b)
        BY DEF Unstocked
      <4> QED
        BY <1>2, <2>2, <3>1, <3>2, <4>1, <4>2 DEF Sown, Remembered
    <3>3. CASE d # b
      <4>1. d \in raced' <=> d \in raced
        BY <1>2, <3>3
      <4> QED
        BY <1>1, <1>2, <3>1, <3>3, <4>1 DEF Sown, Remembered
    <3> QED
      BY <3>2, <3>3
  <2> QED
    BY <2>1, <2>2
<1> QED
  BY <1>5, <1>6, <1>7 DEF Sown

\* A request that writes a copy and counts the copies of its book.
LEMMA SyncSown ==
  ASSUME Rows, Sown, NEW b \in Touched, NEW c \in Barcodes, NEW st \in CopyStatus, BookExists(b),
         copy[c] = NoCopy \/ copy[c].book = b,
         copy' = [copy EXCEPT ![c] = [book |-> b, status |-> st]],
         book' = [book EXCEPT ![b] = Synced(copy', b)],
         Change(b)
  PROVE  Sown'
<1>1. b \in Books
  BY SeedBoundAssumption
<1>2. /\ copy'[c].book = b
      /\ \A d \in Barcodes \ {c} : copy'[d] = copy[d]
      /\ \A d \in Books \ {b} : book'[d] = book[d]
      /\ book'[b].total = With(copy', b, CopyStatus \ {"ARCHIVED"})
      /\ book'[b].available = With(copy', b, {"AVAILABLE"})
  BY <1>1, CopySynced
<1>3. CopiesOf(b)' # {} /\ Counted(b)'
  BY <1>2 DEF CopiesOf, Counted
<1>4. copy[c].book \notin Books \/ copy[c].book = b
  BY RowFacts
<1>5. \A d \in Books \ {b}, e \in Barcodes :
        copy[e].book = d \/ copy'[e].book = d => copy'[e] = copy[e]
  BY <1>1, <1>2, <1>4
<1> QED
  BY <1>2, <1>3, <1>5, ChangeSown

\* A removal hides the book, and creates no row that the seed would take for its own.
LEMMA RemoveBookSown ==
  ASSUME Rows, Sown, NEW b \in Touched, RemoveBook(b)
  PROVE  Sown'
<1>1. /\ b \in Books /\ Visible(b) /\ Change(b)
      /\ \A d \in Books \ {b} : book'[d] = book[d]
      /\ \A c \in Barcodes : copy[c].book # b => copy'[c] = copy[c]
      /\ book'[b].state # "LIVE"
  BY Removal
<1>2. \A c \in Barcodes : copy[c].book = b => copy'[c].book = b \/ copy'[c].book \notin Books
  BY Removal, SeedAssumption DEF NoCopy
<1>3. \A d \in Books \ {b}, c \in Barcodes :
        copy[c].book = d \/ copy'[c].book = d => copy'[c] = copy[c]
  BY <1>1, <1>2
<1>4. Unstocked(b)' => Unstocked(b) /\ book'[b].total = book[b].total
  <2>1. CASE book'[b] = NoBook
    BY <2>1 DEF NoBook, Unstocked, BookExists
  <2>2. CASE /\ book'[b].total = book[b].total
             /\ \A c \in Barcodes : copy[c].book = b => copy'[c].book = b
    BY <1>1, <2>2 DEF Unstocked, BookExists, Visible, CopiesOf
  <2> QED
    BY <2>1, <2>2, Removal
<1> QED
  BY <1>1, <1>3, <1>4, ChangeSown DEF Visible

\* A new row has the counters of its creation; an old one keeps what it had.
LEMMA UpsertBookSown ==
  ASSUME Rows, Sown, UpsertBook
  PROVE  Sown'
<1>1. PICK b : b = SeedBooks[seed.at]
  OBVIOUS
<1>2. /\ b \in Books /\ b \in BaseBooks
      /\ \A d \in Books \ {b} : book'[d] = book[d]
      /\ BookExists(b) => book'[b].state = book[b].state
      /\ BookExists(b) => book'[b].total = book[b].total /\ book'[b].available = book[b].available
      /\ ~BookExists(b) => book'[b].total = 1 /\ book'[b].available = 1
      /\ seed'.pc = "countCopies" /\ seed'.at = seed.at /\ seed'.total = book'[b].total
  BY <1>1, Upserted
<1>3. copy' = copy /\ raced' = raced
  BY DEF UpsertBook
<1>4. \A d \in Books \ {b} : (Fresh(d) => Fresh(d)') /\ (Counted(d) => Counted(d)')
  BY <1>2, <1>3, SameBook
<1>5. Fresh(b)' /\ (Counted(b) => Counted(b)')
  <2>1. CASE BookExists(b)
    BY <1>2, <1>3, <2>1, SameBook DEF Sown
  <2>2. CASE ~BookExists(b)
    <3>1. CopiesOf(b) = {}
      BY <1>2, <2>2, RowFacts DEF CopiesOf
    <3> QED
      BY <1>2, <1>3, <2>2, <3>1 DEF Fresh, Counted, CopiesOf
  <2> QED
    BY <2>1, <2>2
<1>6. Remembered'
  BY <1>1, <1>2, <1>5 DEF Remembered, Fresh
<1> QED
  BY <1>2, <1>3, <1>4, <1>5, <1>6 DEF Sown

\* The seed goes on to create copies only for a book that has none.
LEMMA CountCopiesSown ==
  ASSUME Rows, Sown, CountCopies
  PROVE  Sown'
<1>1. UNCHANGED <<copy, book, raced>>
  BY DEF CountCopies, tables, shelf
<1>2. Remembered'
  <2>1. CASE seed' = NextBook
    BY <2>1, NextBookKinds DEF Remembered
  <2>2. CASE seed' = [seed EXCEPT !.pc = "createCopies"] /\ CopiesOf(SeedBooks[seed.at]) = {}
    <3>1. seed'.pc = "createCopies" /\ seed'.at = seed.at /\ seed'.total = seed.total
      BY <2>2 DEF Rows, TypeOK
    <3> QED
      BY <1>1, <2>2, <3>1 DEF CountCopies, Sown, Remembered, Unstocked, CopiesOf, BookExists
  <2> QED
    BY <2>1, <2>2 DEF CountCopies, Missing, Write
<1> QED
  BY <1>1, <1>2, StillSown

\* A book without copies gets as many as its row says: one.
LEMMA CreateCopiesSown ==
  ASSUME Rows, Sown, CreateCopies
  PROVE  Sown'
<1>1. PICK b : b = SeedBooks[seed.at]
  OBVIOUS
<1>2. PICK new : new = NewBarcodes
  OBVIOUS
<1>3. /\ b \in Books /\ b \in BaseBooks /\ BookExists(b)
      /\ new \subseteq Barcodes /\ \A c \in new : copy[c] = NoCopy
      /\ \A c \in Barcodes \ new : copy'[c] = copy[c]
      /\ \A c \in new : copy'[c].book = b /\ copy'[c].status = "AVAILABLE"
      /\ seed'.pc = "setCounters" /\ seed'.at = seed.at /\ seed'.total = seed.total
  BY <1>1, <1>2, Created
<1>4. book' = book /\ raced' = raced /\ seed.pc = "createCopies"
  BY DEF CreateCopies
<1>5. \A c \in new : copy[c].book \notin Books
  BY <1>3, SeedAssumption DEF NoCopy
<1>6. \A d \in Books \ {b} : (Fresh(d) => Fresh(d)') /\ (Counted(d) => Counted(d)')
  <2>1. \A d \in Books \ {b}, c \in Barcodes :
          copy[c].book = d \/ copy'[c].book = d => copy'[c] = copy[c]
    BY <1>3, <1>5
  <2> QED
    BY <1>4, <2>1, SameBook
<1>7. CASE CopiesOf(b) = {}
  <2>1. seed.total = 1 /\ book[b].total = 1 /\ (Visible(b) => book[b].available = 1)
    BY <1>1, <1>3, <1>4, <1>7 DEF Sown, Remembered, Fresh, Unstocked
  <2>2. PICK c : new = {c}
    <3>1. PICK n \in Nat : n = seed.next
      BY DEF Rows, TypeOK
    <3>2. new = {<<0, m>> : m \in n .. n + 1 - 1}
      BY <1>2, <2>1, <3>1 DEF NewBarcodes
    <3>3. n .. n + 1 - 1 = {n}
      OBVIOUS
    <3>4. new = {<<0, n>>}
      BY <3>2, <3>3
    <3> QED
      BY <3>4
  <2>3. CopiesOf(b)' = {c}
    BY <1>3, <1>7, <2>2 DEF CopiesOf
  <2>4. With(copy', b, {"AVAILABLE"}) = 1
    <3>1. {e \in Barcodes : copy'[e].book = b /\ copy'[e].status \in {"AVAILABLE"}} = {c}
      BY <1>3, <2>2, <2>3 DEF CopiesOf
    <3> QED
      BY <3>1, FS_Singleton DEF With
  <2>5. With(copy', b, CopyStatus \ {"ARCHIVED"}) = 1
    <3>1. {e \in Barcodes : copy'[e].book = b /\ copy'[e].status \in CopyStatus \ {"ARCHIVED"}} = {c}
      BY <1>3, <2>2, <2>3 DEF CopiesOf, CopyStatus
    <3> QED
      BY <3>1, FS_Singleton DEF With
  <2>6. Fresh(b)' /\ Counted(b)'
    BY <1>4, <2>1, <2>3, <2>4, <2>5 DEF Fresh, Unstocked, Counted, Visible
  <2>7. Remembered'
    BY <1>1, <1>3, <2>1, <2>3, <2>4 DEF Remembered, Unstocked
  <2> QED
    BY <1>3, <1>4, <1>6, <2>6, <2>7 DEF Sown
<1>8. CASE CopiesOf(b) # {}
  <2>1. b \in raced
    BY <1>1, <1>4, <1>8 DEF Sown, Remembered
  <2>2. CopiesOf(b)' # {}
    BY <1>3, <1>5, <1>8 DEF CopiesOf
  <2>3. Fresh(b)' /\ Remembered'
    BY <1>1, <1>3, <1>4, <2>1, <2>2 DEF Fresh, Remembered, Unstocked
  <2> QED
    BY <1>3, <1>4, <1>6, <2>1, <2>3 DEF Sown
<1> QED
  BY <1>7, <1>8

\* The counter is written as it was remembered, which is right unless a request raced it.
LEMMA SetCountersSown ==
  ASSUME Rows, Sown, SetCounters
  PROVE  Sown'
<1>1. PICK b : b = SeedBooks[seed.at]
  OBVIOUS
<1>2. b \in Books /\ b \in BaseBooks /\ seed.total \in Nat
  BY <1>1, BaseBook DEF SetCounters, Rows, TypeOK
<1>3. /\ book' = [book EXCEPT ![b] = [book[b] EXCEPT !.available = seed.total]]
      /\ copy' = copy /\ raced' = raced /\ seed.pc = "setCounters"
  BY <1>1 DEF SetCounters
<1>4. /\ \A d \in Books \ {b} : book'[d] = book[d]
      /\ book'[b].state = book[b].state /\ book'[b].total = book[b].total
      /\ book'[b].available = seed.total
  BY <1>2, <1>3, RowFacts DEF BookRow
<1>5. \A d \in Books \ {b} : (Fresh(d) => Fresh(d)') /\ (Counted(d) => Counted(d)')
  BY <1>3, <1>4, SameBook
<1>6. ~Unstocked(b) /\ (b \notin raced /\ Visible(b) => seed.total = With(copy, b, {"AVAILABLE"}))
  BY <1>1, <1>3 DEF Sown, Remembered
<1>7. Fresh(b)'
  BY <1>3, <1>4, <1>6 DEF Fresh, Unstocked, BookExists, CopiesOf
<1>8. b \notin raced => Counted(b)'
  BY <1>2, <1>3, <1>4, <1>6 DEF Sown, Counted, Visible, CopiesOf
<1>9. Remembered'
  BY NextBookKinds DEF Remembered, SetCounters, Write
<1> QED
  BY <1>2, <1>3, <1>5, <1>7, <1>8, <1>9 DEF Sown

\* The fixture counts its own books and leaves the others.
LEMMA SeedDashboardSown ==
  ASSUME Rows, Sown, SeedDashboard
  PROVE  Sown'
<1>1. seed' = seed /\ raced' = raced
  BY DEF SeedDashboard
<1>2. \A b \in Books \ DemoBooks, c \in Barcodes :
        copy[c].book = b \/ copy'[c].book = b => copy'[c] = copy[c]
  <2> SUFFICES ASSUME NEW b \in Books \ DemoBooks, NEW c \in Barcodes,
                      copy[c].book = b \/ copy'[c].book = b
               PROVE  copy'[c] = copy[c]
    OBVIOUS
  <2>1. NoCopy.book \notin Books
    BY SeedAssumption DEF NoCopy
  <2>2. CASE copy[c].book = b
    BY <2>1, <2>2, FixtureCopies
  <2>3. CASE copy'[c].book = b
    BY <2>1, <2>3, FixtureCopies
  <2> QED
    BY <2>2, <2>3
<1>3. \A b \in Books \ DemoBooks :
        /\ book'[b].state = book[b].state /\ book'[b].total = book[b].total
        /\ book'[b].available = book[b].available
  BY FixtureBooks
<1>4. \A b \in Books \ DemoBooks :
        /\ Unstocked(b)' <=> Unstocked(b)
        /\ Visible(b)' <=> Visible(b)
        /\ CopiesOf(b)' = CopiesOf(b)
        /\ With(copy', b, {"AVAILABLE"}) = With(copy, b, {"AVAILABLE"})
        /\ Fresh(b) => Fresh(b)'
        /\ Counted(b) => Counted(b)'
  BY <1>2, <1>3, SameBook
<1>5. \A b \in DemoBooks : Fresh(b)' /\ Counted(b)'
  BY FixtureBooks, SeedRows DEF Fresh, Counted
<1>6. Remembered'
  <2>1. CASE seed.pc \notin {"countCopies", "createCopies", "setCounters"}
    BY <1>1, <2>1 DEF Remembered
  <2>2. CASE seed.pc \in {"countCopies", "createCopies", "setCounters"}
    <3>1. PICK b \in Books \ DemoBooks : b = SeedBooks[seed.at]
      BY <2>2, BaseBook
    <3> QED
      BY <1>1, <1>4, <3>1 DEF Sown, Remembered
  <2> QED
    BY <2>1, <2>2
<1> QED
  BY <1>1, <1>4, <1>5, <1>6 DEF Sown

\* No books, no counters.
LEMMA SownInit == Init => Sown
<1> SUFFICES ASSUME Init PROVE Sown
  OBVIOUS
<1>1. \A b \in Books : ~BookExists(b) /\ ~Visible(b)
  BY DEF Init, BookExists, Visible, NoBook
<1>2. Remembered
  BY DEF Init, Off, Remembered
<1> QED
  BY <1>1, <1>2 DEF Sown, Fresh, Counted, Unstocked

\* Every step keeps the counters of stocked books right.
LEMMA SownNext == Rows /\ Sown /\ [Next]_vars => Sown'
<1> SUFFICES ASSUME Rows, Sown, [Next]_vars PROVE Sown'
  OBVIOUS
<1>1. ASSUME NEW b \in Touched, NEW c \in CopiesOf(b), Lend(c) PROVE Sown'
  <2>1. c \in Barcodes /\ copy[c].book = b /\ BookExists(b) /\ "LOANED" \in CopyStatus
    BY <1>1 DEF CopiesOf, Lend, Visible, BookExists, CopyStatus
  <2> QED
    BY <1>1, <2>1, SyncSown DEF Lend
<1>2. ASSUME NEW b \in Touched, NEW l \in loans, copy[l.copy].book = b, Return(l) PROVE Sown'
  <2>1. l.copy \in Barcodes /\ BookExists(b) /\ "AVAILABLE" \in CopyStatus
    BY <1>2, RowFacts DEF CopyStatus
  <2> QED
    BY <1>2, <2>1, SyncSown DEF Return
<1>3. ASSUME NEW b \in Touched, NEW c \in Typed, AddCopy(b, c) PROVE Sown'
  <2>1. c \in Barcodes /\ BookExists(b) /\ "AVAILABLE" \in CopyStatus
    BY <1>3, SeedBoundAssumption DEF AddCopy, Visible, BookExists, CopyStatus
  <2> QED
    BY <1>3, <2>1, SyncSown DEF AddCopy
<1>4. CASE \E b \in Touched : RemoveBook(b)
  BY <1>4, RemoveBookSown
<1>5. ASSUME UNCHANGED <<copy, raced, seed>>,
             \A b \in Books : /\ book'[b].state = book[b].state /\ book'[b].total = book[b].total
                              /\ book'[b].available = book[b].available
      PROVE  Sown'
  BY <1>5, StillSown, RememberedStays
<1>6. ASSUME NEW b \in Touched, Rate(b, 1) PROVE Sown'
  <2>1. \A d \in Books : /\ book'[d].state = book[d].state /\ book'[d].total = book[d].total
                         /\ book'[d].available = book[d].available
    BY <1>6, RowFacts, SeedBoundAssumption DEF Rate, BookRow
  <2> QED
    BY <1>5, <1>6, <2>1 DEF Rate
<1>7. ASSUME \/ \E l \in loans : AskReturn(l)
             \/ \E i \in 1 .. Len(SeedAuthors) : RemoveAuthor(SeedAuthors[i])
             \/ \E i \in 1 .. Len(SeedCategories) : RemoveCategory(SeedCategories[i])
             \/ \E x \in Claimed : Rename(x)
             \/ ChangeAdmin \/ SeedOnlyAdmin \/ UNCHANGED vars
      PROVE  Sown'
  <2>1. UNCHANGED <<copy, raced, seed, book>>
    BY <1>7 DEF AskReturn, RemoveAuthor, RemoveCategory, Rename, ChangeAdmin, SeedOnlyAdmin,
       vars, tables, shelf
  <2> QED
    BY <1>5, <2>1
<1>8. ASSUME \/ StartSeed \/ UpsertAuthor \/ UpsertCategory \/ ReadBarcodes \/ SeedAdmin
             \/ Fails \/ Crash
      PROVE  Sown'
  <2>1. UNCHANGED <<copy, raced, book>>
    BY <1>8 DEF StartSeed, UpsertAuthor, UpsertCategory, ReadBarcodes, SeedAdmin, Fails, Crash,
       Stop, tables, shelf
  <2>2. seed'.pc \notin {"countCopies", "createCopies", "setCounters"}
    <3>1. seed.pc \in Statements /\ Len(SeedAuthors) \in Nat /\ Len(SeedCategories) \in Nat
      BY SeedRows DEF Rows, TypeOK
    <3>2. {"author", "category", "barcodes"} \subseteq Statements
      BY DEF Statements
    <3>3. CASE UpsertAuthor
      BY <3>1, <3>2, <3>3, LoopKinds DEF UpsertAuthor, Write
    <3>4. CASE UpsertCategory
      BY <3>1, <3>2, <3>4, LoopKinds DEF UpsertCategory, Write
    <3>5. CASE SeedAdmin \/ Fails \/ Crash
      <4>1. seed' = Off
        BY <3>5 DEF SeedAdmin, Fails, Crash, Stop, Write
      <4> QED
        BY <4>1 DEF Off
    <3>7. CASE StartSeed
      BY <3>7 DEF StartSeed, Write, Off
    <3>6. CASE ReadBarcodes
      BY <3>6 DEF ReadBarcodes, Write, Rows, TypeOK
    <3> QED
      BY <1>8, <3>3, <3>4, <3>5, <3>6, <3>7
  <2>3. Remembered'
    BY <2>2 DEF Remembered
  <2> QED
    BY <2>1, <2>3, StillSown
<1>9. CASE LibraryStep
  BY <1>1, <1>2, <1>3, <1>4, <1>6, <1>7, <1>9, LibrarySteps
<1> QED
  BY <1>7, <1>8, <1>9, UpsertBookSown, CountCopiesSown, CreateCopiesSown, SetCountersSown,
     SeedDashboardSown DEF Next, SeedStep

\* What every statement of the seeds, of the fixture and of the library keeps.
LEMMA StagingInvariant == Spec => []IInv
<1>1. Init => IInv
  BY RowsInit, MatchInit, SownInit DEF IInv
<1>2. IInv /\ [Next]_vars => IInv'
  BY RowsNext, MatchNext, SownNext DEF IInv
<1> QED
  BY <1>1, <1>2, PTL DEF Spec

\* Copies are stocked once: killed between any two statements and run again, the seed
\* leaves each base book with counters that agree with its copies, unless a request
\* changed the book between the count of its copies and the update.
THEOREM StockIsCounted == Spec => []StockCounted
<1>1. IInv => StockCounted
  BY DEF IInv, Sown, Counted, StockCounted
<1> QED
  BY <1>1, StagingInvariant, PTL

-----------------------------------------------------------------------------
(* What a run of the fixture leaves.                                       *)

\* Only the fixture writes the shelf or reviews without a request and without a
\* statement of the base seed.
LEMMA FixtureAlone ==
  ASSUME Rows, [Next]_vars, FixtureRuns
  PROVE  SeedDashboard
<1>1. changes' = changes /\ seed' = seed /\ ~UNCHANGED <<shelf, review>>
  BY DEF FixtureRuns
<1>2. ~Request
  BY <1>1 DEF Request, Rows, TypeOK
<1>3. ~LibraryStep
  <2>1. ~ \E b \in Touched : \E c \in CopiesOf(b) : Lend(c)
    BY <1>2 DEF Lend, Change
  <2>2. ~ \E l \in loans : AskReturn(l) \/ Return(l)
    BY <1>2 DEF AskReturn, Return, Change
  <2>3. ~ \E b \in Touched : RemoveBook(b) \/ Rate(b, 1) \/ \E c \in Typed : AddCopy(b, c)
    BY <1>2 DEF RemoveBook, Rate, AddCopy, Change
  <2>4. /\ ~ \E i \in 1 .. Len(SeedAuthors) : RemoveAuthor(SeedAuthors[i])
        /\ ~ \E i \in 1 .. Len(SeedCategories) : RemoveCategory(SeedCategories[i])
        /\ ~ \E x \in Claimed : Rename(x)
        /\ ~ChangeAdmin
    BY <1>2 DEF RemoveAuthor, RemoveCategory, Rename, ChangeAdmin
  <2> QED
    BY <2>1, <2>2, <2>3, <2>4, LibrarySteps
<1>4. ~ (StartSeed \/ ReadBarcodes \/ CountCopies \/ SeedAdmin \/ SeedOnlyAdmin \/ Fails \/ Crash
         \/ UpsertAuthor \/ UpsertCategory \/ UNCHANGED vars)
  BY <1>1 DEF StartSeed, ReadBarcodes, CountCopies, SeedAdmin, SeedOnlyAdmin, Fails, Crash, Stop,
     UpsertAuthor, UpsertCategory, vars, tables, shelf
<1>5. ~UpsertBook
  <2> SUFFICES ASSUME UpsertBook PROVE FALSE
    OBVIOUS
  <2>1. PICK b : b = SeedBooks[seed.at]
    OBVIOUS
  <2> QED
    BY <1>1, <2>1, Upserted DEF UpsertBook
<1>6. ~CreateCopies
  <2> SUFFICES ASSUME CreateCopies PROVE FALSE
    OBVIOUS
  <2>1. PICK b : b = SeedBooks[seed.at]
    OBVIOUS
  <2>2. PICK new : new = NewBarcodes
    OBVIOUS
  <2> QED
    BY <1>1, <2>1, <2>2, Created DEF CreateCopies
<1>7. ~SetCounters
  BY <1>1, NextBookKinds DEF SetCounters, Write
<1> QED
  BY <1>3, <1>4, <1>5, <1>6, <1>7 DEF Next, SeedStep

\* Two elements are two.
LEMMA TwoElements ==
  ASSUME NEW a, NEW b, a # b
  PROVE  IsFiniteSet({a, b}) /\ Cardinality({a, b}) = 2
<1>1. IsFiniteSet({a}) /\ Cardinality({a}) = 1
  BY FS_Singleton
<1>2. /\ IsFiniteSet({a} \cup {b})
      /\ Cardinality({a} \cup {b}) = IF b \in {a} THEN Cardinality({a}) ELSE Cardinality({a}) + 1
  BY <1>1, FS_AddElement
<1>3. {a} \cup {b} = {a, b} /\ b \notin {a}
  OBVIOUS
<1> QED
  BY <1>1, <1>2, <1>3

\* Three members review a book in turn, and their first two ratings differ.
LEMMA ThreeReviewers ==
  ASSUME NEW p \in Nat
  PROVE  /\ \A x, y \in 0 .. 2 : Reviewer(p, x) = Reviewer(p, y) => x = y
         /\ DemoReview(p, 0) # DemoReview(p, 1)
<1>1. \A x, y \in 0 .. 2 : Reviewer(p, x) = Reviewer(p, y) => x = y
  BY DEF Reviewer
<1>2. PICK k \in 0 .. 4 : k = (p * 3) % 5
  OBVIOUS
<1>3. (p * 3 + 0) % 5 = k /\ (p * 3 + 1) % 5 = (IF k = 4 THEN 0 ELSE k + 1)
  BY <1>2
<1>4. PICK j \in 1 .. 5 : j = k + 1
  OBVIOUS
<1>5. PICK h \in 1 .. 5 : h = IF k = 4 THEN 1 ELSE k + 2
  OBVIOUS
<1>6. DemoReview(p, 0) = ReviewFixtures[j] /\ DemoReview(p, 1) = ReviewFixtures[h]
  BY <1>3, <1>4, <1>5 DEF DemoReview
<1>7. ReviewFixtures[j] # ReviewFixtures[h]
  BY <1>4, <1>5 DEF ReviewFixtures
<1> QED
  BY <1>1, <1>6, <1>7

\* The reviews of a visible book after a run.
LEMMA ReviewsLeft ==
  ASSUME Rows, SeedDashboard, NEW b \in Books
  PROVE  /\ review'[b][Somebody] = review[b][Somebody]
         /\ book'[b].state = "LIVE" =>
              \E p \in Nat : \A x \in 0 .. 2 : review'[b][Reviewer(p, x)] = DemoReview(p, x)
<1>1. review' = DemoReviews
  BY DEF SeedDashboard
<1>2. PICK p \in Nat : p = Place(b)
  BY PlaceType
<1>3. DemoReviews[b] =
        IF ~Shown(b) THEN review[b]
        ELSE [u \in Users |->
                IF \E x \in 0 .. 2 : Reviewer(p, x) = u
                THEN DemoReview(p, CHOOSE x \in 0 .. 2 : Reviewer(p, x) = u)
                ELSE review[b][u]]
  BY <1>2 DEF DemoReviews
<1>4. Somebody \in Users /\ Somebody \notin DemoUsers
  BY SeedBoundAssumption DEF Users
<1>5. \A x \in 0 .. 2 : Reviewer(p, x) # Somebody
  BY <1>4, DemoRating
<1>6. review'[b][Somebody] = review[b][Somebody]
  BY <1>1, <1>3, <1>4, <1>5
<1>7. ASSUME book'[b].state = "LIVE"
      PROVE  \A x \in 0 .. 2 : review'[b][Reviewer(p, x)] = DemoReview(p, x)
  <2> SUFFICES ASSUME NEW x \in 0 .. 2
               PROVE  review'[b][Reviewer(p, x)] = DemoReview(p, x)
    OBVIOUS
  <2>1. Shown(b)
    <3>1. CASE b \in DemoBooks
      BY <3>1 DEF Shown
    <3>2. CASE b \notin DemoBooks
      BY <1>7, <3>2, FixtureBooks DEF Shown, Visible
    <3> QED
      BY <3>1, <3>2
  <2>2. PICK u \in Users : u = Reviewer(p, x)
    BY DemoRating DEF Users
  <2>3. PICK y : y = CHOOSE z \in 0 .. 2 : Reviewer(p, z) = u
    OBVIOUS
  <2>4. y \in 0 .. 2 /\ Reviewer(p, y) = u
    BY <2>2, <2>3
  <2>5. y = x
    BY <2>2, <2>4, ThreeReviewers
  <2>6. review'[b][u] = DemoReview(p, y)
    BY <1>1, <1>3, <2>1, <2>2, <2>3
  <2> QED
    BY <2>2, <2>5, <2>6
<1> QED
  BY <1>6, <1>7

\* They are by three members at least and not all alike.
LEMMA ReviewsEnough ==
  ASSUME NEW r, NEW p \in Nat, \A x \in 0 .. 2 : r[Reviewer(p, x)] = DemoReview(p, x),
         NEW by, by = {u \in DemoUsers : r[u] # 0}
  PROVE  Cardinality(by) >= 3 /\ Cardinality({r[u] : u \in by}) > 1
<1>1. PICK f : f = [x \in 0 .. 2 |-> Reviewer(p, x)]
  OBVIOUS
<1>2. IsFiniteSet(0 .. 2) /\ Cardinality(0 .. 2) = 3
  <2>1. 0 \in Int /\ 2 \in Int
    OBVIOUS
  <2>2. IsFiniteSet(0 .. 2) /\ Cardinality(0 .. 2) = IF 0 > 2 THEN 0 ELSE 2 - 0 + 1
    BY <2>1, FS_Interval
  <2> QED
    BY <2>2
<1>3. IsFiniteSet(by)
  <2>1. IsFiniteSet(Users) /\ by \in SUBSET Users
    BY FiniteRows DEF Users
  <2> QED
    BY <2>1, FS_Subset
<1>4. \A x \in 0 .. 2 : Reviewer(p, x) \in by
  BY DemoRating
<1>5. f \in Injection(0 .. 2, by)
  BY <1>1, <1>4, ThreeReviewers DEF Injection, IsInjective
<1>6. Cardinality(by) >= 3
  <2>1. Cardinality(0 .. 2) <= Cardinality(by)
    BY <1>3, <1>5, FS_Injection
  <2>2. Cardinality(by) \in Nat
    BY <1>3, FS_CardinalityType
  <2> QED
    BY <1>2, <2>1, <2>2
<1> DEFINE V == {r[u] : u \in by}
           g == [u \in by |-> r[u]]
<1>7. g \in Surjection(by, V)
  BY DEF Surjection
<1>8. DemoReview(p, 0) \in V /\ DemoReview(p, 1) \in V /\ DemoReview(p, 0) # DemoReview(p, 1)
  <2>1. 0 \in 0 .. 2 /\ 1 \in 0 .. 2
    OBVIOUS
  <2> QED
    BY <1>4, <2>1, ThreeReviewers
<1> HIDE DEF V, g
<1>9. PICK T : T = {DemoReview(p, 0), DemoReview(p, 1)}
  OBVIOUS
<1>10. T \in SUBSET V /\ Cardinality(T) = 2
  BY <1>8, <1>9, TwoElements
<1>11. IsFiniteSet(V)
  BY <1>3, <1>7, FS_Surjection
<1>12. Cardinality(V) \in Nat /\ Cardinality(T) <= Cardinality(V)
  BY <1>10, <1>11, FS_Subset, FS_CardinalityType
<1>13. Cardinality(V) > 1
  BY <1>10, <1>12
<1> QED
  BY <1>6, <1>13 DEF V

\* After the fixture every visible book has three demo members' reviews at least, not
\* all alike, and other members' reviews stay.
THEOREM ReviewsRefreshed == Spec => FixtureReviews
<1>1. ASSUME Rows, [Next]_vars, FixtureRuns
      PROVE  \A b \in Books :
               /\ review'[b][Somebody] = review[b][Somebody]
               /\ book'[b].state = "LIVE" =>
                    LET by == {u \in DemoUsers : review'[b][u] # 0}
                    IN Cardinality(by) >= 3 /\ Cardinality({review'[b][u] : u \in by}) > 1
  <2>1. SeedDashboard
    BY <1>1, FixtureAlone
  <2> SUFFICES ASSUME NEW b \in Books
               PROVE  /\ review'[b][Somebody] = review[b][Somebody]
                      /\ book'[b].state = "LIVE" =>
                           LET by == {u \in DemoUsers : review'[b][u] # 0}
                           IN Cardinality(by) >= 3 /\ Cardinality({review'[b][u] : u \in by}) > 1
    OBVIOUS
  <2>2. review'[b][Somebody] = review[b][Somebody]
    BY <1>1, <2>1, ReviewsLeft
  <2>3. ASSUME book'[b].state = "LIVE"
        PROVE  LET by == {u \in DemoUsers : review'[b][u] # 0}
               IN Cardinality(by) >= 3 /\ Cardinality({review'[b][u] : u \in by}) > 1
    <3>1. PICK p \in Nat : \A x \in 0 .. 2 : review'[b][Reviewer(p, x)] = DemoReview(p, x)
      BY <1>1, <2>1, <2>3, ReviewsLeft
    <3>2. PICK r : r = review'[b]
      OBVIOUS
    <3>3. PICK by : by = {u \in DemoUsers : r[u] # 0}
      OBVIOUS
    <3>4. \A x \in 0 .. 2 : r[Reviewer(p, x)] = DemoReview(p, x)
      BY <3>1, <3>2
    <3>5. Cardinality(by) >= 3 /\ Cardinality({r[u] : u \in by}) > 1
      BY <3>3, <3>4, ReviewsEnough
    <3> QED
      BY <3>2, <3>3, <3>5
  <2> QED
    BY <2>2, <2>3
<1>2. Rows /\ [Next]_vars =>
        [FixtureRuns =>
           \A b \in Books :
             /\ review'[b][Somebody] = review[b][Somebody]
             /\ book'[b].state = "LIVE" =>
                  LET by == {u \in DemoUsers : review'[b][u] # 0}
                  IN Cardinality(by) >= 3 /\ Cardinality({review'[b][u] : u \in by}) > 1]_vars
  BY <1>1
<1> QED
  BY <1>2, RowsInit, RowsNext, PTL DEF Spec, FixtureReviews

\* The intervals that the fixture counts with.
LEMMA SmallIntervals ==
  /\ IsFiniteSet(1 .. 5) /\ Cardinality(1 .. 5) = 5
  /\ IsFiniteSet(0 .. 9) /\ Cardinality(0 .. 9) = 10
<1>1. 0 \in Int /\ 1 \in Int /\ 5 \in Int /\ 9 \in Int
  OBVIOUS
<1>2. IsFiniteSet(1 .. 5) /\ Cardinality(1 .. 5) = IF 1 > 5 THEN 0 ELSE 5 - 1 + 1
  BY <1>1, FS_Interval
<1>3. IsFiniteSet(0 .. 9) /\ Cardinality(0 .. 9) = IF 0 > 9 THEN 0 ELSE 9 - 0 + 1
  BY <1>1, FS_Interval
<1> QED
  BY <1>2, <1>3

\* How many of the 25 barcodes the fixture's pattern gives each status.
Pattern(status) == {c \in (1 .. 5) \X (1 .. 5) : CopyStatusOf(c[1], c[2]) = status}
LEMMA PatternCounts ==
  /\ Cardinality(Pattern("AVAILABLE")) = 13
  /\ Cardinality(Pattern("LOANED")) = 7
  /\ Cardinality(Pattern("DAMAGED")) = 2
  /\ Cardinality(Pattern("LOST")) = 1
  /\ Cardinality(Pattern("ARCHIVED")) = 2
<1> DEFINE D == 1 .. 5
           All == D \X D
           First == D \X {1}
           Second == {1, 4} \X {2}
           Third == D \X {3}
<1>1. IsFiniteSet(D) /\ Cardinality(D) = 5
  BY SmallIntervals
<1>2. /\ IsFiniteSet({1}) /\ Cardinality({1}) = 1
      /\ IsFiniteSet({2}) /\ Cardinality({2}) = 1
      /\ IsFiniteSet({3}) /\ Cardinality({3}) = 1
  BY FS_Singleton
<1>3. IsFiniteSet({1, 4}) /\ Cardinality({1, 4}) = 2
  <2>1. 1 # 4
    OBVIOUS
  <2> QED
    BY <2>1, TwoElements, Zenon
<1>4. IsFiniteSet(All) /\ Cardinality(All) = 25
  <2> HIDE DEF D
  <2>1. IsFiniteSet(D \X D) /\ Cardinality(D \X D) = Cardinality(D) * Cardinality(D)
    BY <1>1, FS_Product
  <2> QED
    BY <1>1, <2>1
<1>5. IsFiniteSet(First) /\ Cardinality(First) = 5
  <2> HIDE DEF D
  <2>1. IsFiniteSet(D \X {1}) /\ Cardinality(D \X {1}) = Cardinality(D) * Cardinality({1})
    BY <1>1, <1>2, FS_Product
  <2> QED
    BY <1>1, <1>2, <2>1
<1>6. IsFiniteSet(Third) /\ Cardinality(Third) = 5
  <2> HIDE DEF D
  <2>1. IsFiniteSet(D \X {3}) /\ Cardinality(D \X {3}) = Cardinality(D) * Cardinality({3})
    BY <1>1, <1>2, FS_Product
  <2> QED
    BY <1>1, <1>2, <2>1
<1>7. IsFiniteSet(Second) /\ Cardinality(Second) = 2
  <2>1. IsFiniteSet({1, 4} \X {2}) /\ Cardinality({1, 4} \X {2}) = Cardinality({1, 4}) * Cardinality({2})
    BY <1>2, <1>3, FS_Product
  <2> QED
    BY <1>2, <1>3, <2>1
<1>8. First \cap Second = {} /\ (First \cup Second) \cap Third = {}
  BY DEF First, Second, Third
<1>9. Pattern("LOANED") = First \cup Second
  BY DEF Pattern, CopyStatusOf, Loaned
<1>10. Pattern("AVAILABLE") = All \ (First \cup Second \cup Third)
  BY DEF Pattern, CopyStatusOf, Loaned
<1>11. All \cap (First \cup Second \cup Third) = First \cup Second \cup Third
  OBVIOUS
<1>12. Cardinality({}) = 0
  BY FS_EmptySet
<1>13. Pattern("DAMAGED") = {<<1, 3>>, <<2, 3>>} /\ <<1, 3>> # <<2, 3>>
  BY DEF Pattern, CopyStatusOf, Loaned
<1>14. Pattern("LOST") = {<<3, 3>>}
  BY DEF Pattern, CopyStatusOf, Loaned
<1>15. Pattern("ARCHIVED") = {<<4, 3>>, <<5, 3>>} /\ <<4, 3>> # <<5, 3>>
  BY DEF Pattern, CopyStatusOf, Loaned
<1> HIDE DEF D, All, First, Second, Third
<1>16. IsFiniteSet(First \cup Second) /\ Cardinality(First \cup Second) = 7
  <2>1. /\ IsFiniteSet(First \cup Second)
        /\ Cardinality(First \cup Second) =
             Cardinality(First) + Cardinality(Second) - Cardinality(First \cap Second)
    BY <1>5, <1>7, FS_Union
  <2> QED
    BY <1>5, <1>7, <1>8, <1>12, <2>1
<1>17. Cardinality(First \cup Second \cup Third) = 12
  <2>1. PICK U : U = First \cup Second
    OBVIOUS
  <2>2. Cardinality(U \cup Third) = Cardinality(U) + Cardinality(Third) - Cardinality(U \cap Third)
    BY <1>6, <1>16, <2>1, FS_Union
  <2> QED
    BY <1>6, <1>8, <1>12, <1>16, <2>1, <2>2
<1>18. Cardinality(Pattern("AVAILABLE")) = 13
  <2>1. PICK U : U = First \cup Second \cup Third
    OBVIOUS
  <2>2. Cardinality(All \ U) = Cardinality(All) - Cardinality(All \cap U)
    BY <1>4, FS_Difference
  <2> QED
    BY <1>4, <1>10, <1>11, <1>17, <2>1, <2>2
<1>19. Cardinality(Pattern("DAMAGED")) = 2 /\ Cardinality(Pattern("ARCHIVED")) = 2
  <2>1. Cardinality({<<1, 3>>, <<2, 3>>}) = 2
    BY <1>13, TwoElements, Zenon
  <2>2. Cardinality({<<4, 3>>, <<5, 3>>}) = 2
    BY <1>15, TwoElements, Zenon
  <2> QED
    BY <1>13, <1>15, <2>1, <2>2, Zenon
<1>20. Cardinality(Pattern("LOST")) = 1
  BY <1>14, FS_Singleton
<1> QED
  BY <1>9, <1>16, <1>18, <1>19, <1>20

\* The fixture's copies have those statuses.
LEMMA CopiesLeft ==
  ASSUME Rows, SeedDashboard, NEW status
  PROVE  DemoRows(status) = Cardinality(Pattern(status))
<1> DEFINE S == {c \in Barcodes : copy'[c].book \in DemoBooks /\ copy'[c].status = status}
<1>1. NoCopy.book \notin DemoBooks
  BY SeedAssumption DEF NoCopy
<1>2. \A c \in Barcodes : copy'[c].book \in DemoBooks <=> c[1] \in DemoBooks
  BY <1>1, FixtureCopies
<1>3. \A c \in Barcodes : c[1] \in DemoBooks =>
        c \in DemoBooks \X (1 .. 5) /\ copy'[c].status = CopyStatusOf(c[1], c[2])
  BY FixtureCopies, BarcodeShape
<1>4. \A c \in DemoBooks \X (1 .. 5) : c \in Barcodes /\ c[1] \in DemoBooks
  BY DEF Barcodes
<1>5. S \subseteq Pattern(status)
  BY <1>2, <1>3 DEF Pattern, DemoBooks
<1>6. Pattern(status) \subseteq S
  BY <1>2, <1>3, <1>4 DEF Pattern, DemoBooks
<1> QED
  BY <1>5, <1>6 DEF DemoRows

\* How many loans of each status the fixture has.
LEMMA LoanCounts ==
  /\ IsFiniteSet(ActiveLoans) /\ Cardinality(ActiveLoans) = 5
  /\ Cardinality({l \in ActiveLoans : l.overdue}) = 2
  /\ Cardinality(RequestedLoans) = 2
  /\ Cardinality(ReturnedLoans) = 10
<1>1. IsFiniteSet(ActiveLoans) /\ Cardinality(ActiveLoans) = 5
  <2>1. ActiveOf = [i \in DemoBooks |-> ActiveOf[i]]
    BY Zenon DEF ActiveOf
  <2>2. \A i, j \in DemoBooks : ActiveOf[i] = ActiveOf[j] => i = j
    BY ActiveRows
  <2>3. ActiveOf \in Bijection(DemoBooks, ActiveLoans)
    BY <2>1, <2>2, ActiveRows DEF Bijection, Injection, IsInjective, Surjection
  <2>4. ExistsBijection(DemoBooks, ActiveLoans)
    BY <2>3 DEF ExistsBijection
  <2> QED
    BY <2>4, SmallIntervals, FS_Bijection DEF DemoBooks
<1>2. Cardinality({l \in ActiveLoans : l.overdue}) = 2
  <2>1. 2 \in DemoBooks /\ 3 \in DemoBooks
    BY DEF DemoBooks
  <2>2. ActiveOf[2] # ActiveOf[3]
    BY <2>1, ActiveRows
  <2>3. {l \in ActiveLoans : l.overdue} = {ActiveOf[2], ActiveOf[3]}
    BY <2>1, ActiveRows
  <2>4. Cardinality({ActiveOf[2], ActiveOf[3]}) = 2
    BY <2>2, TwoElements, Zenon
  <2> QED
    BY <2>3, <2>4, Zenon
<1>3. Cardinality(RequestedLoans) = 2
  <2>1. RequestOf[1] # RequestOf[4]
    BY RequestRows
  <2>2. RequestedLoans = {RequestOf[1], RequestOf[4]}
    BY RequestRows
  <2> QED
    BY <2>1, <2>2, TwoElements
<1>4. Cardinality(ReturnedLoans) = 10
  <2>1. \A q, r \in 0 .. 9 : (q + 7) % 10 = (r + 7) % 10 => q = r
    OBVIOUS
  <2>2. \A q, r \in 0 .. 9 : ReturnOf[q] = ReturnOf[r] => q = r
    BY <2>1, ReturnRowsOf
  <2>3. ReturnOf \in [0 .. 9 -> ReturnedLoans]
    BY ReturnRowsOf DEF ReturnOf
  <2>4. ReturnOf \in Bijection(0 .. 9, ReturnedLoans)
    BY <2>2, <2>3, ReturnRowsOf DEF Bijection, Injection, IsInjective, Surjection
  <2>5. ExistsBijection(0 .. 9, ReturnedLoans)
    BY <2>4 DEF ExistsBijection
  <2> QED
    BY <2>5, SmallIntervals, FS_Bijection
<1> QED
  BY <1>1, <1>2, <1>3, <1>4

\* The loans of the fixture's books after a run are its own, by status.
LEMMA LoansLeft ==
  ASSUME Rows, SeedDashboard
  PROVE  /\ DemoLoanRows("ACTIVE") = ActiveLoans
         /\ DemoLoanRows("RETURN_REQUESTED") = RequestedLoans
         /\ DemoLoanRows("RETURNED") = ReturnedLoans
<1>1. \A l \in loans' : copy'[l.copy].book \in DemoBooks => l \in DemoLoans
  BY KeptLoans
<1>2. \A l \in DemoLoans : l \in loans' /\ copy'[l.copy].book \in DemoBooks
  BY KeptLoans, FixtureLoan, FixtureCopies
<1>3. \A status : DemoLoanRows(status) = {l \in DemoLoans : l.status = status}
  BY <1>1, <1>2 DEF DemoLoanRows
<1>4. \A l \in ActiveLoans : l.status = "ACTIVE"
  BY ActiveRows
<1>5. \A l \in RequestedLoans : l.status = "RETURN_REQUESTED"
  BY RequestRows
<1>6. \A l \in ReturnedLoans : l.status = "RETURNED"
  BY ReturnRowsOf
<1>7. DemoLoans = ActiveLoans \cup RequestedLoans \cup ReturnedLoans
  BY DEF DemoLoans
<1>8. {l \in DemoLoans : l.status = "ACTIVE"} = ActiveLoans
  BY <1>4, <1>5, <1>6, <1>7
<1>9. {l \in DemoLoans : l.status = "RETURN_REQUESTED"} = RequestedLoans
  BY <1>4, <1>5, <1>6, <1>7
<1>10. {l \in DemoLoans : l.status = "RETURNED"} = ReturnedLoans
  BY <1>4, <1>5, <1>6, <1>7
<1> QED
  BY <1>3, <1>8, <1>9, <1>10

\* Of five or more there are five that fewer than five are above.
LEMMA TopFive ==
  ASSUME NEW V, IsFiniteSet(V), Cardinality(V) >= 5, NEW f \in [V -> Nat], NEW N \in Nat,
         \A x \in V : f[x] <= N,
         NEW Top, Top = {b \in V : Cardinality({x \in V : f[x] > f[b]}) < 5}
  PROVE  Cardinality(Top) >= 5
<1>1. IsFiniteSet(Top) /\ Cardinality(Top) \in Nat
  <2>1. Top \in SUBSET V
    OBVIOUS
  <2> QED
    BY <2>1, FS_Subset, FS_CardinalityType
<1> SUFFICES ASSUME Cardinality(Top) < 5 PROVE FALSE
  BY <1>1
<1> DEFINE S == {N - f[x] : x \in V \ Top}
<1>2. S \subseteq Nat /\ S # {}
  <2>1. V \ Top # {}
    <3>1. ASSUME V = Top PROVE FALSE
      <4>1. Cardinality(Top) >= 5
        BY <3>1, Zenon
      <4> QED
        BY <1>1, <4>1
    <3> QED
      BY <3>1
  <2>2. \A x \in V : N - f[x] \in Nat
    OBVIOUS
  <2> QED
    BY <2>1, <2>2
<1>3. PICK n \in S : \A m \in S : n <= m
  <2> HIDE DEF S
  <2> QED
    BY <1>2, LeastNumber
<1>4. PICK b \in V \ Top : n = N - f[b]
  OBVIOUS
<1>5. \A x \in V \ Top : f[x] <= f[b]
  <2> SUFFICES ASSUME NEW x \in V \ Top PROVE f[x] <= f[b]
    OBVIOUS
  <2>1. N - f[b] <= N - f[x]
    BY <1>3, <1>4
  <2>2. f[x] \in Nat /\ f[b] \in Nat
    OBVIOUS
  <2> QED
    BY <2>1, <2>2
<1> DEFINE A == {x \in V : f[x] > f[b]}
<1>6. A \in SUBSET Top
  <2> SUFFICES ASSUME NEW x \in V, f[x] > f[b] PROVE x \in Top
    OBVIOUS
  <2>1. f[x] \in Nat /\ f[b] \in Nat
    OBVIOUS
  <2> QED
    BY <1>5, <2>1
<1>7. ~ (Cardinality(A) < 5)
  BY <1>4
<1> HIDE DEF A
<1>8. Cardinality(A) <= Cardinality(Top) /\ Cardinality(A) \in Nat
  BY <1>1, <1>6, FS_Subset, FS_CardinalityType
<1> QED
  BY <1>1, <1>7, <1>8

\* Five visible books that have been borrowed fill the five places.
DemoBorrowed == \A b \in DemoBooks : Visible(b) /\ \E l \in loans : copy[l.copy].book = b
PlacesFilled == Cardinality(TopBorrowed) >= 5
LEMMA FivePlaces == Rows /\ LoansMatch /\ DemoBorrowed => PlacesFilled
<1> SUFFICES ASSUME Rows, LoansMatch, DemoBorrowed PROVE PlacesFilled
  OBVIOUS
<1>1. IsFiniteSet(loans)
  BY DEF LoansMatch
<1>2. \A b : Borrows(b) \in Nat /\ Borrows(b) <= Cardinality(loans)
  <2> SUFFICES ASSUME NEW b PROVE Borrows(b) \in Nat /\ Borrows(b) <= Cardinality(loans)
    OBVIOUS
  <2>1. PICK L : L = {l \in loans : copy[l.copy].book = b}
    OBVIOUS
  <2>2. L \in SUBSET loans
    BY <2>1
  <2>3. Cardinality(L) \in Nat /\ Cardinality(L) <= Cardinality(loans)
    BY <1>1, <2>2, FS_Subset, FS_CardinalityType
  <2> QED
    BY <2>1, <2>3 DEF Borrows
<1>3. \A b \in DemoBooks : b \in Books /\ Visible(b) /\ Borrows(b) > 0
  <2> SUFFICES ASSUME NEW b \in DemoBooks PROVE b \in Books /\ Visible(b) /\ Borrows(b) > 0
    OBVIOUS
  <2>1. PICK L : L = {l \in loans : copy[l.copy].book = b}
    OBVIOUS
  <2>2. L \in SUBSET loans /\ L # {}
    BY <2>1 DEF DemoBorrowed
  <2>3. Cardinality(L) # 0 /\ Cardinality(L) \in Nat
    BY <1>1, <2>2, FS_Subset, FS_EmptySet, FS_CardinalityType
  <2>4. Borrows(b) = Cardinality(L)
    BY <2>1 DEF Borrows
  <2> QED
    BY <2>3, <2>4, SeedAssumption DEF DemoBorrowed
<1> DEFINE V == {b \in Books : Visible(b) /\ Borrows(b) > 0}
           f == [b \in V |-> Borrows(b)]
           T == {b \in V : Cardinality({x \in V : f[x] > f[b]}) < 5}
<1>4. IsFiniteSet(V) /\ Cardinality(V) >= 5
  <2>1. V \in SUBSET Books /\ DemoBooks \in SUBSET V
    BY <1>3
  <2> HIDE DEF V
  <2>2. IsFiniteSet(V) /\ Cardinality(V) \in Nat
    BY <2>1, FiniteRows, FS_Subset, FS_CardinalityType
  <2>3. Cardinality(DemoBooks) <= Cardinality(V)
    BY <2>1, <2>2, FS_Subset
  <2> QED
    BY <2>2, <2>3, SmallIntervals DEF DemoBooks
<1>5. f \in [V -> Nat] /\ \A x \in V : f[x] <= Cardinality(loans)
  BY <1>2
<1>6. \A b \in V : MoreBorrowed(b) = {x \in V : f[x] > f[b]}
  <2> SUFFICES ASSUME NEW b \in V PROVE MoreBorrowed(b) = {x \in V : f[x] > f[b]}
    OBVIOUS
  <2>1. \A x \in Books : Borrows(x) > Borrows(b) => Borrows(x) > 0
    BY <1>2
  <2> QED
    BY <2>1 DEF MoreBorrowed
<1>7. TopBorrowed = {b \in V : Cardinality(MoreBorrowed(b)) < 5}
  BY DEF TopBorrowed
<1>8. \A b \in V : Cardinality(MoreBorrowed(b)) = Cardinality({x \in V : f[x] > f[b]})
  <2> HIDE DEF V, f
  <2> QED
    BY <1>6
<1>9. TopBorrowed = T
  BY <1>7, <1>8
<1>10. Cardinality(loans) \in Nat
  BY <1>1, FS_CardinalityType
<1> HIDE DEF V, f
<1>11. Cardinality(T) >= 5
  BY <1>4, <1>5, <1>10, TopFive
<1> QED
  BY <1>9, <1>11 DEF PlacesFilled

\* Each book of the fixture has an active loan.
LEMMA DemoBorrowedLeft ==
  ASSUME Rows, SeedDashboard
  PROVE  DemoBorrowed'
<1>1. \A b \in DemoBooks : book'[b].state = "LIVE"
  BY FixtureBooks
<1>2. \A b \in DemoBooks : \E l \in loans' : copy'[l.copy].book = b
  <2> SUFFICES ASSUME NEW b \in DemoBooks PROVE \E l \in loans' : copy'[l.copy].book = b
    OBVIOUS
  <2>1. PICK l \in DemoLoans : l.copy[1] = b /\ l.copy \in Barcodes
    BY ActiveRows DEF DemoLoans
  <2>2. l \in loans' /\ copy'[l.copy].book = b
    BY <2>1, KeptLoans, FixtureCopies
  <2> QED
    BY <2>2
<1> QED
  BY <1>1, <1>2 DEF DemoBorrowed, Visible

\* Each run refreshes what the dashboard shows of the fixture's books, whatever the
\* library did to them since the last: 25 copies and 17 loans as the document counts
\* them, and five places of the ranking filled.
THEOREM FixtureRefreshes == Spec => FixtureAsDocumented
<1> DEFINE Shows ==
      /\ DemoRows("AVAILABLE") = 13 /\ DemoRows("LOANED") = 7
      /\ DemoRows("DAMAGED") = 2 /\ DemoRows("LOST") = 1 /\ DemoRows("ARCHIVED") = 2
      /\ Cardinality(DemoLoanRows("ACTIVE")) = 5
      /\ Cardinality({l \in DemoLoanRows("ACTIVE") : l.overdue}) = 2
      /\ Cardinality(DemoLoanRows("RETURN_REQUESTED")) = 2
      /\ Cardinality(DemoLoanRows("RETURNED")) = 10
      /\ Cardinality(TopBorrowed') >= 5
<1>1. Rows' /\ LoansMatch' /\ DemoBorrowed' => PlacesFilled'
  BY FivePlaces, PTL
<1>2. ASSUME Rows, LoansMatch, [Next]_vars, FixtureRuns PROVE Shows
  <2>1. SeedDashboard /\ Rows' /\ LoansMatch'
    BY <1>2, FixtureAlone, RowsNext, MatchNext
  <2>2. Cardinality(TopBorrowed') >= 5
    BY <1>1, <1>2, <2>1, DemoBorrowedLeft DEF PlacesFilled
  <2>3. /\ DemoRows("AVAILABLE") = 13 /\ DemoRows("LOANED") = 7
        /\ DemoRows("DAMAGED") = 2 /\ DemoRows("LOST") = 1 /\ DemoRows("ARCHIVED") = 2
    BY <1>2, <2>1, CopiesLeft, PatternCounts
  <2>4. /\ DemoLoanRows("ACTIVE") = ActiveLoans
        /\ DemoLoanRows("RETURN_REQUESTED") = RequestedLoans
        /\ DemoLoanRows("RETURNED") = ReturnedLoans
    BY <1>2, <2>1, LoansLeft
  <2>5. Cardinality({l \in DemoLoanRows("ACTIVE") : l.overdue}) = 2
    BY <2>4, LoanCounts
  <2>6. /\ Cardinality(DemoLoanRows("ACTIVE")) = 5
        /\ Cardinality(DemoLoanRows("RETURN_REQUESTED")) = 2
        /\ Cardinality(DemoLoanRows("RETURNED")) = 10
    BY <2>4, LoanCounts
  <2> QED
    BY <2>2, <2>3, <2>5, <2>6
<1>3. Rows /\ LoansMatch /\ [Next]_vars => [FixtureRuns => Shows]_vars
  BY <1>2
<1> QED
  BY <1>3, RowsInit, RowsNext, MatchInit, MatchNext, PTL DEF Spec, FixtureAsDocumented
=============================================================================
