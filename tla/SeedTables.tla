----------------------------- MODULE SeedTables -----------------------------
(***************************************************************************)
(* The rows that the seed scripts write, and the library at work on them   *)
(* while a script runs: README.md has the seeds run by hand against a      *)
(* deployed database.  A request of the library is one step here, its      *)
(* transaction, though a script may commit between the statements inside:   *)
(* one that counts copies before such a commit and writes the counters     *)
(* after it is not here.  Library has the statements.                       *)
(*                                                                         *)
(* A barcode is <<0, n>> for BK-n, <<i, n>> for STG-DEMO-i-n.               *)
(***************************************************************************)
EXTENDS Integers, FiniteSets, Sequences

CONSTANTS
  SeedAuthors, SeedCategories, SeedBooks,  \* prisma/seed/data: the ids in order
  DemoAuthor,  \* staging-demo-author
  AuthorOf, CategoryOf,  \* what each book row refers to
  ById,        \* all books in the order of their ids
  MaxBarcode,  \* bound: numbers after BK-
  Typed,       \* bound: barcodes that administrators type
  Touched,     \* bound: the books the library works on
  Claimed,     \* bound: the authors and categories whose names it changes
  MaxChanges,  \* bound: requests of the library
  MaxCrashes,  \* bound: how often a script is killed
  Somebody     \* a registered user of the library

VARIABLES
  author,    \* Author rows: NONE, LIVE or ARCHIVED
  category,  \* the categories that exist
  name,      \* who has the unique name (or slug) that a script writes in a row:
             \* that row, a row with an id no script knows, or no row
  admin,     \* the account of ADMIN_SEED_EMAIL
  book,      \* Book rows
  copy,      \* BookCopy rows by barcode
  loans,     \* Loan rows
  review,    \* Review rows: the rating that users gave books
  changes,   \* requests of the library so far
  seed,      \* the base seed: its next statement and what it remembers
  crashes,   \* how often it was killed
  raced      \* books that the library changed while the base seed stocked them

shelf == <<book, copy, loans>>
tables == <<author, category, name, admin, shelf, review>>
vars == <<tables, changes, seed, crashes, raced>>

DemoBooks == 1..5
Books == {ById[i] : i \in 1..Len(ById)}
BaseBooks == {SeedBooks[i] : i \in 1..Len(SeedBooks)}
DemoUsers == 0..9
Users == DemoUsers \cup {Somebody}

AuthorIds == {SeedAuthors[i] : i \in 1..Len(SeedAuthors)} \cup {DemoAuthor}
CategoryIds == {SeedCategories[i] : i \in 1..Len(SeedCategories)}

Barcodes == ({0} \X (1..MaxBarcode)) \cup (DemoBooks \X (1..5))
CopyStatus == {"AVAILABLE", "LOANED", "DAMAGED", "LOST", "ARCHIVED"}
Copy == [book : Books, status : CopyStatus]
NoCopy == [book |-> 0, status |-> "NONE"]

\* prisma/seed/data has rows of each kind, and no id twice; the fixture's books are
\* none of its own, refer to the fixture's author and to seeded categories.
ASSUME SeedAssumption ==
  /\ SeedAuthors \in Seq(AuthorIds) /\ SeedAuthors # <<>>
  /\ SeedCategories \in Seq(CategoryIds) /\ SeedCategories # <<>>
  /\ AuthorIds \cap CategoryIds = {}
  /\ ById \in Seq(Books) /\ SeedBooks \in Seq(Books \ DemoBooks) /\ SeedBooks # <<>>
  /\ DemoBooks \subseteq Books /\ 0 \notin Books
  /\ AuthorOf \in [Books -> AuthorIds] /\ CategoryOf \in [Books -> CategoryIds]
  /\ \A b \in DemoBooks : AuthorOf[b] = DemoAuthor

\* The demo users are none of those who registered.
ASSUME SeedBoundAssumption ==
  /\ MaxBarcode \in Nat /\ MaxChanges \in Nat /\ MaxCrashes \in Nat
  /\ Typed \subseteq Barcodes /\ Touched \subseteq Books
  /\ Claimed \subseteq AuthorIds \cup CategoryIds
  /\ Somebody \notin DemoUsers

\* no tells apart the loans of one copy that the library has made.
Loan ==
  [no : 0..MaxChanges, user : Users, copy : Barcodes, overdue : BOOLEAN,
   status : {"ACTIVE", "RETURN_REQUESTED", "RETURNED"}]

\* rated: the rating is the mean of the book's reviews.
BookRow ==
  [state : {"NONE", "LIVE", "ARCHIVED"}, total : Nat, available : Nat,
   rated : BOOLEAN]
NoBook == [state |-> "NONE", total |-> 0, available |-> 0, rated |-> FALSE]

BookExists(b) == book[b].state # "NONE"
Visible(b) == book[b].state = "LIVE"
CopiesOf(b) == {c \in Barcodes : copy[c].book = b}
With(table, b, statuses) ==
  Cardinality({c \in Barcodes : table[c].book = b /\ table[c].status \in statuses})

\* Author.name, Category.name and Category.slug are unique: a row is not written
\* with a name that another has.  A row that is deleted frees its name.
NameFree(x) == name[x] # "other"
Named(x) == name' = [name EXCEPT ![x] = "own"]
Unnamed(x) == IF name[x] = "own" THEN "free" ELSE name[x]

Open(l) == l.status \in {"ACTIVE", "RETURN_REQUESTED"}
OpenLoans(c) == {l \in loans : l.copy = c /\ Open(l)}

-----------------------------------------------------------------------------
\* syncBookInventory on a table of copies.
Synced(table, b) ==
  [book[b] EXCEPT !.total = With(table, b, CopyStatus \ {"ARCHIVED"}),
                  !.available = With(table, b, {"AVAILABLE"})]

\* The seed has found that book b has no copies and is stocking it.
Stocking(b) ==
  /\ seed.pc \in {"createCopies", "setCounters"}
  /\ SeedBooks[seed.at] = b

Request == changes < MaxChanges /\ changes' = changes + 1

\* A request of the library on book b.
Change(b) ==
  /\ Request
  /\ raced' = IF Stocking(b) THEN raced \cup {b} ELSE raced \ {b}
  /\ UNCHANGED <<author, category, name, admin, seed, crashes>>

Lend(c) ==
  LET b == copy[c].book
  IN /\ copy[c].status = "AVAILABLE" /\ Visible(b)
     /\ copy' = [copy EXCEPT ![c] = [book |-> b, status |-> "LOANED"]]
     /\ loans' = loans \cup
          {[no |-> changes + 1, user |-> Somebody, copy |-> c, overdue |-> FALSE,
            status |-> "ACTIVE"]}
     /\ book' = [book EXCEPT ![b] = Synced(copy', b)]
     /\ UNCHANGED review
     /\ Change(b)

AskReturn(l) ==
  /\ l.status = "ACTIVE"
  /\ loans' = (loans \ {l}) \cup {[l EXCEPT !.status = "RETURN_REQUESTED"]}
  /\ UNCHANGED <<author, category, name, admin, book, copy, review, seed, crashes, raced>>
  /\ Request

Return(l) ==
  LET c == l.copy
      b == copy[c].book
  IN /\ Open(l) /\ copy[c].status = "LOANED"
     /\ loans' = (loans \ {l}) \cup {[l EXCEPT !.status = "RETURNED"]}
     /\ copy' = [copy EXCEPT ![c] = [book |-> b, status |-> "AVAILABLE"]]
     /\ book' = [book EXCEPT ![b] = Synced(copy', b)]
     /\ UNCHANGED review
     /\ Change(b)

AddCopy(b, c) ==
  /\ Visible(b) /\ copy[c] = NoCopy
  /\ copy' = [copy EXCEPT ![c] = [book |-> b, status |-> "AVAILABLE"]]
  /\ book' = [book EXCEPT ![b] = Synced(copy', b)]
  /\ UNCHANGED <<loans, review>>
  /\ Change(b)

HasHistory(b) ==
  (\E l \in loans : copy[l.copy].book = b) \/ (\E u \in Users : review[b][u] # 0)
RemoveBook(b) ==
  /\ Visible(b)
  /\ \A c \in CopiesOf(b) : OpenLoans(c) = {}
  /\ \/ /\ HasHistory(b)
        /\ copy' = [c \in Barcodes |-> IF copy[c].book = b
             THEN [book |-> b, status |-> "ARCHIVED"] ELSE copy[c]]
        /\ book' = [book EXCEPT ![b] = [book[b] EXCEPT !.state = "ARCHIVED", !.available = 0]]
     \/ /\ ~HasHistory(b)
        /\ copy' = [c \in Barcodes |-> IF copy[c].book = b THEN NoCopy ELSE copy[c]]
        /\ book' = [book EXCEPT ![b] = NoBook]
  /\ UNCHANGED <<loans, review>>
  /\ Change(b)

Rate(b, r) ==
  /\ Visible(b)
  /\ review' = [review EXCEPT ![b][Somebody] = r]
  /\ book' = [book EXCEPT ![b] = [book[b] EXCEPT !.rated = TRUE]]
  /\ Request
  /\ UNCHANGED <<author, category, name, admin, copy, loans, seed, crashes, raced>>

\* Authors and categories go when no book refers to them; the account of the
\* administrator may exist before the seed, and may be deactivated.
RemoveAuthor(a) ==
  /\ author[a] = "LIVE"
  /\ \A b \in Books : Visible(b) => AuthorOf[b] # a
  /\ \/ /\ \E b \in Books : BookExists(b) /\ AuthorOf[b] = a
        /\ author' = [author EXCEPT ![a] = "ARCHIVED"]
        /\ UNCHANGED name
     \/ /\ \A b \in Books : BookExists(b) => AuthorOf[b] # a
        /\ author' = [author EXCEPT ![a] = "NONE"]
        /\ name' = [name EXCEPT ![a] = Unnamed(a)]
  /\ Request
  /\ UNCHANGED <<category, admin, shelf, review, seed, crashes, raced>>
RemoveCategory(k) ==
  /\ k \in category
  /\ \A b \in Books : BookExists(b) => CategoryOf[b] # k
  /\ category' = category \ {k}
  /\ name' = [name EXCEPT ![k] = Unnamed(k)]
  /\ Request
  /\ UNCHANGED <<author, admin, shelf, review, seed, crashes, raced>>

\* POST or PATCH of an author or a category: a seeded row is given another name,
\* a row with another id takes the name that is free then, or leaves it again.
Rename(x) ==
  /\ \/ /\ name[x] = "own" /\ (x \in AuthorIds => author[x] = "LIVE")
        /\ name' = [name EXCEPT ![x] = "free"]
     \/ name[x] = "free" /\ name' = [name EXCEPT ![x] = "other"]
     \/ name[x] = "other" /\ name' = [name EXCEPT ![x] = "free"]
  /\ Request
  /\ UNCHANGED <<author, category, admin, shelf, review, seed, crashes, raced>>
ChangeAdmin ==
  /\ \/ admin = "NONE" /\ admin' = "USER"
     \/ admin \in {"USER", "ADMIN"} /\ admin' = "DELETED"
  /\ Request
  /\ UNCHANGED <<author, category, name, shelf, review, seed, crashes, raced>>

LibraryStep ==
  \/ \E b \in Touched :
       \/ \E c \in CopiesOf(b) : Lend(c)
       \/ \E l \in loans : copy[l.copy].book = b /\ (AskReturn(l) \/ Return(l))
       \/ \E c \in Typed : AddCopy(b, c)
       \/ RemoveBook(b)
       \/ Rate(b, 1)
  \/ \E i \in 1..Len(SeedAuthors) : RemoveAuthor(SeedAuthors[i])
  \/ \E i \in 1..Len(SeedCategories) : RemoveCategory(SeedCategories[i])
  \/ \E x \in Claimed : Rename(x)
  \/ ChangeAdmin
=============================================================================
