------------------------------ MODULE BaseSeed ------------------------------
(***************************************************************************)
(* prisma/seed.ts: authors, categories, books with their copies, and the   *)
(* administrator, upserted one statement after the other, each committed   *)
(* on its own.  A script that is killed or meets an error leaves what it   *)
(* has written and is run again by hand.                                   *)
(***************************************************************************)
EXTENDS SeedTables

Statements ==
  {"off", "author", "category", "barcodes", "book", "countCopies", "createCopies",
   "setCounters", "admin"}
Off == [pc |-> "off", at |-> 0, next |-> 0, total |-> 0]

Write(s) == seed' = s /\ UNCHANGED <<changes, crashes>>

StartSeed ==
  /\ seed.pc = "off"
  /\ Write([Off EXCEPT !.pc = "author", !.at = 1])
  /\ UNCHANGED <<tables, raced>>

\* The next round of a loop over rows, or the statement after the loop.
Loop(rows, label, after) ==
  IF seed.at < Len(rows) THEN [seed EXCEPT !.pc = label, !.at = seed.at + 1]
  ELSE [seed EXCEPT !.pc = after, !.at = 1]

\* The update of an upsert writes the name of the data file, not deletedAt.
UpsertAuthor ==
  /\ seed.pc = "author"
  /\ LET a == SeedAuthors[seed.at]
     IN /\ NameFree(a) /\ Named(a)
        /\ author' = [author EXCEPT ![a] = IF author[a] = "NONE" THEN "LIVE" ELSE author[a]]
  /\ Write(Loop(SeedAuthors, "author", "category"))
  /\ UNCHANGED <<category, admin, shelf, review, raced>>
UpsertCategory ==
  /\ seed.pc = "category"
  /\ LET k == SeedCategories[seed.at]
     IN NameFree(k) /\ Named(k) /\ category' = category \cup {k}
  /\ Write(Loop(SeedCategories, "category", "barcodes"))
  /\ UNCHANGED <<author, admin, shelf, review, raced>>

\* The number after the highest BK barcode.
\* Mutant: numbering starts at 1 again.
NextBarcode_FromOne == 1
NextBarcode ==
  CHOOSE n \in 1..(MaxBarcode + 1) :
    /\ n = 1 \/ copy[<<0, n - 1>>] # NoCopy
    /\ \A m \in n..MaxBarcode : copy[<<0, m>>] = NoCopy
ReadBarcodes ==
  /\ seed.pc = "barcodes"
  /\ Write([seed EXCEPT !.pc = "book", !.next = NextBarcode])
  /\ UNCHANGED <<tables, raced>>

\* A new row has the defaults of the schema: one copy, and that available.
\* The rating is the one in books.data.ts, whatever the reviews say.
UpsertBook ==
  /\ seed.pc = "book"
  /\ LET b == SeedBooks[seed.at]
         row == IF BookExists(b) THEN [book[b] EXCEPT !.rated = FALSE]
                ELSE [state |-> "LIVE", total |-> 1, available |-> 1, rated |-> FALSE]
     IN /\ author[AuthorOf[b]] # "NONE" /\ CategoryOf[b] \in category
        /\ book' = [book EXCEPT ![b] = row]
        /\ Write([seed EXCEPT !.pc = "countCopies", !.total = row.total])
  /\ UNCHANGED <<author, category, name, admin, copy, loans, review, raced>>

\* Copies are created for a book that has none.
\* Mutant: for every book.
Missing_Always(b) == TRUE
Missing(b) == CopiesOf(b) = {}
NextBook == Loop(SeedBooks, "book", "admin")
CountCopies ==
  /\ seed.pc = "countCopies"
  /\ IF Missing(SeedBooks[seed.at])
     THEN Write([seed EXCEPT !.pc = "createCopies"])
     ELSE Write(NextBook)
  /\ UNCHANGED <<tables, raced>>

\* createMany: all the barcodes are free, or none is taken.
CreateCopies ==
  /\ seed.pc = "createCopies"
  /\ LET b == SeedBooks[seed.at]
         new == {<<0, n>> : n \in seed.next..(seed.next + seed.total - 1)}
     IN /\ BookExists(b)
        /\ new \subseteq Barcodes /\ \A c \in new : copy[c] = NoCopy
        /\ copy' = [c \in Barcodes |->
             IF c \in new THEN [book |-> b, status |-> "AVAILABLE"] ELSE copy[c]]
  /\ Write([seed EXCEPT !.pc = "setCounters", !.next = seed.next + seed.total])
  /\ UNCHANGED <<author, category, name, admin, book, loans, review, raced>>

SetCounters ==
  /\ seed.pc = "setCounters"
  /\ LET b == SeedBooks[seed.at]
     IN /\ BookExists(b)
        /\ book' = [book EXCEPT ![b] = [book[b] EXCEPT !.available = seed.total]]
  /\ Write(NextBook)
  /\ UNCHANGED <<author, category, name, admin, copy, loans, review, raced>>

\* seedAdminUser promotes the account; an update does not write deletedAt.
SeedAdmin ==
  /\ seed.pc = "admin"
  /\ admin' = IF admin = "DELETED" THEN "DELETED" ELSE "ADMIN"
  /\ Write(Off)
  /\ UNCHANGED <<author, category, name, shelf, review, raced>>

\* prisma/seed-admin.ts is that one statement.
SeedOnlyAdmin ==
  /\ admin' = IF admin = "DELETED" THEN "DELETED" ELSE "ADMIN"
  /\ UNCHANGED <<author, category, name, shelf, review, changes, seed, crashes, raced>>

SeedStep ==
  \/ UpsertAuthor \/ UpsertCategory \/ ReadBarcodes \/ UpsertBook
  \/ CountCopies \/ CreateCopies \/ SetCounters \/ SeedAdmin

\* A foreign key, or a name or barcode in use: the script ends with an error.
Stop == seed' = Off /\ UNCHANGED <<tables, changes, raced>>
Fails == seed.pc # "off" /\ ~ENABLED SeedStep /\ Stop /\ UNCHANGED crashes
Crash ==
  /\ seed.pc # "off"
  /\ crashes < MaxCrashes /\ crashes' = crashes + 1
  /\ Stop
=============================================================================
