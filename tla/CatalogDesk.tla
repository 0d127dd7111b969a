---------------------------- MODULE CatalogDesk ----------------------------
(***************************************************************************)
(* Administrators at the catalogue: authors.service.ts,                    *)
(* categories.service.ts and books.service.ts with their repositories.     *)
(* Copies and loans are in Inventory and LoanDesk; here a book is its row, *)
(* its author, its category and its rating.                                *)
(***************************************************************************)
EXTENDS CatalogTables

(* Authors.  All names have one slug here: the counter tells ids apart.    *)

\* POST /authors without an id: the slug is tried first, then slug-2, slug-3.
CreateAuthor(s) == Begin(s, "slug", [NoRequest EXCEPT !.author = 1])

\* Mutant: the counter is not advanced.
NextSlug_Same(a) == a
NextSlug(a) == a + 1
TrySlug(s) ==
  /\ pc[s] = "slug"
  /\ LET a == req[s].author
     IN IF AuthorExists(a)
        THEN /\ NextSlug(a) \in Authors
             /\ Read(s, "slug", [req[s] EXCEPT !.author = NextSlug(a)])
        ELSE Read(s, "insertAuthor", req[s])

\* POST /authors with an id.
CreateAuthorAs(s, a) == Begin(s, "insertAuthor", [NoRequest EXCEPT !.author = a])

InsertAuthor(s) ==
  /\ pc[s] = "insertAuthor"
  /\ ~AuthorExists(req[s].author)
  /\ author' = [author EXCEPT ![req[s].author] = [state |-> "LIVE", books |-> 0]]
  /\ Done(s)
  /\ UNCHANGED <<category, book, review, stale>>

\* DELETE /authors/:id: the author is visible and none of its books is; the
\* transaction counts them all to choose between deleting and archiving.
RemoveAuthor(s, a) ==
  /\ author[a].state = "LIVE"
  /\ Begin(s, "visible", [NoRequest EXCEPT !.author = a])
CountVisible(s) ==
  /\ pc[s] = "visible"
  /\ \A b \in BooksOf(req[s].author) : ~Visible(b)
  /\ Read(s, "countBooks", req[s])
CountBooks(s) ==
  /\ pc[s] = "countBooks"
  /\ Read(s, "dropAuthor", [req[s] EXCEPT !.found = BooksOf(req[s].author) # {}])
DropAuthor(s) ==
  /\ pc[s] = "dropAuthor"
  /\ LET a == req[s].author
     IN /\ AuthorExists(a) /\ AuthorFree(s, a)
        /\ \/ /\ req[s].found
              /\ author' = [author EXCEPT ![a] = [author[a] EXCEPT !.state = "ARCHIVED"]]
           \/ /\ ~req[s].found
              /\ AuthorUnreferenced(s, a)
              /\ author' = [author EXCEPT ![a] = NoAuthor]
  /\ Done(s)
  /\ UNCHANGED <<category, book, review, stale>>

(* Categories.                                                             *)

\* POST /categories.
CreateCategory(s, k) ==
  /\ Admit(s)
  /\ k \notin category
  /\ category' = category \cup {k}
  /\ UNCHANGED <<author, book, review, pc, req, overlapped, stale>>

\* DELETE /categories/:id: found, then without books, then deleted.
RemoveCategory(s, k) ==
  /\ k \in category
  /\ Begin(s, "countCategory", [NoRequest EXCEPT !.category = k])
CountCategory(s) ==
  /\ pc[s] = "countCategory"
  /\ \A b \in Books : BookExists(b) => book[b].category # req[s].category
  /\ Read(s, "dropCategory", req[s])
DropCategory(s) ==
  /\ pc[s] = "dropCategory"
  /\ req[s].category \in category
  /\ CategoryUnreferenced(s, req[s].category)
  /\ category' = category \ {req[s].category}
  /\ Done(s)
  /\ UNCHANGED <<author, book, review, stale>>

-----------------------------------------------------------------------------
(* Books.                                                                  *)

\* The rows a book refers to exist, and their keys stay while it is written.
ForeignKeys(a, k) == AuthorExists(a) /\ k \in category

\* A rating written by hand replaces the mean of the reviews.
HandRated(s) ==
  stale' = IF req[s].rating = 0 THEN stale ELSE stale \cup {req[s].book}

\* POST /books, perhaps with a rating: the insert, then the author's counter.
CreateBook(s, b, a, k, r) ==
  BeginEdit(s, b, "insertBook",
    [NoRequest EXCEPT !.author = a, !.category = k, !.rating = r])
InsertBook(s) ==
  /\ pc[s] = "insertBook"
  /\ ~BookExists(req[s].book) /\ BookFree(s, req[s].book)
  /\ ForeignKeys(req[s].author, req[s].category)
  /\ Read(s, "countUp", req[s])
CountUp(s) ==
  /\ pc[s] = "countUp"
  /\ LET a == req[s].author
     IN /\ AuthorFree(s, a)
        /\ author' = [author EXCEPT ![a] = [author[a] EXCEPT !.books = author[a].books + 1]]
        /\ book' = [book EXCEPT ![req[s].book] =
             [state |-> "LIVE", author |-> a, category |-> req[s].category,
              rating |-> Given(req[s].rating)]]
  /\ HandRated(s)
  /\ Done(s)
  /\ UNCHANGED <<category, review>>

\* PATCH /books/:id to author a and category k, perhaps with a rating.
UpdateBook(s, b, a, k, r) ==
  /\ Visible(b)
  /\ BeginEdit(s, b, "readBook",
       [NoRequest EXCEPT !.author = a, !.category = k, !.rating = r])
\* The transaction reads the row before it writes.
ReadBook(s) ==
  /\ pc[s] = "readBook"
  /\ BookExists(req[s].book)
  /\ Read(s, "moveBook", [req[s] EXCEPT !.old = book[req[s].book].author])

\* The row as the update leaves it.
Updated(s, b) ==
  [book[b] EXCEPT !.author = req[s].author, !.category = req[s].category,
     !.rating = IF req[s].rating = 0 THEN book[b].rating
                ELSE Given(req[s].rating)]

\* The update of the row; the counters follow only if the author changes.
MoveBook(s) ==
  /\ pc[s] = "moveBook"
  /\ LET b == req[s].book
     IN /\ BookExists(b) /\ BookFree(s, b)
        /\ ForeignKeys(req[s].author, req[s].category)
        /\ \/ /\ req[s].author = req[s].old
              /\ book' = [book EXCEPT ![b] = Updated(s, b)]
              /\ HandRated(s)
              /\ Done(s)
              /\ UNCHANGED <<author, category, review>>
           \/ req[s].author # req[s].old /\ Read(s, "decrement", req[s])

\* The check that booksCount is not negative.
MayDecrement(a) == author[a].books > 0
Decrement(s) ==
  /\ pc[s] = "decrement"
  /\ AuthorFree(s, req[s].old) /\ AuthorExists(req[s].old)
  /\ MayDecrement(req[s].old)
  /\ Read(s, "increment", req[s])

\* booksCount after a book moved from author o to author a.
\* Mutant: the old author keeps the book.
Moved_Kept(o, a, x) == IF x = a THEN author[x].books + 1 ELSE author[x].books
Moved(o, a, x) ==
  IF x = o THEN author[x].books - 1
  ELSE IF x = a THEN author[x].books + 1
  ELSE author[x].books
Increment(s) ==
  /\ pc[s] = "increment"
  /\ AuthorFree(s, req[s].author)
  /\ author' = [x \in Authors |->
       [author[x] EXCEPT !.books = Moved(req[s].old, req[s].author, x)]]
  /\ book' = [book EXCEPT ![req[s].book] = Updated(s, req[s].book)]
  /\ HandRated(s)
  /\ Done(s)
  /\ UNCHANGED <<category, review>>

\* DELETE /books/:id: the history is read, then the row archived or deleted,
\* then the counter of the author that row named.
RemoveBook(s, b) == Visible(b) /\ BeginEdit(s, b, "history", NoRequest)
ReadHistory(s) ==
  /\ pc[s] = "history"
  /\ LET b == req[s].book
     IN /\ BookExists(b)
        /\ Read(s, "dropBook",
             [req[s] EXCEPT !.found = b \in Borrowed \/ ReviewsOf(b) # {}])
DropBook(s) ==
  /\ pc[s] = "dropBook"
  /\ LET b == req[s].book
     IN /\ BookExists(b)
        /\ IF req[s].found THEN BookFree(s, b) ELSE BookUnreferenced(s, b)
        /\ Read(s, "countDown", [req[s] EXCEPT !.old = book[b].author])
CountDown(s) ==
  /\ pc[s] = "countDown"
  /\ LET b == req[s].book
         a == req[s].old
     IN /\ AuthorFree(s, a) /\ AuthorExists(a)
        /\ MayDecrement(a)
        /\ author' = [author EXCEPT ![a] = [author[a] EXCEPT !.books = author[a].books - 1]]
        /\ book' = [book EXCEPT ![b] =
             IF req[s].found THEN [book[b] EXCEPT !.state = "ARCHIVED"] ELSE NoBook(b)]
        /\ stale' = IF req[s].found THEN stale ELSE stale \ {b}
  /\ Done(s)
  /\ UNCHANGED <<category, review>>

-----------------------------------------------------------------------------
AuthorCall(s) ==
  CreateAuthor(s) \/ \E a \in Authors : CreateAuthorAs(s, a) \/ RemoveAuthor(s, a)
CategoryCall(s) ==
  \E k \in Categories : CreateCategory(s, k) \/ RemoveCategory(s, k)
BookCall(s) ==
  \E b \in Books :
    \/ RemoveBook(s, b)
    \/ \E e \in Entries :
         \/ CreateBook(s, b, e[1], e[2], e[3])
         \/ UpdateBook(s, b, e[1], e[2], e[3])
CatalogCall(s) == AuthorCall(s) \/ CategoryCall(s) \/ BookCall(s)

CatalogStep(s) ==
  \/ TrySlug(s) \/ InsertAuthor(s)
  \/ CountVisible(s) \/ CountBooks(s) \/ DropAuthor(s)
  \/ CountCategory(s) \/ DropCategory(s)
  \/ InsertBook(s) \/ CountUp(s)
  \/ ReadBook(s) \/ MoveBook(s) \/ Decrement(s) \/ Increment(s)
  \/ ReadHistory(s) \/ DropBook(s) \/ CountDown(s)
=============================================================================
