--------------------------- MODULE CatalogTables ---------------------------
(***************************************************************************)
(* The catalogue's tables: authors, categories, books and reviews, and the *)
(* requests being served over them.                                        *)
(*                                                                         *)
(* A slot is one HTTP request in flight; its program counter names the     *)
(* next database statement.  A statement sees committed rows.  What its     *)
(* transaction has written before is in the request, reaches the tables    *)
(* when it commits, and keeps the rows locked until then: the locks are     *)
(* read off the program counters.                                          *)
(***************************************************************************)
EXTENDS Integers, FiniteSets

CONSTANTS
  Authors,     \* Author.id: the numbers a slug gets when it is taken
  Categories,  \* Category.id
  Books,       \* Book.id
  Members,     \* User.id of those who review
  Ratings,     \* bound: ratings that members give
  Entries,     \* bound: what administrators write into a book: its author,
               \* its category and a rating, or 0 for none
  Shelf,       \* the books catalogued at the start, by author 1 or AuthorOf
  AuthorOf,    \* Book.authorId at the start
  CategoryOf,  \* Book.categoryId at the start
  Borrowed,    \* the books with loans or copy audit rows: kept as history
  Slots,       \* requests served at the same time
  MaxCalls,    \* bound: requests of one behaviour
  None         \* no book, no category, nobody

ASSUME CatalogAssumption ==
  /\ Authors \subseteq Nat \ {0} /\ 1 \in Authors
  /\ \A a \in Authors : 1..a \subseteq Authors
  /\ Ratings \subseteq 1..5
  /\ Entries \subseteq Authors \X Categories \X (Ratings \cup {0})
  /\ Shelf \subseteq Books /\ Borrowed \subseteq Books
  /\ AuthorOf \in [Books -> Authors] /\ CategoryOf \in [Books -> Categories]
  /\ None \notin Books /\ None \notin Categories /\ None \notin Members

ASSUME CatalogBoundAssumption ==
  /\ IsFiniteSet(Books) /\ IsFiniteSet(Members) /\ MaxCalls \in Nat

VARIABLES
  author,    \* Author rows: whether they exist, and booksCount
  category,  \* the categories that exist
  book,      \* Book rows
  review,    \* Review rows by id
  pc,        \* the next statement of each slot
  req,       \* what the request asked for, has read and has written
  calls,     \* requests served so far
  overlapped,\* some book was edited by two requests at once
  stale      \* books whose rating overlapping reviews or a person have set

tables == <<author, category, book, review>>
vars == <<tables, pc, req, calls, overlapped, stale>>

-----------------------------------------------------------------------------
(* Rows.  A rating is kept as the exact mean it stands for.                 *)

Mean == [sum : Nat, n : Nat]
Unrated == [sum |-> 0, n |-> 1]
Given(r) == IF r = 0 THEN Unrated ELSE [sum |-> r, n |-> 1]
SameMean(x, y) == x.sum * y.n = y.sum * x.n

AuthorRow == [state : {"NONE", "LIVE", "ARCHIVED"}, books : Nat]
NoAuthor == [state |-> "NONE", books |-> 0]
BookRow ==
  [state : {"NONE", "LIVE", "ARCHIVED"}, author : Authors,
   category : Categories, rating : Mean]
NoBook(b) ==
  [state |-> "NONE", author |-> AuthorOf[b], category |-> CategoryOf[b],
   rating |-> Unrated]
ReviewIds == 1..MaxCalls
ReviewRow ==
  [member : Members \cup {None}, book : Books \cup {None}, rating : Ratings \cup {0}]
NoReview == [member |-> None, book |-> None, rating |-> 0]

BookExists(b) == book[b].state # "NONE"
AuthorExists(a) == author[a].state # "NONE"
Visible(b) == book[b].state = "LIVE"
ReviewsOf(b) == {i \in ReviewIds : review[i].book = b}
BooksOf(a) == {b \in Books : BookExists(b) /\ book[b].author = a}
\* What GET /admin/authors/statistics counts, not what the author's row holds.
AuthorStatistic(a) == Cardinality({b \in BooksOf(a) : Visible(b)})

-----------------------------------------------------------------------------
(* Requests.                                                               *)

PCs == {"idle", "slug", "insertAuthor", "visible", "countBooks", "dropAuthor",
        "countCategory", "dropCategory",
        "insertBook", "countUp", "readBook", "moveBook", "decrement", "increment",
        "history", "dropBook", "countDown",
        "insertReview", "writeReview", "average", "rate"}

Request ==
  [book : Books \cup {None}, author : Authors \cup {0}, old : Authors \cup {0},
   category : Categories \cup {None}, member : Members \cup {None},
   id : ReviewIds \cup {0}, rating : Ratings \cup {0}, found : BOOLEAN,
   mean : Mean, alone : BOOLEAN]
NoRequest ==
  [book |-> None, author |-> 0, old |-> 0, category |-> None, member |-> None,
   id |-> 0, rating |-> 0, found |-> FALSE, mean |-> Unrated, alone |-> FALSE]

At(s, label) == pc' = [pc EXCEPT ![s] = label]
Goto(s, label, r) == At(s, label) /\ req' = [req EXCEPT ![s] = r]

\* A request about no book in particular passes its first check.
Admit(s) == pc[s] = "idle" /\ calls < MaxCalls /\ calls' = calls + 1
Begin(s, label, r) ==
  /\ Admit(s)
  /\ Goto(s, label, r)
  /\ UNCHANGED <<tables, overlapped, stale>>

\* A request about book b: it notes who else edits the book, or reviews it.
Reviewing(t) == pc[t] \in {"insertReview", "writeReview", "average", "rate"}
Others(s, b) == {t \in Slots \ {s} : pc[t] # "idle" /\ req[t].book = b}
BeginEdit(s, b, label, r) ==
  /\ Admit(s)
  /\ Goto(s, label, [r EXCEPT !.book = b])
  /\ overlapped' = (overlapped \/ \E t \in Others(s, b) : ~Reviewing(t))
  /\ UNCHANGED <<tables, stale>>
BeginReview(s, b, label, r) ==
  /\ Admit(s)
  /\ At(s, label)
  /\ LET beside == {t \in Others(s, b) : Reviewing(t)}
     IN req' = [t \in Slots |->
                  IF t = s THEN [r EXCEPT !.book = b, !.alone = beside = {}]
                  ELSE IF t \in beside THEN [req[t] EXCEPT !.alone = FALSE]
                  ELSE req[t]]
  /\ UNCHANGED <<tables, overlapped, stale>>

\* A statement that only reads.
Read(s, label, r) ==
  /\ Goto(s, label, r)
  /\ UNCHANGED <<tables, calls, overlapped, stale>>

\* The transaction ends; it has committed what its last action wrote.
Done(s) ==
  /\ Goto(s, "idle", NoRequest)
  /\ UNCHANGED <<calls, overlapped>>

\* A check that fails, a constraint violation, a stopped server: nothing the
\* transaction wrote is seen.
Rollback(s) == pc[s] # "idle" /\ Done(s) /\ UNCHANGED <<tables, stale>>

-----------------------------------------------------------------------------
(* Row locks.                                                              *)

\* t has written the row of book b; it deletes it; it has inserted a review
\* of it, which keeps the row from being deleted.
WritesBook(t, b) ==
  pc[t] \in {"countUp", "decrement", "increment", "countDown"} /\ req[t].book = b
DeletesBook(t, b) == pc[t] = "countDown" /\ req[t].book = b /\ ~req[t].found
RefersToBook(t, b) == pc[t] \in {"average", "rate"} /\ req[t].book = b

\* t has written the row of author a; it has written a book that refers to it.
WritesAuthor(t, a) == pc[t] = "increment" /\ req[t].old = a
RefersToAuthor(t, a) ==
  pc[t] \in {"countUp", "decrement", "increment"} /\ req[t].author = a
RefersToCategory(t, k) ==
  pc[t] \in {"countUp", "decrement", "increment"} /\ req[t].category = k

BookFree(s, b) == \A t \in Slots \ {s} : ~WritesBook(t, b)
AuthorFree(s, a) == \A t \in Slots \ {s} : ~WritesAuthor(t, a)

\* A foreign key holds a row back from being deleted.
\* Mutants: references of transactions in flight, or of reviews, are ignored.
AuthorUnreferenced_Committed(s, a) == BooksOf(a) = {}
AuthorUnreferenced(s, a) ==
  BooksOf(a) = {} /\ \A t \in Slots \ {s} : ~RefersToAuthor(t, a)
CategoryUnreferenced(s, k) ==
  /\ \A b \in Books : BookExists(b) => book[b].category # k
  /\ \A t \in Slots \ {s} : ~RefersToCategory(t, k)
BookUnreferenced_NoReviews(s, b) == BookFree(s, b)
BookUnreferenced(s, b) ==
  /\ BookFree(s, b)
  /\ b \notin Borrowed /\ ReviewsOf(b) = {}
  /\ \A t \in Slots \ {s} : ~RefersToBook(t, b)
=============================================================================
