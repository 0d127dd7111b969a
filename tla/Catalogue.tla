----------------------------- MODULE Catalogue -----------------------------
(***************************************************************************)
(* The catalogue: administrators and members at work on authors,           *)
(* categories, books and reviews at once, and what must hold of the rows.   *)
(***************************************************************************)
EXTENDS CatalogDesk, Reviews

Init ==
  /\ author = [a \in Authors |->
       IF \E b \in Shelf : AuthorOf[b] = a
       THEN [state |-> "LIVE", books |-> Cardinality({b \in Shelf : AuthorOf[b] = a})]
       ELSE NoAuthor]
  /\ category = {CategoryOf[b] : b \in Shelf}
  /\ book = [b \in Books |->
       [NoBook(b) EXCEPT !.state = IF b \in Shelf THEN "LIVE" ELSE "NONE"]]
  /\ review = [i \in ReviewIds |-> NoReview]
  /\ pc = [s \in Slots |-> "idle"]
  /\ req = [s \in Slots |-> NoRequest]
  /\ calls = 0
  /\ overlapped = FALSE
  /\ stale = {}

Call(s) == CatalogCall(s) \/ ReviewCall(s)
Step(s) == CatalogStep(s) \/ ReviewStep(s)

\* s cannot run its next statement before the transaction of t ends.
WaitsFor(s, t) ==
  LET r == req[s]
  IN /\ s # t
     /\ \/ /\ pc[s] \in {"insertBook", "moveBook", "dropBook", "rate"}
           /\ WritesBook(t, r.book)
        \/ pc[s] = "dropBook" /\ ~r.found /\ RefersToBook(t, r.book)
        \/ pc[s] = "dropAuthor" /\ ~r.found /\ RefersToAuthor(t, r.author)
        \/ pc[s] \in {"dropAuthor", "countUp", "increment"} /\ WritesAuthor(t, r.author)
        \/ pc[s] \in {"decrement", "countDown"} /\ WritesAuthor(t, r.old)
        \/ pc[s] = "dropCategory" /\ RefersToCategory(t, r.category)
        \/ /\ pc[s] = "insertReview"
           /\ \/ DeletesBook(t, r.book)
              \/ Writing(t) /\ req[t].member = r.member /\ req[t].book = r.book
        \/ pc[s] = "writeReview" /\ Writing(t) /\ req[t].id = r.id

\* PostgreSQL ends a cycle of waiting transactions by aborting one of them.
Deadlocked(s) ==
  \E cycle \in SUBSET Slots :
    s \in cycle /\ \A t \in cycle : \E u \in cycle : WaitsFor(t, u)
Aborted(s) == Deadlocked(s) /\ Rollback(s)

\* A check or a constraint refuses the next statement, and it is not waiting.
Refused(s) == (\A t \in Slots : ~WaitsFor(s, t)) /\ ~ENABLED Step(s) /\ Rollback(s)

Next == \E s \in Slots : Call(s) \/ Step(s) \/ Rollback(s)

\* The server and the database keep working on every request.
Fairness == \A s \in Slots : WF_vars(Step(s) \/ Refused(s) \/ Aborted(s))

Spec == Init /\ [][Next]_vars
FairSpec == Spec /\ Fairness

-----------------------------------------------------------------------------
\* Rows and requests have their types, and foreign keys name existing rows.
TypeOK ==
  /\ author \in [Authors -> AuthorRow]
  /\ category \subseteq Categories
  /\ book \in [Books -> BookRow]
  /\ review \in [ReviewIds -> ReviewRow]
  /\ pc \in [Slots -> PCs]
  /\ req \in [Slots -> Request]
  /\ calls \in 0..MaxCalls
  /\ overlapped \in BOOLEAN /\ stale \subseteq Books
  /\ \A b \in Books : BookExists(b) =>
       AuthorExists(book[b].author) /\ book[b].category \in category
  /\ \A i \in ReviewIds : review[i] # NoReview => BookExists(review[i].book)

\* An author's counter is the number of its visible books, which the statistics
\* count anew, also after books moved, left and came back, if no book was edited
\* by two requests at once.
BooksCounted ==
  ~overlapped => \A a \in Authors : author[a].books = AuthorStatistic(a)

\* The rating of a book is the mean of its reviews.  Overlapping reviews or an
\* administrator may set it otherwise; the next review alone puts it right.
RatingSettles ==
  \A b \in Books : BookExists(b) /\ b \notin stale =>
    SameMean(book[b].rating, MeanOf(review, b))

\* A book is deleted only without reviews or loans, those included that arrive
\* after its history was read; with them it is archived.
HistoryOutlivesBook ==
  [][\A b \in Books : BookExists(b) /\ book'[b].state = "NONE" =>
       b \notin Borrowed /\ ReviewsOf(b) = {}]_vars

\* A member has one review of a book, whatever requests arrive together.
OneReviewEach ==
  \A i, j \in ReviewIds :
    review[i] # NoReview /\ review[i].member = review[j].member
      /\ review[i].book = review[j].book => i = j

\* Every request is answered: the search for a free slug ends, and of two
\* books moved crosswise between two authors one move goes through.
RequestsEnd == \A s \in Slots : pc[s] # "idle" ~> pc[s] = "idle"
=============================================================================
