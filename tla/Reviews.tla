------------------------------ MODULE Reviews ------------------------------
(***************************************************************************)
(* Members reviewing books: reviews.service.ts and its repository.  Each   *)
(* transaction writes one Review row, averages the reviews of the book and *)
(* writes the mean into the Book row.                                      *)
(***************************************************************************)
EXTENDS CatalogTables

Reviewed(m, b) == \E i \in ReviewsOf(b) : review[i].member = m

\* POST /books/:bookId/reviews: the book is visible, the member's first one.
\* Ids are never used twice: the number of the request serves as one.
CreateReview(s, m, b, r) ==
  /\ Visible(b)
  /\ ~Reviewed(m, b)
  /\ BeginReview(s, b, "insertReview",
       [NoRequest EXCEPT !.member = m, !.rating = r, !.id = calls + 1])

\* PATCH and DELETE /reviews/:id by its owner or an administrator; rating 0
\* stands for the deletion.
ChangeReview(s, i, r) ==
  /\ review[i] # NoReview
  /\ BeginReview(s, review[i].book, "writeReview",
       [NoRequest EXCEPT !.member = review[i].member, !.id = i, !.rating = r])

\* A transaction in flight has written a review of member m, or of id i.
Writing(t) == pc[t] \in {"average", "rate"}

\* The unique index on user and book, transactions in flight included.
\* Mutant: there is none.
OnePerMember_Unindexed(s, m, b) == TRUE
OnePerMember(s, m, b) ==
  /\ ~Reviewed(m, b)
  /\ \A t \in Slots \ {s} :
       ~(Writing(t) /\ req[t].member = m /\ req[t].book = b)

InsertReview(s) ==
  /\ pc[s] = "insertReview"
  /\ LET b == req[s].book
     IN /\ OnePerMember(s, req[s].member, b)
        /\ BookExists(b)
        /\ \A t \in Slots \ {s} : ~DeletesBook(t, b)
        /\ Read(s, "average", req[s])

WriteReview(s) ==
  /\ pc[s] = "writeReview"
  /\ review[req[s].id] # NoReview
  /\ \A t \in Slots \ {s} : ~(Writing(t) /\ req[t].id = req[s].id)
  /\ Read(s, "average", req[s])

-----------------------------------------------------------------------------
\* The table as the transaction of s sees it: committed rows and its own.
Row(s) ==
  IF req[s].rating = 0 THEN NoReview
  ELSE [member |-> req[s].member, book |-> req[s].book, rating |-> req[s].rating]
Sees(s) == [review EXCEPT ![req[s].id] = Row(s)]

\* The mean rating of book b in a table: its points and its reviews, counted.
MeanOf(table, b) ==
  LET rows == {i \in ReviewIds : table[i].book = b}
  IN IF rows = {} THEN Unrated
     ELSE [sum |-> Cardinality({x \in rows \X (1..5) : x[2] <= table[x[1]].rating}),
           n |-> Cardinality(rows)]

\* recalculateRating: the aggregate, then the update of the book.
\* Mutant: the aggregate runs outside the transaction.
Averaged_Outside(s) == MeanOf(review, req[s].book)
Averaged(s) == MeanOf(Sees(s), req[s].book)
Average(s) ==
  /\ pc[s] = "average"
  /\ Read(s, "rate", [req[s] EXCEPT !.mean = Averaged(s)])

\* A transaction that met no other review of its book leaves the rating right.
Rate(s) ==
  /\ pc[s] = "rate"
  /\ LET b == req[s].book
     IN /\ BookFree(s, b) /\ BookExists(b)
        /\ review' = Sees(s)
        /\ book' = [book EXCEPT ![b] = [book[b] EXCEPT !.rating = req[s].mean]]
        /\ stale' = IF req[s].alone THEN stale \ {b} ELSE stale \cup {b}
  /\ Done(s)
  /\ UNCHANGED <<author, category>>

ReviewCall(s) ==
  \/ \E m \in Members, b \in Books, r \in Ratings : CreateReview(s, m, b, r)
  \/ \E i \in ReviewIds, r \in Ratings \cup {0} : ChangeReview(s, i, r)

ReviewStep(s) == InsertReview(s) \/ WriteReview(s) \/ Average(s) \/ Rate(s)
=============================================================================
