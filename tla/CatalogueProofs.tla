-------------------------- MODULE CatalogueProofs --------------------------
(***************************************************************************)
(* What holds of the catalogue for any number of authors, books, members   *)
(* and requests in flight: types and foreign keys, one review of a member  *)
(* for a book, that a book with history is not deleted, that ratings       *)
(* settle and books are counted.  The invariant says what the locks of a   *)
(* transaction guarantee from the statement that takes them to the commit. *)
(***************************************************************************)
EXTENDS Catalogue, FiniteSetTheorems, TLAPS

(* What a request at a statement has been given.                           *)

Desk == {"insertBook", "countUp", "readBook", "moveBook", "decrement", "increment"}
Asked(label, r) ==
  /\ label \in {"slug", "insertAuthor", "visible", "countBooks", "dropAuthor"} \cup Desk =>
       r.author \in Authors
  /\ label \in {"countCategory", "dropCategory"} \cup Desk => r.category \in Categories
  /\ label \in Desk \cup {"history", "dropBook", "countDown"} => r.book \in Books
  /\ label \in {"moveBook", "decrement", "increment", "countDown"} => r.old \in Authors
  /\ label \in {"insertReview", "writeReview", "average", "rate"} =>
       r.book \in Books /\ r.member \in Members /\ r.id \in ReviewIds
\* A review that exists is somebody's of some book.
RowOK(i) ==
  review[i] # NoReview =>
    review[i].member \in Members /\ review[i].book \in Books /\ review[i].rating \in Ratings

(* What its locks protect.                                                 *)

\* The rows that a book written in flight refers to; the author counted down.
Referred(t) ==
  /\ pc[t] \in {"countUp", "decrement", "increment"} =>
       AuthorExists(req[t].author) /\ req[t].category \in category
  /\ pc[t] = "increment" => AuthorExists(req[t].old) /\ author[req[t].old].books > 0
\* A book being inserted is not there yet, one being written is, one being deleted
\* has no history.
Pending(t) ==
  /\ pc[t] = "countUp" => ~BookExists(req[t].book)
  /\ pc[t] \in {"decrement", "increment", "countDown"} => BookExists(req[t].book)
  /\ pc[t] = "countDown" /\ ~req[t].found =>
       req[t].book \notin Borrowed /\ ReviewsOf(req[t].book) = {}
\* Two transactions do not write one row, nor one the reviews of the other's book.
Exclusive(t, u) ==
  /\ pc[t] = "increment" /\ pc[u] = "increment" => req[t].old # req[u].old
  /\ \A b \in Books : ~(WritesBook(t, b) /\ WritesBook(u, b))
  /\ \A b \in Books : ~(DeletesBook(t, b) /\ RefersToBook(u, b))
Locking ==
  /\ \A t \in Slots : Referred(t) /\ Pending(t)
  /\ \A t, u \in Slots : t # u => Exclusive(t, u)

(* Reviews by id, by member and by book.                                   *)

Holds(i, m, b) == review[i].member = m /\ review[i].book = b
\* A row that a request is about is its member's and its book's; what it has
\* written is the only one of theirs.
Owns(t) ==
  /\ Reviewing(t) => req[t].id <= calls
  /\ Reviewing(t) /\ review[req[t].id] # NoReview =>
       Holds(req[t].id, req[t].member, req[t].book)
  /\ Writing(t) => \A i \in ReviewIds \ {req[t].id} : ~Holds(i, req[t].member, req[t].book)
Distinct(t, u) ==
  LET same == req[t].member = req[u].member /\ req[t].book = req[u].book
  IN /\ Reviewing(t) /\ Reviewing(u) /\ req[t].id = req[u].id => same
     /\ Writing(t) /\ Writing(u) => ~same
Reviewed1 ==
  /\ \A i \in ReviewIds : review[i] # NoReview => i \in 1..calls
  /\ \A t \in Slots : Owns(t)
  /\ \A t, u \in Slots : t # u => Distinct(t, u)
  /\ OneReviewEach

(* Ratings.                                                                *)

Alone ==
  \A t, u \in Slots :
    t # u /\ Reviewing(t) /\ Reviewing(u) /\ req[t].book = req[u].book => ~req[t].alone
MeanKnown ==
  \A t \in Slots :
    pc[t] = "rate" /\ req[t].alone => req[t].mean = MeanOf(Sees(t), req[t].book)

(* Counters.                                                               *)

Editing(t) ==
  pc[t] \in {"readBook", "moveBook", "decrement", "increment", "history", "dropBook",
            "countDown"}
Editor(t) == Editing(t) \/ pc[t] \in {"insertBook", "countUp"}
\* Nobody else edits the book of t: it stays visible, and its author is the one read.
Undisturbed(t) ==
  /\ \A u \in Slots \ {t} : Editor(t) /\ Editor(u) => req[t].book # req[u].book
  /\ Editing(t) => Visible(req[t].book)
  /\ pc[t] \in {"moveBook", "decrement", "increment", "countDown"} =>
       req[t].old = book[req[t].book].author
Crossing == \A t \in Slots : pc[t] \in {"decrement", "increment"} => req[t].author # req[t].old
Counting == Crossing /\ (~overlapped => \A t \in Slots : Undisturbed(t)) /\ BooksCounted

Typed ==
  TypeOK /\ (\A t \in Slots : Asked(pc[t], req[t])) /\ \A i \in ReviewIds : RowOK(i)
IInv == Typed /\ Locking /\ Reviewed1 /\ Alone /\ MeanKnown /\ RatingSettles /\ Counting

-----------------------------------------------------------------------------
(* The statements, by what they write.                                     *)

DeskRead(s) ==
  \/ TrySlug(s) \/ CountVisible(s) \/ CountBooks(s) \/ CountCategory(s)
  \/ InsertBook(s) \/ ReadBook(s) \/ (MoveBook(s) /\ req[s].author # req[s].old)
  \/ Decrement(s) \/ ReadHistory(s) \/ DropBook(s)
ReviewRead(s) == InsertReview(s) \/ WriteReview(s) \/ Average(s)
AuthorCommit(s) == InsertAuthor(s) \/ DropAuthor(s) \/ DropCategory(s)
BookCommit(s) ==
  CountUp(s) \/ (MoveBook(s) /\ req[s].author = req[s].old) \/ Increment(s) \/ CountDown(s)

LEMMA StepKinds ==
  ASSUME NEW s \in Slots, Step(s)
  PROVE  DeskRead(s) \/ ReviewRead(s) \/ AuthorCommit(s) \/ BookCommit(s) \/ Rate(s)
BY DEF Step, CatalogStep, ReviewStep, DeskRead, ReviewRead, AuthorCommit, BookCommit

-----------------------------------------------------------------------------
(* How a step moves the slots.                                             *)

\* To a slot, the step of another one does nothing but take away its being alone.
Kept(t) ==
  /\ pc'[t] = pc[t]
  /\ req'[t].book = req[t].book /\ req'[t].author = req[t].author
  /\ req'[t].old = req[t].old /\ req'[t].category = req[t].category
  /\ req'[t].member = req[t].member /\ req'[t].id = req[t].id
  /\ req'[t].rating = req[t].rating /\ req'[t].found = req[t].found
  /\ req'[t].mean = req[t].mean
  /\ req'[t].alone => req[t].alone
Apart(s) == \A t \in Slots \ {s} : Kept(t)
\* The slot itself is then at a label, with a request.
Took(s, label, r) ==
  /\ pc' \in [Slots -> PCs] /\ req' \in [Slots -> Request]
  /\ pc'[s] = label /\ req'[s] = r
  /\ Apart(s)

LEMMA GotoMoves ==
  ASSUME TypeOK, NEW s \in Slots, NEW label \in PCs, NEW r \in Request, Goto(s, label, r)
  PROVE  Took(s, label, r)
BY DEF TypeOK, Goto, At, Took, Apart, Kept

LEMMA NoRequestTyped == NoRequest \in Request
BY CatalogAssumption DEF NoRequest, Request, Mean, Unrated

LEMMA DoneMoves ==
  ASSUME TypeOK, NEW s \in Slots, Done(s)
  PROVE  Took(s, "idle", NoRequest) /\ UNCHANGED <<calls, overlapped>>
<1>1. "idle" \in PCs
  BY DEF PCs
<1> QED
  BY <1>1, NoRequestTyped, GotoMoves DEF Done

LEMMA ReadMoves ==
  ASSUME TypeOK, NEW s \in Slots, NEW label \in PCs, NEW r \in Request, Read(s, label, r)
  PROVE  Took(s, label, r) /\ UNCHANGED <<tables, calls, overlapped, stale>>
BY GotoMoves DEF Read

\* What a call leaves alone.
Called == UNCHANGED <<tables, stale>> /\ calls < MaxCalls /\ calls' = calls + 1

LEMMA BeginMoves ==
  ASSUME TypeOK, NEW s \in Slots, NEW label \in PCs, NEW r \in Request, Begin(s, label, r)
  PROVE  Took(s, label, r) /\ Called /\ UNCHANGED overlapped /\ pc[s] = "idle"
BY GotoMoves DEF Begin, Admit, Called

LEMMA BeginEditMoves ==
  ASSUME TypeOK, NEW s \in Slots, NEW b \in Books, NEW label \in PCs, NEW r \in Request,
         BeginEdit(s, b, label, r)
  PROVE  /\ Took(s, label, [r EXCEPT !.book = b]) /\ Called /\ pc[s] = "idle"
         /\ overlapped' = (overlapped \/ \E t \in Others(s, b) : ~Reviewing(t))
<1>1. [r EXCEPT !.book = b] \in Request
  BY DEF Request
<1> QED
  BY <1>1, GotoMoves DEF BeginEdit, Admit, Called

LEMMA BeginReviewMoves ==
  ASSUME TypeOK, NEW s \in Slots, NEW b \in Books, NEW label \in PCs, NEW r \in Request,
         BeginReview(s, b, label, r)
  PROVE  /\ Took(s, label, [r EXCEPT !.book = b, !.alone = req'[s].alone])
         /\ req'[s].alone => \A t \in Slots \ {s} : Reviewing(t) => req[t].book # b
         /\ \A t \in Slots \ {s} : Reviewing(t) /\ req[t].book = b => ~req'[t].alone
         /\ Called /\ UNCHANGED overlapped /\ pc[s] = "idle"
<1> DEFINE beside == {t \in Others(s, b) : Reviewing(t)}
<1>1. /\ pc' = [pc EXCEPT ![s] = label]
      /\ req' = [t \in Slots |->
                  IF t = s THEN [r EXCEPT !.book = b, !.alone = beside = {}]
                  ELSE IF t \in beside THEN [req[t] EXCEPT !.alone = FALSE]
                  ELSE req[t]]
  BY DEF BeginReview, At
<1>2. \A t \in Slots \ {s} : t \in beside <=> Reviewing(t) /\ req[t].book = b
  BY DEF Others, Reviewing
<1> HIDE DEF beside
<1>3. pc' \in [Slots -> PCs] /\ pc'[s] = label /\ \A t \in Slots \ {s} : pc'[t] = pc[t]
  BY <1>1 DEF TypeOK
<1>4. PICK alone \in BOOLEAN : alone = (beside = {})
  OBVIOUS
<1>5. req'[s] = [r EXCEPT !.book = b, !.alone = alone]
  BY <1>1, <1>4
<1>6. req'[s] \in Request /\ req'[s].alone = alone
  BY <1>5 DEF Request
<1>7. \A t \in Slots \ {s} : req'[t] = [req[t] EXCEPT !.alone = FALSE] \/ req'[t] = req[t]
  BY <1>1
<1>8. ASSUME NEW t \in Slots \ {s}
      PROVE  req'[t] \in Request /\ Kept(t)
  BY <1>3, <1>7 DEF TypeOK, Request, Kept
<1>9. req' \in [Slots -> Request]
  <2>1. req' = [t \in Slots |-> req'[t]]
    BY <1>1
  <2> QED
    BY <2>1, <1>6, <1>8
<1>10. alone => \A t \in Slots \ {s} : Reviewing(t) => req[t].book # b
  BY <1>2, <1>4
<1>11. \A t \in Slots \ {s} : Reviewing(t) /\ req[t].book = b => ~req'[t].alone
  BY <1>1, <1>2 DEF TypeOK, Request
<1>12. Called /\ UNCHANGED overlapped /\ pc[s] = "idle"
  BY DEF BeginReview, Admit, Called
<1> QED
  BY <1>3, <1>5, <1>6, <1>8, <1>9, <1>10, <1>11, <1>12 DEF Took, Apart

-----------------------------------------------------------------------------
\* The mean of a table of reviews is a pair of numbers.
LEMMA MeanTyped ==
  ASSUME NEW table, NEW b
  PROVE  MeanOf(table, b) \in Mean
<1> DEFINE rows == {i \in ReviewIds : table[i].book = b}
           points == {x \in rows \X (1..5) : x[2] <= table[x[1]].rating}
<1>1. \A n \in Nat : IsFiniteSet(1..n)
  BY FS_Interval
<1>2. IsFiniteSet(rows)
  <2>1. IsFiniteSet(ReviewIds)
    BY <1>1, CatalogBoundAssumption DEF ReviewIds
  <2> QED
    BY <2>1, FS_Subset
<1>3. IsFiniteSet(1..5)
  BY <1>1
<1>4. IsFiniteSet(rows \X (1..5))
  BY <1>2, <1>3, FS_Product
<1>5. IsFiniteSet(points)
  BY <1>4, FS_Subset
<1>6. Cardinality(rows) \in Nat /\ Cardinality(points) \in Nat
  BY <1>2, <1>5, FS_CardinalityType
<1> QED
  BY <1>6 DEF MeanOf, Mean, Unrated

\* What the calls ask for.
LEMMA CallsTook ==
  ASSUME Typed, NEW s \in Slots
  PROVE  /\ CreateAuthor(s) => Took(s, "slug", [NoRequest EXCEPT !.author = 1])
         /\ \A a \in Authors :
              /\ CreateAuthorAs(s, a) =>
                   Took(s, "insertAuthor", [NoRequest EXCEPT !.author = a])
              /\ RemoveAuthor(s, a) => Took(s, "visible", [NoRequest EXCEPT !.author = a])
         /\ \A k \in Categories :
              RemoveCategory(s, k) =>
                Took(s, "countCategory", [NoRequest EXCEPT !.category = k])
         /\ \A b \in Books :
              /\ RemoveBook(s, b) => Took(s, "history", [NoRequest EXCEPT !.book = b])
              /\ \A a \in Authors, k \in Categories, r \in Ratings \cup {0} :
                   LET edit == [NoRequest EXCEPT !.author = a, !.category = k,
                                                 !.rating = r, !.book = b]
                   IN /\ CreateBook(s, b, a, k, r) => Took(s, "insertBook", edit)
                      /\ UpdateBook(s, b, a, k, r) => Took(s, "readBook", edit)
<1> USE DEF Typed
<1>1. {"slug", "insertAuthor", "visible", "countCategory", "history", "insertBook",
       "readBook"} \subseteq PCs
  BY DEF PCs
<1>2. \A a \in Authors : [NoRequest EXCEPT !.author = a] \in Request
  BY NoRequestTyped DEF Request
<1>3. \A k \in Categories : [NoRequest EXCEPT !.category = k] \in Request
  BY NoRequestTyped DEF Request
<1>4. CreateAuthor(s) => Took(s, "slug", [NoRequest EXCEPT !.author = 1])
  BY <1>1, <1>2, CatalogAssumption, BeginMoves DEF CreateAuthor
<1>5. ASSUME NEW a \in Authors
      PROVE  /\ CreateAuthorAs(s, a) =>
                  Took(s, "insertAuthor", [NoRequest EXCEPT !.author = a])
             /\ RemoveAuthor(s, a) => Took(s, "visible", [NoRequest EXCEPT !.author = a])
  BY <1>1, <1>2, BeginMoves DEF CreateAuthorAs, RemoveAuthor
<1>6. ASSUME NEW k \in Categories, RemoveCategory(s, k)
      PROVE  Took(s, "countCategory", [NoRequest EXCEPT !.category = k])
  BY <1>1, <1>3, <1>6, BeginMoves DEF RemoveCategory
<1>7. ASSUME NEW b \in Books, RemoveBook(s, b)
      PROVE  Took(s, "history", [NoRequest EXCEPT !.book = b])
  BY <1>1, <1>7, NoRequestTyped, BeginEditMoves DEF RemoveBook
<1>8. ASSUME NEW b \in Books, NEW a \in Authors, NEW k \in Categories,
             NEW r \in Ratings \cup {0}
      PROVE  LET edit == [NoRequest EXCEPT !.author = a, !.category = k,
                                           !.rating = r, !.book = b]
             IN /\ CreateBook(s, b, a, k, r) => Took(s, "insertBook", edit)
                /\ UpdateBook(s, b, a, k, r) => Took(s, "readBook", edit)
  <2> DEFINE entry == [NoRequest EXCEPT !.author = a, !.category = k, !.rating = r]
  <2>1. entry \in Request
    BY NoRequestTyped DEF Request
  <2>2. CreateBook(s, b, a, k, r) => BeginEdit(s, b, "insertBook", entry)
    BY DEF CreateBook
  <2>3. UpdateBook(s, b, a, k, r) => BeginEdit(s, b, "readBook", entry)
    BY DEF UpdateBook
  <2>4. [entry EXCEPT !.book = b] =
          [NoRequest EXCEPT !.author = a, !.category = k, !.rating = r, !.book = b]
    OBVIOUS
  <2> HIDE DEF entry
  <2>5. BeginEdit(s, b, "insertBook", entry) => Took(s, "insertBook", [entry EXCEPT !.book = b])
    BY <1>1, <2>1, BeginEditMoves
  <2>6. BeginEdit(s, b, "readBook", entry) => Took(s, "readBook", [entry EXCEPT !.book = b])
    BY <1>1, <2>1, BeginEditMoves
  <2> QED
    BY <2>2, <2>3, <2>4, <2>5, <2>6
<1> QED
  BY <1>4, <1>5, <1>6, <1>7, <1>8

LEMMA ReviewCallsTook ==
  ASSUME Typed, NEW s \in Slots
  PROVE  /\ \A m \in Members, b \in Books, r \in Ratings :
              CreateReview(s, m, b, r) =>
                Took(s, "insertReview",
                  [NoRequest EXCEPT !.member = m, !.rating = r, !.id = calls + 1,
                                    !.book = b, !.alone = req'[s].alone])
         /\ \A i \in ReviewIds, r \in Ratings \cup {0} :
              ChangeReview(s, i, r) =>
                Took(s, "writeReview",
                  [NoRequest EXCEPT !.member = review[i].member, !.id = i, !.rating = r,
                                    !.book = review[i].book, !.alone = req'[s].alone])
<1> USE DEF Typed
<1>1. "insertReview" \in PCs /\ "writeReview" \in PCs
  BY DEF PCs
<1>2. ASSUME NEW m \in Members, NEW b \in Books, NEW r \in Ratings,
             CreateReview(s, m, b, r)
      PROVE  Took(s, "insertReview",
               [NoRequest EXCEPT !.member = m, !.rating = r, !.id = calls + 1,
                                 !.book = b, !.alone = req'[s].alone])
  <2> DEFINE entry == [NoRequest EXCEPT !.member = m, !.rating = r, !.id = calls + 1]
  <2>1. calls + 1 \in ReviewIds
    <3>1. calls \in 0..MaxCalls
      BY DEF TypeOK
    <3>2. calls < MaxCalls
      BY <1>2 DEF CreateReview, BeginReview, Admit
    <3> QED
      BY <3>1, <3>2, CatalogBoundAssumption DEF ReviewIds
  <2>2. entry \in Request
    BY <2>1, NoRequestTyped DEF Request
  <2>3. BeginReview(s, b, "insertReview", entry)
    BY <1>2 DEF CreateReview
  <2>4. Took(s, "insertReview", [entry EXCEPT !.book = b, !.alone = req'[s].alone])
    <3> HIDE DEF entry
    <3> QED
      BY <1>1, <2>2, <2>3, BeginReviewMoves
  <2> QED
    BY <2>4
<1>3. ASSUME NEW i \in ReviewIds, NEW r \in Ratings \cup {0}, ChangeReview(s, i, r)
      PROVE  Took(s, "writeReview",
               [NoRequest EXCEPT !.member = review[i].member, !.id = i, !.rating = r,
                                 !.book = review[i].book, !.alone = req'[s].alone])
  <2> DEFINE entry == [NoRequest EXCEPT !.member = review[i].member, !.id = i, !.rating = r]
  <2>1. review[i].member \in Members /\ review[i].book \in Books
    BY <1>3 DEF ChangeReview, RowOK
  <2>2. entry \in Request
    BY <2>1, NoRequestTyped DEF Request
  <2>3. BeginReview(s, review[i].book, "writeReview", entry)
    BY <1>3 DEF ChangeReview
  <2>4. Took(s, "writeReview", [entry EXCEPT !.book = review[i].book, !.alone = req'[s].alone])
    <3> HIDE DEF entry
    <3> QED
      BY <1>1, <2>1, <2>2, <2>3, BeginReviewMoves
  <2> QED
    BY <2>4
<1> QED
  BY <1>2, <1>3

\* What the statements that only read add to the request.
LEMMA DeskReadsTook ==
  ASSUME Typed, NEW s \in Slots
  PROVE  /\ TrySlug(s) => \E a \in Authors, label \in {"slug", "insertAuthor"} :
              Took(s, label, [req[s] EXCEPT !.author = a])
         /\ CountVisible(s) => Took(s, "countBooks", req[s])
         /\ CountBooks(s) => \E f \in BOOLEAN : Took(s, "dropAuthor", [req[s] EXCEPT !.found = f])
         /\ CountCategory(s) => Took(s, "dropCategory", req[s])
         /\ InsertBook(s) => Took(s, "countUp", req[s])
         /\ ReadBook(s) =>
              Took(s, "moveBook", [req[s] EXCEPT !.old = book[req[s].book].author])
         /\ MoveBook(s) /\ req[s].author # req[s].old => Took(s, "decrement", req[s])
         /\ Decrement(s) => Took(s, "increment", req[s])
         /\ ReadHistory(s) => \E f \in BOOLEAN : Took(s, "dropBook", [req[s] EXCEPT !.found = f])
         /\ DropBook(s) =>
              Took(s, "countDown", [req[s] EXCEPT !.old = book[req[s].book].author])
<1>1. req[s] \in Request /\ TypeOK /\ Asked(pc[s], req[s])
  BY DEF Typed, TypeOK
<1>2. {"slug", "insertAuthor", "countBooks", "dropAuthor", "dropCategory", "countUp",
       "moveBook", "decrement", "increment", "dropBook", "countDown"} \subseteq PCs
  BY DEF PCs
<1>3. \A a \in Authors : [req[s] EXCEPT !.author = a] \in Request
  BY <1>1 DEF Request
<1>4. \A f \in BOOLEAN : [req[s] EXCEPT !.found = f] \in Request
  BY <1>1 DEF Request
<1>5. \A a \in Authors : [req[s] EXCEPT !.old = a] \in Request
  BY <1>1 DEF Request
<1>6. ASSUME TrySlug(s)
      PROVE  \E a \in Authors, label \in {"slug", "insertAuthor"} :
               Took(s, label, [req[s] EXCEPT !.author = a])
  <2>1. req[s].author \in Authors
    BY <1>1, <1>6 DEF TrySlug, Asked
  <2>2. CASE AuthorExists(req[s].author)
    BY <1>1, <1>2, <1>3, <1>6, <2>2, ReadMoves DEF TrySlug
  <2>3. CASE ~AuthorExists(req[s].author)
    <3>1. req[s] = [req[s] EXCEPT !.author = req[s].author]
      BY <1>1 DEF Request
    <3>2. Took(s, "insertAuthor", req[s])
      BY <1>1, <1>2, <1>6, <2>3, ReadMoves DEF TrySlug
    <3> QED
      BY <2>1, <3>1, <3>2
  <2> QED
    BY <2>2, <2>3
<1>7. CountVisible(s) => Took(s, "countBooks", req[s])
  BY <1>1, <1>2, ReadMoves DEF CountVisible
<1>8. CountBooks(s) => \E f \in BOOLEAN : Took(s, "dropAuthor", [req[s] EXCEPT !.found = f])
  BY <1>1, <1>2, <1>4, ReadMoves DEF CountBooks
<1>9. CountCategory(s) => Took(s, "dropCategory", req[s])
  BY <1>1, <1>2, ReadMoves DEF CountCategory
<1>10. InsertBook(s) => Took(s, "countUp", req[s])
  BY <1>1, <1>2, ReadMoves DEF InsertBook
<1>11. \A b \in Books : book[b].author \in Authors
  BY <1>1 DEF TypeOK, BookRow
<1>12. ReadBook(s) => Took(s, "moveBook", [req[s] EXCEPT !.old = book[req[s].book].author])
  <2>1. ReadBook(s) => req[s].book \in Books
    BY <1>1 DEF ReadBook, Asked, Desk
  <2> QED
    BY <1>1, <1>2, <1>5, <1>11, <2>1, ReadMoves DEF ReadBook
<1>13. MoveBook(s) /\ req[s].author # req[s].old => Took(s, "decrement", req[s])
  BY <1>1, <1>2, ReadMoves DEF MoveBook
<1>14. Decrement(s) => Took(s, "increment", req[s])
  BY <1>1, <1>2, ReadMoves DEF Decrement
<1>15. ReadHistory(s) => \E f \in BOOLEAN : Took(s, "dropBook", [req[s] EXCEPT !.found = f])
  BY <1>1, <1>2, <1>4, ReadMoves DEF ReadHistory
<1>16. DropBook(s) => Took(s, "countDown", [req[s] EXCEPT !.old = book[req[s].book].author])
  <2>1. DropBook(s) => req[s].book \in Books
    BY <1>1 DEF DropBook, Asked
  <2> QED
    BY <1>1, <1>2, <1>5, <1>11, <2>1, ReadMoves DEF DropBook
<1> QED
  BY <1>6, <1>7, <1>8, <1>9, <1>10, <1>12, <1>13, <1>14, <1>15, <1>16

LEMMA ReviewReadsTook ==
  ASSUME Typed, NEW s \in Slots
  PROVE  /\ InsertReview(s) \/ WriteReview(s) => Took(s, "average", req[s])
         /\ Average(s) => Took(s, "rate", [req[s] EXCEPT !.mean = Averaged(s)])
<1>1. req[s] \in Request /\ TypeOK
  BY DEF Typed, TypeOK
<1>2. "average" \in PCs /\ "rate" \in PCs
  BY DEF PCs
<1>3. [req[s] EXCEPT !.mean = Averaged(s)] \in Request
  <2>1. Averaged(s) \in Mean
    BY MeanTyped DEF Averaged
  <2> QED
    BY <1>1, <2>1 DEF Request
<1> QED
  BY <1>1, <1>2, <1>3, ReadMoves DEF InsertReview, WriteReview, Average

-----------------------------------------------------------------------------
(* Types.                                                                  *)

\* The requests stay typed when a slot moves to a request that is.
LEMMA SlotsTyped ==
  ASSUME Typed, NEW s \in Slots, NEW label, NEW r, Took(s, label, r), Asked(label, r)
  PROVE  \A t \in Slots : Asked(pc'[t], req'[t])
<1> TAKE t \in Slots
<1>1. CASE t = s
  BY <1>1 DEF Took
<1>2. CASE t # s
  <2>1. Kept(t) /\ Asked(pc[t], req[t])
    BY <1>2 DEF Took, Apart, Typed
  <2> QED
    BY <2>1 DEF Kept, Asked
<1> QED
  BY <1>1, <1>2

LEMMA QuietTyped ==
  ASSUME Typed, NEW s \in Slots, NEW label, NEW r, Took(s, label, r), Asked(label, r),
         UNCHANGED <<tables, stale>>, calls' \in 0..MaxCalls, overlapped' \in BOOLEAN
  PROVE  Typed'
<1>1. \A t \in Slots : Asked(pc'[t], req'[t])
  BY SlotsTyped
<1>2. TypeOK'
  BY DEF Typed, TypeOK, Took, tables, BookExists, AuthorExists
<1>3. \A i \in ReviewIds : RowOK(i)'
  BY DEF Typed, RowOK, tables
<1> QED
  BY <1>1, <1>2, <1>3 DEF Typed, Asked

LEMMA CalledTyped ==
  ASSUME Typed, NEW s \in Slots, NEW label, NEW r, Took(s, label, r), Asked(label, r), Called,
         overlapped' \in BOOLEAN
  PROVE  Typed'
<1>1. calls' \in 0..MaxCalls
  BY CatalogBoundAssumption DEF Called, Typed, TypeOK
<1> QED
  BY <1>1, QuietTyped DEF Called

\* Every call, but the one that writes a category, only fills its slot.
LEMMA CallsTyped ==
  ASSUME Typed, NEW s \in Slots, Call(s)
  PROVE  Typed'
<1>1. overlapped \in BOOLEAN /\ TypeOK
  BY DEF Typed, TypeOK
<1>2. CASE CreateAuthor(s)
  <2>1. Asked("slug", [NoRequest EXCEPT !.author = 1])
    BY CatalogAssumption DEF Asked, NoRequest, Desk
  <2>2. Called /\ UNCHANGED overlapped
    BY <1>2 DEF CreateAuthor, Begin, Admit, Called
  <2> QED
    BY <1>1, <1>2, <2>1, <2>2, CallsTook, CalledTyped
<1>3. ASSUME NEW a \in Authors, CreateAuthorAs(s, a) \/ RemoveAuthor(s, a)
      PROVE  Typed'
  <2>1. Asked("insertAuthor", [NoRequest EXCEPT !.author = a])
        /\ Asked("visible", [NoRequest EXCEPT !.author = a])
    BY DEF Asked, NoRequest, Desk
  <2>2. Called /\ UNCHANGED overlapped
    BY <1>3 DEF CreateAuthorAs, RemoveAuthor, Begin, Admit, Called
  <2> QED
    BY <1>1, <1>3, <2>1, <2>2, CallsTook, CalledTyped
<1>4. ASSUME NEW k \in Categories, CreateCategory(s, k)
      PROVE  Typed'
  <2>1. calls' \in 0..MaxCalls
    BY <1>1, <1>4, CatalogBoundAssumption DEF CreateCategory, Admit, TypeOK
  <2>2. TypeOK'
    BY <1>1, <1>4, <2>1 DEF CreateCategory, TypeOK, BookExists, AuthorExists
  <2> QED
    BY <1>4, <2>2 DEF CreateCategory, Typed, RowOK, Asked
<1>5. ASSUME NEW k \in Categories, RemoveCategory(s, k)
      PROVE  Typed'
  <2>1. Asked("countCategory", [NoRequest EXCEPT !.category = k])
    BY DEF Asked, NoRequest, Desk
  <2>2. Called /\ UNCHANGED overlapped
    BY <1>5 DEF RemoveCategory, Begin, Admit, Called
  <2> QED
    BY <1>1, <1>5, <2>1, <2>2, CallsTook, CalledTyped
<1>6. ASSUME NEW b \in Books, RemoveBook(s, b)
      PROVE  Typed'
  <2>1. Asked("history", [NoRequest EXCEPT !.book = b])
    BY DEF Asked, NoRequest, Desk
  <2>2. Called /\ overlapped' \in BOOLEAN
    BY <1>6 DEF RemoveBook, BeginEdit, Admit, Called
  <2> QED
    BY <1>6, <2>1, <2>2, CallsTook, CalledTyped
<1>7. ASSUME NEW b \in Books, NEW a \in Authors, NEW k \in Categories,
             NEW r \in Ratings \cup {0}, CreateBook(s, b, a, k, r) \/ UpdateBook(s, b, a, k, r)
      PROVE  Typed'
  <2> DEFINE edit == [NoRequest EXCEPT !.author = a, !.category = k, !.rating = r, !.book = b]
  <2>1. Asked("insertBook", edit) /\ Asked("readBook", edit)
    BY DEF Asked, NoRequest, Desk
  <2>2. Called /\ overlapped' \in BOOLEAN
    BY <1>7 DEF CreateBook, UpdateBook, BeginEdit, Admit, Called
  <2>3. Took(s, "insertBook", edit) \/ Took(s, "readBook", edit)
    BY <1>7, CallsTook
  <2> QED
    BY <2>1, <2>2, <2>3, CalledTyped
<1>8. ASSUME NEW m \in Members, NEW b \in Books, NEW r \in Ratings, CreateReview(s, m, b, r)
      PROVE  Typed'
  <2> DEFINE entry == [NoRequest EXCEPT !.member = m, !.rating = r, !.id = calls + 1,
                                        !.book = b, !.alone = req'[s].alone]
  <2>1. Took(s, "insertReview", entry)
    BY <1>8, ReviewCallsTook
  <2>2. Called /\ UNCHANGED overlapped
    BY <1>8 DEF CreateReview, BeginReview, Admit, Called
  <2>3. calls + 1 \in ReviewIds
    BY <1>1, <2>2, CatalogBoundAssumption DEF Called, TypeOK, ReviewIds
  <2>4. Asked("insertReview", entry)
    BY <2>3 DEF Asked, NoRequest, Desk
  <2> QED
    BY <1>1, <2>1, <2>2, <2>4, CalledTyped
<1>9. ASSUME NEW i \in ReviewIds, NEW r \in Ratings \cup {0}, ChangeReview(s, i, r)
      PROVE  Typed'
  <2> DEFINE entry == [NoRequest EXCEPT !.member = review[i].member, !.id = i, !.rating = r,
                                        !.book = review[i].book, !.alone = req'[s].alone]
  <2>1. Took(s, "writeReview", entry)
    BY <1>9, ReviewCallsTook
  <2>2. Called /\ UNCHANGED overlapped
    BY <1>9 DEF ChangeReview, BeginReview, Admit, Called
  <2>3. review[i].member \in Members /\ review[i].book \in Books
    BY <1>9 DEF ChangeReview, Typed, RowOK
  <2>4. Asked("writeReview", entry)
    BY <2>3 DEF Asked, NoRequest, Desk
  <2> QED
    BY <1>1, <2>1, <2>2, <2>4, CalledTyped
<1> QED
  <2>1. \A e \in Entries : e[1] \in Authors /\ e[2] \in Categories /\ e[3] \in Ratings \cup {0}
    BY CatalogAssumption
  <2> QED
    BY <1>2, <1>3, <1>4, <1>5, <1>6, <1>7, <1>8, <1>9, <2>1 DEF Call, CatalogCall, AuthorCall, CategoryCall,
       BookCall, ReviewCall

\* The rows, apart from the requests: what a commit must leave typed.
RowsTyped ==
  /\ author \in [Authors -> AuthorRow] /\ category \subseteq Categories
  /\ book \in [Books -> BookRow] /\ review \in [ReviewIds -> ReviewRow]
  /\ stale \subseteq Books
  /\ \A b \in Books : BookExists(b) =>
       AuthorExists(book[b].author) /\ book[b].category \in category
  /\ \A i \in ReviewIds : review[i] # NoReview => BookExists(review[i].book)
  /\ \A i \in ReviewIds : RowOK(i)

LEMMA CommitTyped ==
  ASSUME Typed, NEW s \in Slots, Done(s), RowsTyped'
  PROVE  Typed'
<1>1. Took(s, "idle", NoRequest) /\ UNCHANGED <<calls, overlapped>>
  BY DoneMoves DEF Typed
<1>2. Asked("idle", NoRequest)
  BY DEF Asked, Desk
<1>3. \A t \in Slots : Asked(pc'[t], req'[t])
  BY <1>1, <1>2, SlotsTyped
<1>4. TypeOK'
  BY <1>1 DEF Typed, TypeOK, RowsTyped, Took
<1> QED
  BY <1>3, <1>4 DEF Typed, RowsTyped, Asked

LEMMA RowsAreTyped == Typed => RowsTyped
BY DEF Typed, TypeOK, RowsTyped

\* The commits of authors and categories.
LEMMA AuthorsTyped ==
  ASSUME Typed, NEW s \in Slots, AuthorCommit(s)
  PROVE  Typed'
<1>1. RowsTyped /\ Asked(pc[s], req[s])
  BY RowsAreTyped DEF Typed
<1>2. \A a \in Authors, x \in AuthorRow : [author EXCEPT ![a] = x] \in [Authors -> AuthorRow]
  BY <1>1 DEF RowsTyped
<1>3. NoAuthor \in AuthorRow /\ [state |-> "LIVE", books |-> 0] \in AuthorRow
  BY DEF NoAuthor, AuthorRow
<1>4. CASE InsertAuthor(s)
  <2>1. req[s].author \in Authors
    BY <1>1, <1>4 DEF InsertAuthor, Asked
  <2>2. author' \in [Authors -> AuthorRow]
    BY <1>2, <1>3, <1>4, <2>1 DEF InsertAuthor
  <2>3. \A a \in Authors : AuthorExists(a) => AuthorExists(a)'
    BY <1>1, <1>4 DEF InsertAuthor, AuthorExists, RowsTyped
  <2>4. \A b \in Books : book[b].author \in Authors
    BY <1>1 DEF RowsTyped, BookRow
  <2>5. RowsTyped'
    BY <1>1, <1>4, <2>2, <2>3, <2>4 DEF InsertAuthor, RowsTyped, RowOK, BookExists
  <2> QED
    BY <1>4, <2>5, CommitTyped DEF InsertAuthor
<1>5. CASE DropAuthor(s)
  <2> DEFINE a == req[s].author
  <2>1. a \in Authors
    BY <1>1, <1>5 DEF DropAuthor, Asked
  <2>2. \/ author' = [author EXCEPT ![a] = [author[a] EXCEPT !.state = "ARCHIVED"]]
        \/ author' = [author EXCEPT ![a] = NoAuthor] /\ BooksOf(a) = {}
    BY <1>5 DEF DropAuthor, AuthorUnreferenced
  <2> HIDE DEF a
  <2>3. [author[a] EXCEPT !.state = "ARCHIVED"] \in AuthorRow
    BY <1>1, <2>1 DEF RowsTyped, AuthorRow
  <2>4. author' \in [Authors -> AuthorRow]
    BY <1>2, <1>3, <2>1, <2>2, <2>3
  <2>5. \A c \in Authors : AuthorExists(c) => AuthorExists(c)' \/ BooksOf(c) = {}
    BY <1>1, <2>1, <2>2 DEF AuthorExists, RowsTyped, AuthorRow
  <2>6. \A b \in Books : BookExists(b) => BooksOf(book[b].author) # {}
    BY DEF BooksOf
  <2>7. \A b \in Books : book[b].author \in Authors
    BY <1>1 DEF RowsTyped, BookRow
  <2>8. UNCHANGED <<category, book, review, stale>>
    BY <1>5 DEF DropAuthor
  <2>9. RowsTyped'
    BY <1>1, <2>4, <2>5, <2>6, <2>7, <2>8 DEF RowsTyped, RowOK, BookExists
  <2> QED
    BY <1>5, <2>9, CommitTyped DEF DropAuthor
<1>6. CASE DropCategory(s)
  <2>1. RowsTyped'
    BY <1>1, <1>6
    DEF DropCategory, CategoryUnreferenced, RowsTyped, RowOK, BookExists, AuthorExists
  <2> QED
    BY <1>6, <2>1, CommitTyped DEF DropCategory
<1> QED
  BY <1>4, <1>5, <1>6 DEF AuthorCommit

\* The commits of books: a row of theirs is written, and the counters of authors.
LEMMA BookCommitTyped ==
  ASSUME Typed, NEW s \in Slots, Done(s), NEW b \in Books, NEW x \in BookRow,
         book' = [book EXCEPT ![b] = x], UNCHANGED <<category, review>>,
         stale' \subseteq Books, author' \in [Authors -> AuthorRow],
         \A a \in Authors : AuthorExists(a)' <=> AuthorExists(a),
         x.state # "NONE" => AuthorExists(x.author) /\ x.category \in category,
         x.state = "NONE" => ReviewsOf(b) = {} \/ ~BookExists(b)
  PROVE  Typed'
<1>1. RowsTyped
  BY RowsAreTyped
<1>2. book'[b] = x /\ \A c \in Books \ {b} : book'[c] = book[c]
  BY <1>1 DEF RowsTyped
<1>3. book' \in [Books -> BookRow]
  BY <1>1 DEF RowsTyped
<1>4. ASSUME NEW c \in Books, BookExists(c)'
      PROVE  AuthorExists(book[c].author)' /\ book'[c].category \in category'
  <2>1. CASE c = b
    <3>1. x.author \in Authors
      BY DEF BookRow
    <3>2. AuthorExists(x.author)' /\ x.category \in category'
      BY <1>2, <1>4, <2>1, <3>1 DEF BookExists
    <3> QED
      BY <1>2, <2>1, <3>2 DEF AuthorExists
  <2>2. CASE c # b
    <3>1. book[c].author \in Authors
      BY <1>1 DEF RowsTyped, BookRow
    <3>2. AuthorExists(book[c].author) /\ book[c].category \in category
      BY <1>1, <1>2, <1>4, <2>2 DEF RowsTyped, BookExists
    <3> QED
      BY <1>2, <2>2, <3>1, <3>2 DEF AuthorExists
  <2> QED
    BY <2>1, <2>2
<1>5. ASSUME NEW i \in ReviewIds, review[i] # NoReview
      PROVE  BookExists(review[i].book)'
  <2>1. BookExists(review[i].book) /\ review[i].book \in Books
    BY <1>1, <1>5 DEF RowsTyped, RowOK
  <2>2. i \in ReviewsOf(review[i].book)
    BY DEF ReviewsOf
  <2> QED
    BY <1>2, <2>1, <2>2 DEF BookExists
<1>6. RowsTyped'
  BY <1>1, <1>3, <1>4, <1>5 DEF RowsTyped, RowOK
<1> QED
  BY <1>6, CommitTyped

LEMMA BooksTyped ==
  ASSUME Typed, Locking, NEW s \in Slots, BookCommit(s)
  PROVE  Typed'
<1> DEFINE b == req[s].book
<1>1. RowsTyped /\ Asked(pc[s], req[s]) /\ req[s] \in Request
  BY RowsAreTyped DEF Typed, TypeOK
<1>2. Referred(s) /\ Pending(s)
  BY DEF Locking
<1>3. \A r \in Ratings \cup {0} : Given(r) \in Mean
  BY CatalogAssumption DEF Given, Unrated, Mean
<1>4. req[s].rating \in Ratings \cup {0}
  BY <1>1 DEF Request
<1>5. \A a \in Authors : author[a].books \in Nat /\ author[a] \in AuthorRow
  BY <1>1 DEF RowsTyped, AuthorRow
<1>6. b \in Books /\ book[b] \in BookRow
  BY <1>1 DEF RowsTyped, BookCommit, CountUp, MoveBook, Increment, CountDown, Asked, Desk
<1>7. stale' \subseteq Books
  BY <1>1, <1>6 DEF BookCommit, CountUp, MoveBook, Increment, CountDown, HandRated, RowsTyped
<1>8. ASSUME pc[s] \in {"moveBook", "increment"}
      PROVE  /\ Updated(s, b) \in BookRow
             /\ Updated(s, b).state = book[b].state /\ Updated(s, b).author = req[s].author
             /\ Updated(s, b).category = req[s].category
  <2>1. req[s].author \in Authors /\ req[s].category \in Categories
    BY <1>1, <1>8 DEF Asked, Desk
  <2> QED
    BY <1>3, <1>4, <1>6, <2>1 DEF Updated, BookRow
<1>9. CASE CountUp(s)
  <2> DEFINE a == req[s].author
             x == [state |-> "LIVE", author |-> a, category |-> req[s].category,
                   rating |-> Given(req[s].rating)]
             counted == [author[a] EXCEPT !.books = author[a].books + 1]
  <2>1. a \in Authors /\ req[s].category \in Categories
    BY <1>1, <1>9 DEF CountUp, Asked, Desk
  <2>2. author' = [author EXCEPT ![a] = counted] /\ book' = [book EXCEPT ![b] = x]
        /\ UNCHANGED <<category, review>> /\ Done(s)
    BY <1>9 DEF CountUp
  <2>3. x \in BookRow /\ x.state # "NONE" /\ x.author = a /\ x.category = req[s].category
    BY <1>3, <1>4, <2>1 DEF BookRow
  <2>4. counted \in AuthorRow /\ counted.state = author[a].state
    BY <1>5, <2>1 DEF AuthorRow
  <2>5. AuthorExists(a) /\ req[s].category \in category
    BY <1>2, <1>9 DEF CountUp, Referred
  <2> HIDE DEF a, b, x, counted
  <2>6. author' \in [Authors -> AuthorRow]
        /\ \A c \in Authors : AuthorExists(c)' <=> AuthorExists(c)
    BY <1>1, <2>1, <2>2, <2>4 DEF RowsTyped, AuthorExists
  <2> QED
    BY <1>6, <1>7, <2>2, <2>3, <2>5, <2>6, BookCommitTyped
<1>10. CASE MoveBook(s) /\ req[s].author = req[s].old
  <2>1. book' = [book EXCEPT ![b] = Updated(s, b)] /\ UNCHANGED <<author, category, review>>
        /\ Done(s) /\ BookExists(b) /\ pc[s] = "moveBook"
    BY <1>10 DEF MoveBook
  <2>2. AuthorExists(req[s].author) /\ req[s].category \in category
    BY <1>10 DEF MoveBook, ForeignKeys
  <2>3. Updated(s, b).state # "NONE"
    BY <1>8, <2>1 DEF BookExists
  <2>4. author' \in [Authors -> AuthorRow]
        /\ \A c \in Authors : AuthorExists(c)' <=> AuthorExists(c)
    BY <1>1, <2>1 DEF RowsTyped, AuthorExists
  <2> HIDE DEF b
  <2> QED
    BY <1>6, <1>7, <1>8, <2>1, <2>2, <2>3, <2>4, BookCommitTyped
<1>11. CASE Increment(s)
  <2> DEFINE a == req[s].author
             o == req[s].old
  <2>1. a \in Authors /\ o \in Authors /\ pc[s] = "increment"
    BY <1>1, <1>11 DEF Increment, Asked, Desk
  <2>2. AuthorExists(a) /\ req[s].category \in category /\ author[o].books > 0
    BY <1>2, <1>11 DEF Increment, Referred
  <2>3. author' = [y \in Authors |-> [author[y] EXCEPT !.books = Moved(o, a, y)]]
        /\ book' = [book EXCEPT ![b] = Updated(s, b)]
        /\ UNCHANGED <<category, review>> /\ Done(s)
    BY <1>11 DEF Increment
  <2> HIDE DEF a, o, b
  <2>4. \A y \in Authors : Moved(o, a, y) \in Nat
    BY <1>5, <2>1, <2>2 DEF Moved
  <2>5. \A y \in Authors : [author[y] EXCEPT !.books = Moved(o, a, y)] \in AuthorRow
                           /\ [author[y] EXCEPT !.books = Moved(o, a, y)].state = author[y].state
    BY <1>5, <2>4 DEF AuthorRow
  <2>6. author' \in [Authors -> AuthorRow]
        /\ \A c \in Authors : AuthorExists(c)' <=> AuthorExists(c)
    BY <2>3, <2>5 DEF AuthorExists
  <2>7. Updated(s, b).state = "NONE" => ~BookExists(b)
    BY <1>8, <2>1 DEF BookExists
  <2>8. Updated(s, b).author = a
    BY <1>8, <2>1 DEF a
  <2> QED
    BY <1>6, <1>7, <1>8, <2>1, <2>2, <2>3, <2>6, <2>7, <2>8, BookCommitTyped
<1>12. CASE CountDown(s)
  <2> DEFINE a == req[s].old
             x == IF req[s].found THEN [book[b] EXCEPT !.state = "ARCHIVED"] ELSE NoBook(b)
             counted == [author[a] EXCEPT !.books = author[a].books - 1]
  <2>1. a \in Authors /\ pc[s] = "countDown"
    BY <1>1, <1>12 DEF CountDown, Asked
  <2>2. author' = [author EXCEPT ![a] = counted] /\ book' = [book EXCEPT ![b] = x]
        /\ UNCHANGED <<category, review>> /\ Done(s) /\ author[a].books > 0
    BY <1>12 DEF CountDown, MayDecrement
  <2>3. x \in BookRow
    BY <1>6, CatalogAssumption DEF NoBook, BookRow, Mean, Unrated
  <2>4. counted \in AuthorRow /\ counted.state = author[a].state
    BY <1>5, <2>1, <2>2 DEF AuthorRow
  <2>5. x.state = "NONE" => ReviewsOf(b) = {} \/ ~BookExists(b)
    <3>1. CASE req[s].found
      BY <1>6, <3>1 DEF BookRow
    <3>2. CASE ~req[s].found
      BY <1>2, <2>1, <3>2 DEF Pending
    <3> QED
      BY <3>1, <3>2
  <2>6. x.state # "NONE" => AuthorExists(x.author) /\ x.category \in category
    <3>1. CASE req[s].found
      <4>1. x.author = book[b].author /\ x.category = book[b].category
        BY <1>6, <3>1 DEF BookRow
      <4>2. BookExists(b)
        BY <1>2, <2>1 DEF Pending
      <4> QED
        BY <1>1, <1>6, <4>1, <4>2 DEF RowsTyped
    <3>2. CASE ~req[s].found
      BY <3>2 DEF NoBook
    <3> QED
      BY <3>1, <3>2
  <2> HIDE DEF a, b, x, counted
  <2>7. author' \in [Authors -> AuthorRow]
        /\ \A c \in Authors : AuthorExists(c)' <=> AuthorExists(c)
    BY <1>1, <2>1, <2>2, <2>4 DEF RowsTyped, AuthorExists
  <2> QED
    BY <1>6, <1>7, <2>2, <2>3, <2>5, <2>6, <2>7, BookCommitTyped
<1> QED
  BY <1>9, <1>10, <1>11, <1>12 DEF BookCommit
\* The commit of a review.
LEMMA RateTyped ==
  ASSUME Typed, NEW s \in Slots, Rate(s)
  PROVE  Typed'
<1> DEFINE b == req[s].book
           i == req[s].id
           x == [book[b] EXCEPT !.rating = req[s].mean]
<1>1. RowsTyped /\ Asked(pc[s], req[s]) /\ req[s] \in Request
  BY RowsAreTyped DEF Typed, TypeOK
<1>2. b \in Books /\ req[s].member \in Members /\ i \in ReviewIds
  BY <1>1 DEF Rate, Asked
<1>3. req[s].mean \in Mean /\ req[s].rating \in Ratings \cup {0}
  BY <1>1 DEF Request
<1>4. /\ BookExists(b) /\ review' = [review EXCEPT ![i] = Row(s)]
      /\ book' = [book EXCEPT ![b] = x]
      /\ stale' \subseteq Books /\ Done(s) /\ UNCHANGED <<author, category>>
  BY <1>1, <1>2 DEF Rate, Sees, RowsTyped
<1>5. x \in BookRow /\ x.state = book[b].state /\ x.author = book[b].author
      /\ x.category = book[b].category
  BY <1>1, <1>2, <1>3 DEF RowsTyped, BookRow
<1>6. /\ Row(s) \in ReviewRow
      /\ Row(s) # NoReview => /\ Row(s).member \in Members /\ Row(s).book = b
                              /\ Row(s).rating \in Ratings
  BY <1>2, <1>3 DEF Row, ReviewRow, NoReview
<1> HIDE DEF b, i, x
<1>7. book' \in [Books -> BookRow] /\ review' \in [ReviewIds -> ReviewRow]
  BY <1>1, <1>2, <1>4, <1>5, <1>6 DEF RowsTyped
<1>8. \A c \in Books : book'[c].state = book[c].state /\ book'[c].author = book[c].author
                       /\ book'[c].category = book[c].category
  BY <1>1, <1>4, <1>5 DEF RowsTyped
<1>9. \A j \in ReviewIds : review'[j] = IF j = i THEN Row(s) ELSE review[j]
  BY <1>1, <1>4 DEF RowsTyped
<1>10. \A j \in ReviewIds : review'[j] # NoReview =>
         /\ review'[j].member \in Members /\ review'[j].book \in Books
         /\ review'[j].rating \in Ratings /\ book[review'[j].book].state # "NONE"
  BY <1>1, <1>2, <1>4, <1>6, <1>9 DEF RowsTyped, RowOK, BookExists
<1>11. RowsTyped'
  BY <1>1, <1>4, <1>7, <1>8, <1>10 DEF RowsTyped, RowOK, BookExists, AuthorExists
<1> QED
  BY <1>4, <1>11, CommitTyped

\* A statement that only reads, and a transaction rolled back.
LEMMA ReadsTyped ==
  ASSUME Typed, NEW s \in Slots, NEW label, NEW r, Took(s, label, r), Asked(label, r),
         UNCHANGED <<tables, calls, overlapped, stale>>
  PROVE  Typed'
BY QuietTyped DEF Typed, TypeOK

LEMMA RollbackTyped ==
  ASSUME Typed, NEW s \in Slots, Rollback(s)
  PROVE  Typed'
<1>1. Asked("idle", NoRequest)
  BY DEF Asked, Desk
<1> QED
  BY <1>1, DoneMoves, ReadsTyped DEF Rollback, Typed

LEMMA DeskReadsTyped ==
  ASSUME Typed, NEW s \in Slots, DeskRead(s)
  PROVE  Typed'
<1>1. Asked(pc[s], req[s]) /\ req[s] \in Request
  BY DEF Typed, TypeOK
<1>2. \A b \in Books : book[b].author \in Authors
  BY DEF Typed, TypeOK, BookRow
<1>3. UNCHANGED <<tables, calls, overlapped, stale>>
  BY DEF DeskRead, TrySlug, CountVisible, CountBooks, CountCategory, InsertBook, ReadBook, MoveBook,
         Decrement, ReadHistory, DropBook, Read
<1>4. CASE TrySlug(s)
  <2>1. \A a \in Authors, label \in {"slug", "insertAuthor"} :
          Asked(label, [req[s] EXCEPT !.author = a])
    BY <1>1 DEF Asked, Desk, Request
  <2> QED
    BY <1>3, <1>4, <2>1, DeskReadsTook, ReadsTyped
<1>5. CASE CountVisible(s)
  <2>1. Asked("countBooks", req[s])
    BY <1>1, <1>5 DEF CountVisible, Asked, Desk
  <2> QED
    BY <1>3, <1>5, <2>1, DeskReadsTook, ReadsTyped
<1>6. CASE CountBooks(s)
  <2>1. \A f \in BOOLEAN : Asked("dropAuthor", [req[s] EXCEPT !.found = f])
    BY <1>1, <1>6 DEF CountBooks, Asked, Desk, Request
  <2> QED
    BY <1>3, <1>6, <2>1, DeskReadsTook, ReadsTyped
<1>7. CASE CountCategory(s)
  <2>1. Asked("dropCategory", req[s])
    BY <1>1, <1>7 DEF CountCategory, Asked, Desk
  <2> QED
    BY <1>3, <1>7, <2>1, DeskReadsTook, ReadsTyped
<1>8. CASE InsertBook(s)
  <2>1. Asked("countUp", req[s])
    BY <1>1, <1>8 DEF InsertBook, Asked, Desk
  <2> QED
    BY <1>3, <1>8, <2>1, DeskReadsTook, ReadsTyped
<1>9. CASE ReadBook(s)
  <2>1. req[s].book \in Books
    BY <1>1, <1>9 DEF ReadBook, Asked, Desk
  <2>2. Asked("moveBook", [req[s] EXCEPT !.old = book[req[s].book].author])
    BY <1>1, <1>2, <1>9, <2>1 DEF ReadBook, Asked, Desk, Request
  <2> QED
    BY <1>3, <1>9, <2>2, DeskReadsTook, ReadsTyped
<1>10. CASE MoveBook(s) /\ req[s].author # req[s].old
  <2>1. Asked("decrement", req[s])
    BY <1>1, <1>10 DEF MoveBook, Asked, Desk
  <2> QED
    BY <1>3, <1>10, <2>1, DeskReadsTook, ReadsTyped
<1>11. CASE Decrement(s)
  <2>1. Asked("increment", req[s])
    BY <1>1, <1>11 DEF Decrement, Asked, Desk
  <2> QED
    BY <1>3, <1>11, <2>1, DeskReadsTook, ReadsTyped
<1>12. CASE ReadHistory(s)
  <2>1. \A f \in BOOLEAN : Asked("dropBook", [req[s] EXCEPT !.found = f])
    BY <1>1, <1>12 DEF ReadHistory, Asked, Desk, Request
  <2> QED
    BY <1>3, <1>12, <2>1, DeskReadsTook, ReadsTyped
<1>13. CASE DropBook(s)
  <2>1. req[s].book \in Books
    BY <1>1, <1>13 DEF DropBook, Asked
  <2>2. Asked("countDown", [req[s] EXCEPT !.old = book[req[s].book].author])
    BY <1>1, <1>2, <1>13, <2>1 DEF DropBook, Asked, Desk, Request
  <2> QED
    BY <1>3, <1>13, <2>2, DeskReadsTook, ReadsTyped
<1> QED
  BY <1>4, <1>5, <1>6, <1>7, <1>8, <1>9, <1>10, <1>11, <1>12, <1>13 DEF DeskRead

LEMMA ReviewReadsTyped ==
  ASSUME Typed, NEW s \in Slots, ReviewRead(s)
  PROVE  Typed'
<1>1. Asked(pc[s], req[s]) /\ req[s] \in Request
  BY DEF Typed, TypeOK
<1>2. UNCHANGED <<tables, calls, overlapped, stale>>
  BY DEF ReviewRead, InsertReview, WriteReview, Average, Read
<1>3. CASE InsertReview(s) \/ WriteReview(s)
  <2>1. Asked("average", req[s])
    BY <1>1, <1>3 DEF InsertReview, WriteReview, Asked, Desk
  <2> QED
    BY <1>2, <1>3, <2>1, ReviewReadsTook, ReadsTyped
<1>4. CASE Average(s)
  <2>1. Asked("rate", [req[s] EXCEPT !.mean = Averaged(s)])
    BY <1>1, <1>4 DEF Average, Asked, Desk, Request
  <2> QED
    BY <1>2, <1>4, <2>1, ReviewReadsTook, ReadsTyped
<1> QED
  BY <1>3, <1>4 DEF ReviewRead

LEMMA NextTyped ==
  ASSUME Typed, Locking, [Next]_vars
  PROVE  Typed'
<1>1. ASSUME NEW s \in Slots, Step(s)
      PROVE  Typed'
  BY <1>1, StepKinds, AuthorsTyped, BooksTyped, RateTyped, DeskReadsTyped, ReviewReadsTyped
<1>2. CASE UNCHANGED vars
  BY <1>2 DEF vars, tables, Typed, TypeOK, RowOK, BookExists, AuthorExists, Asked
<1> QED
  BY <1>1, <1>2, CallsTyped, RollbackTyped DEF Next
-----------------------------------------------------------------------------
(* The calls, by what they ask for.                                        *)

\* Where a request is about no book.
Outside ==
  {"idle", "slug", "insertAuthor", "visible", "countBooks", "dropAuthor", "countCategory",
   "dropCategory"}
PlainCall(s) ==
  \E label \in Outside, r \in Request : Took(s, label, r) /\ Called /\ UNCHANGED overlapped
EditCall(s) ==
  \E label \in {"insertBook", "readBook", "history"}, r \in Request :
    /\ Took(s, label, r) /\ Called /\ r.book \in Books
    /\ overlapped' = (overlapped \/ \E t \in Others(s, r.book) : ~Reviewing(t))
    /\ label # "insertBook" => Visible(r.book)

LEMMA CallKinds ==
  ASSUME Typed, NEW s \in Slots, Call(s)
  PROVE  \/ \E k \in Categories : CreateCategory(s, k)
         \/ PlainCall(s) \/ EditCall(s)
         \/ \E m \in Members, b \in Books, r \in Ratings : CreateReview(s, m, b, r)
         \/ \E i \in ReviewIds, r \in Ratings \cup {0} : ChangeReview(s, i, r)
<1>1. \A e \in Entries : e[1] \in Authors /\ e[2] \in Categories /\ e[3] \in Ratings \cup {0}
  BY CatalogAssumption
<1>2. CASE CreateAuthor(s)
  <2>1. Called /\ UNCHANGED overlapped
    BY <1>2 DEF CreateAuthor, Begin, Admit, Called
  <2>2. [NoRequest EXCEPT !.author = 1] \in Request
    BY NoRequestTyped, CatalogAssumption DEF Request
  <2> QED
    BY <1>2, <2>1, <2>2, CallsTook DEF PlainCall, Outside
<1>3. ASSUME NEW a \in Authors, CreateAuthorAs(s, a) \/ RemoveAuthor(s, a)
      PROVE  PlainCall(s)
  <2>1. Called /\ UNCHANGED overlapped
    BY <1>3 DEF CreateAuthorAs, RemoveAuthor, Begin, Admit, Called
  <2>2. [NoRequest EXCEPT !.author = a] \in Request
    BY NoRequestTyped DEF Request
  <2> QED
    BY <1>3, <2>1, <2>2, CallsTook DEF PlainCall, Outside
<1>4. ASSUME NEW k \in Categories, RemoveCategory(s, k)
      PROVE  PlainCall(s)
  <2>1. Called /\ UNCHANGED overlapped
    BY <1>4 DEF RemoveCategory, Begin, Admit, Called
  <2>2. [NoRequest EXCEPT !.category = k] \in Request
    BY NoRequestTyped DEF Request
  <2> QED
    BY <1>4, <2>1, <2>2, CallsTook DEF PlainCall, Outside
<1>5. ASSUME NEW b \in Books, RemoveBook(s, b)
      PROVE  EditCall(s)
  <2> DEFINE r == [NoRequest EXCEPT !.book = b]
  <2>1. r \in Request /\ r.book = b
    BY NoRequestTyped DEF Request, NoRequest
  <2>2. Took(s, "history", r)
    BY <1>5, CallsTook
  <2>3. Called /\ Visible(b) /\ overlapped' = (overlapped \/ \E t \in Others(s, b) : ~Reviewing(t))
    BY <1>5 DEF RemoveBook, BeginEdit, Admit, Called
  <2> HIDE DEF r
  <2> QED
    BY <2>1, <2>2, <2>3 DEF EditCall
<1>6. ASSUME NEW b \in Books, NEW a \in Authors, NEW k \in Categories,
             NEW r0 \in Ratings \cup {0}, CreateBook(s, b, a, k, r0) \/ UpdateBook(s, b, a, k, r0)
      PROVE  EditCall(s)
  <2> DEFINE r == [NoRequest EXCEPT !.author = a, !.category = k, !.rating = r0, !.book = b]
  <2>1. r \in Request /\ r.book = b
    BY NoRequestTyped DEF Request, NoRequest
  <2>2. \/ CreateBook(s, b, a, k, r0) /\ Took(s, "insertBook", r)
        \/ UpdateBook(s, b, a, k, r0) /\ Took(s, "readBook", r)
    BY <1>6, CallsTook
  <2>3. Called /\ overlapped' = (overlapped \/ \E t \in Others(s, b) : ~Reviewing(t))
    BY <1>6 DEF CreateBook, UpdateBook, BeginEdit, Admit, Called
  <2>4. UpdateBook(s, b, a, k, r0) => Visible(b)
    BY DEF UpdateBook
  <2> HIDE DEF r
  <2> QED
    BY <2>1, <2>2, <2>3, <2>4 DEF EditCall
<1> QED
  BY <1>1, <1>2, <1>3, <1>4, <1>5, <1>6 DEF Call, CatalogCall, AuthorCall, CategoryCall,
       BookCall, ReviewCall

-----------------------------------------------------------------------------
(* Locks.                                                                  *)

\* Where a request holds no lock.
Unlocked ==
  Outside \cup {"insertBook", "readBook", "moveBook", "history", "dropBook", "insertReview",
                "writeReview"}

\* The locks of the other slots stay, and so does what they exclude.
LEMMA LockingTook ==
  ASSUME Locking, NEW s \in Slots, NEW label, NEW r, Took(s, label, r),
         \A t \in Slots : Referred(t)' /\ Pending(t)',
         \A t \in Slots \ {s} : Exclusive(s, t)' /\ Exclusive(t, s)'
  PROVE  Locking'
<1>1. ASSUME NEW t \in Slots, NEW u \in Slots, t # u
      PROVE  Exclusive(t, u)'
  <2>1. CASE t # s /\ u # s
    <3>1. Kept(t) /\ Kept(u) /\ Exclusive(t, u)
      BY <1>1, <2>1 DEF Took, Apart, Locking
    <3> QED
      BY <3>1 DEF Kept, Exclusive, WritesBook, DeletesBook, RefersToBook
  <2> QED
    BY <1>1, <2>1
<1> QED
  BY <1>1 DEF Locking

LEMMA LockingUnlocked ==
  ASSUME Locking, NEW s \in Slots, NEW label \in Unlocked, NEW r, Took(s, label, r),
         \A t \in Slots \ {s} : Referred(t)' /\ Pending(t)'
  PROVE  Locking'
<1>1. pc'[s] = label
  BY DEF Took
<1>2. Referred(s)' /\ Pending(s)'
  BY <1>1 DEF Unlocked, Outside, Referred, Pending
<1>3. \A t \in Slots \ {s} : Exclusive(s, t)' /\ Exclusive(t, s)'
  BY <1>1 DEF Unlocked, Outside, Exclusive, WritesBook, DeletesBook, RefersToBook
<1> QED
  BY <1>2, <1>3, LockingTook

\* What the tables must keep for a slot that stays as it is.
LEMMA LockingOther ==
  ASSUME Typed, Locking, NEW t \in Slots, Kept(t),
         RefersToAuthor(t, req[t].author) => AuthorExists(req[t].author)',
         RefersToCategory(t, req[t].category) => req[t].category \in category',
         WritesAuthor(t, req[t].old) =>
           AuthorExists(req[t].old)' /\ author'[req[t].old].books > 0,
         WritesBook(t, req[t].book) => (BookExists(req[t].book)' <=> BookExists(req[t].book)),
         DeletesBook(t, req[t].book) => (ReviewsOf(req[t].book)' \subseteq ReviewsOf(req[t].book))
  PROVE  Referred(t)' /\ Pending(t)'
<1>1. Referred(t) /\ Pending(t)
  BY DEF Locking
<1>2. Referred(t)'
  BY <1>1 DEF Kept, Referred, RefersToAuthor, RefersToCategory, WritesAuthor, AuthorExists
<1>3. Pending(t)'
  BY <1>1 DEF Kept, Pending, WritesBook, DeletesBook, BookExists, ReviewsOf
<1> QED
  BY <1>2, <1>3

LEMMA LockingQuiet ==
  ASSUME Typed, Locking, NEW s \in Slots, Apart(s), UNCHANGED tables
  PROVE  \A t \in Slots \ {s} : Referred(t)' /\ Pending(t)'
<1> TAKE t \in Slots \ {s}
<1>1. Kept(t) /\ Referred(t) /\ Pending(t)
  BY DEF Apart, Locking
<1> QED
  BY <1>1 DEF Kept, Referred, Pending, tables, AuthorExists, BookExists, ReviewsOf
LEMMA LockingCall ==
  ASSUME Typed, Locking, NEW s \in Slots, Call(s)
  PROVE  Locking'
<1>1. ASSUME NEW label \in Unlocked, NEW r, Took(s, label, r), Called
      PROVE  Locking'
  BY <1>1, LockingQuiet, LockingUnlocked DEF Took, Called
<1>2. ASSUME NEW k \in Categories, CreateCategory(s, k)
      PROVE  Locking'
  <2>1. pc' = pc /\ req' = req /\ category \subseteq category'
        /\ UNCHANGED <<author, book, review>>
    BY <1>2 DEF CreateCategory
  <2> QED
    BY <2>1 DEF Locking, Referred, Pending, Exclusive, WritesBook, DeletesBook, RefersToBook,
                AuthorExists, BookExists, ReviewsOf
<1>3. CASE PlainCall(s)
  BY <1>1, <1>3 DEF PlainCall, Unlocked
<1>4. CASE EditCall(s)
  BY <1>1, <1>4 DEF EditCall, Unlocked
<1>5. ASSUME NEW m \in Members, NEW b \in Books, NEW r \in Ratings, CreateReview(s, m, b, r)
      PROVE  Locking'
  <2>1. Called
    BY <1>5 DEF CreateReview, BeginReview, Admit, Called
  <2> QED
    BY <1>1, <1>5, <2>1, ReviewCallsTook DEF Unlocked
<1>6. ASSUME NEW i \in ReviewIds, NEW r \in Ratings \cup {0}, ChangeReview(s, i, r)
      PROVE  Locking'
  <2>1. Called
    BY <1>6 DEF ChangeReview, BeginReview, Admit, Called
  <2> QED
    BY <1>1, <1>6, <2>1, ReviewCallsTook DEF Unlocked
<1> QED
  BY <1>2, <1>3, <1>4, <1>5, <1>6, CallKinds

\* What the statements of administrators lock they have found free.
LEMMA LockingDeskRead ==
  ASSUME Typed, Locking, NEW s \in Slots, DeskRead(s)
  PROVE  Locking'
<1>1. UNCHANGED tables
  BY DEF DeskRead, TrySlug, CountVisible, CountBooks, CountCategory, InsertBook, ReadBook,
         MoveBook, Decrement, ReadHistory, DropBook, Read
<1>2. Asked(pc[s], req[s]) /\ req[s] \in Request /\ Referred(s) /\ Pending(s)
  BY DEF Typed, TypeOK, Locking
<1>3. ASSUME NEW label \in Unlocked, NEW r, Took(s, label, r)
      PROVE  Locking'
  BY <1>1, <1>3, LockingQuiet, LockingUnlocked DEF Took
<1>4. ASSUME NEW label, NEW r, Took(s, label, r), Referred(s)' /\ Pending(s)',
             \A t \in Slots \ {s} : Exclusive(s, t)' /\ Exclusive(t, s)'
      PROVE  Locking'
  BY <1>1, <1>4, LockingQuiet, LockingTook DEF Took
<1>5. CASE TrySlug(s) \/ CountVisible(s) \/ CountBooks(s) \/ CountCategory(s) \/ ReadBook(s)
           \/ ReadHistory(s)
  BY <1>3, <1>5, DeskReadsTook DEF Unlocked, Outside
<1>6. CASE InsertBook(s)
  <2>1. Took(s, "countUp", req[s])
    BY <1>6, DeskReadsTook
  <2>2. pc'[s] = "countUp" /\ req'[s] = req[s] /\ \A t \in Slots \ {s} : Kept(t)
    BY <2>1 DEF Took, Apart
  <2>3. /\ ~BookExists(req[s].book) /\ AuthorExists(req[s].author)
        /\ req[s].category \in category /\ BookFree(s, req[s].book)
    BY <1>6 DEF InsertBook, ForeignKeys
  <2>4. Referred(s)' /\ Pending(s)'
    BY <1>1, <2>2, <2>3 DEF Referred, Pending, tables, AuthorExists, BookExists
  <2>5. \A t \in Slots \ {s} : Exclusive(s, t)' /\ Exclusive(t, s)'
    BY <2>2, <2>3 DEF Kept, Exclusive, WritesBook, DeletesBook, RefersToBook, BookFree
  <2> QED
    BY <1>4, <2>1, <2>4, <2>5
<1>7. CASE MoveBook(s) /\ req[s].author # req[s].old
  <2>1. Took(s, "decrement", req[s])
    BY <1>7, DeskReadsTook
  <2>2. pc'[s] = "decrement" /\ req'[s] = req[s] /\ \A t \in Slots \ {s} : Kept(t)
    BY <2>1 DEF Took, Apart
  <2>3. /\ BookExists(req[s].book) /\ AuthorExists(req[s].author)
        /\ req[s].category \in category /\ BookFree(s, req[s].book)
    BY <1>7 DEF MoveBook, ForeignKeys
  <2>4. Referred(s)' /\ Pending(s)'
    BY <1>1, <2>2, <2>3 DEF Referred, Pending, tables, AuthorExists, BookExists
  <2>5. \A t \in Slots \ {s} : Exclusive(s, t)' /\ Exclusive(t, s)'
    BY <2>2, <2>3 DEF Kept, Exclusive, WritesBook, DeletesBook, RefersToBook, BookFree
  <2> QED
    BY <1>4, <2>1, <2>4, <2>5
<1>8. CASE Decrement(s)
  <2>1. Took(s, "increment", req[s])
    BY <1>8, DeskReadsTook
  <2>2. pc'[s] = "increment" /\ req'[s] = req[s] /\ \A t \in Slots \ {s} : Kept(t)
    BY <2>1 DEF Took, Apart
  <2>3. /\ pc[s] = "decrement" /\ AuthorFree(s, req[s].old) /\ AuthorExists(req[s].old)
        /\ author[req[s].old].books > 0
    BY <1>8 DEF Decrement, MayDecrement
  <2>4. Referred(s)' /\ Pending(s)'
    BY <1>1, <1>2, <2>2, <2>3 DEF Referred, Pending, tables, AuthorExists, BookExists
  <2>5. ASSUME NEW t \in Slots \ {s}
        PROVE  Exclusive(s, t)' /\ Exclusive(t, s)'
    <3>1. Exclusive(s, t) /\ Exclusive(t, s) /\ Kept(t) /\ ~WritesAuthor(t, req[s].old)
      BY <2>2, <2>3 DEF Locking, AuthorFree
    <3> QED
      BY <2>2, <2>3, <3>1
      DEF Kept, Exclusive, WritesBook, DeletesBook, RefersToBook, WritesAuthor
  <2> QED
    BY <1>4, <2>1, <2>4, <2>5
<1>9. CASE DropBook(s)
  <2> DEFINE r == [req[s] EXCEPT !.old = book[req[s].book].author]
  <2>1. Took(s, "countDown", r)
    BY <1>9, DeskReadsTook
  <2>2. r.book = req[s].book /\ r.found = req[s].found
    BY <1>2 DEF Request
  <2>3. pc'[s] = "countDown" /\ req'[s] = r /\ \A t \in Slots \ {s} : Kept(t)
    BY <2>1 DEF Took, Apart
  <2>4. /\ BookExists(req[s].book) /\ BookFree(s, req[s].book)
        /\ ~req[s].found => BookUnreferenced(s, req[s].book)
    BY <1>9 DEF DropBook, BookUnreferenced
  <2> HIDE DEF r
  <2>5. Referred(s)' /\ Pending(s)'
    BY <1>1, <2>2, <2>3, <2>4
    DEF Referred, Pending, tables, BookExists, ReviewsOf, BookUnreferenced
  <2>6. \A t \in Slots \ {s} : Exclusive(s, t)' /\ Exclusive(t, s)'
    BY <2>2, <2>3, <2>4
    DEF Kept, Exclusive, WritesBook, DeletesBook, RefersToBook, BookFree, BookUnreferenced
  <2> QED
    BY <1>4, <2>1, <2>5, <2>6
<1> QED
  BY <1>5, <1>6, <1>7, <1>8, <1>9 DEF DeskRead

\* A review is written of a book that nobody is deleting.
LEMMA LockingReviewRead ==
  ASSUME Typed, Locking, Reviewed1, NEW s \in Slots, ReviewRead(s)
  PROVE  Locking'
<1>1. UNCHANGED tables
  BY DEF ReviewRead, InsertReview, WriteReview, Average, Read
<1>2. Asked(pc[s], req[s]) /\ req[s] \in Request /\ Owns(s)
  BY DEF Typed, TypeOK, Reviewed1
<1>3. PICK label \in {"average", "rate"}, r \in Request :
        Took(s, label, r) /\ r.book = req[s].book
  <2>1. [req[s] EXCEPT !.mean = Averaged(s)] \in Request
        /\ [req[s] EXCEPT !.mean = Averaged(s)].book = req[s].book
    BY <1>2, MeanTyped DEF Request, Averaged
  <2> QED
    BY <1>2, <2>1, ReviewReadsTook DEF ReviewRead
<1>4. pc'[s] = label /\ req'[s] = r /\ \A t \in Slots \ {s} : Kept(t)
  BY <1>3 DEF Took, Apart
<1>5. ASSUME NEW t \in Slots \ {s}
      PROVE  ~DeletesBook(t, req[s].book)
  <2>1. CASE InsertReview(s)
    BY <2>1 DEF InsertReview
  <2>2. CASE WriteReview(s)
    <3>1. review[req[s].id] # NoReview /\ pc[s] = "writeReview"
      BY <2>2 DEF WriteReview
    <3>2. req[s].id \in ReviewsOf(req[s].book)
      BY <1>2, <3>1 DEF Owns, Reviewing, Asked, Holds, ReviewsOf
    <3>3. Pending(t)
      BY DEF Locking
    <3> QED
      BY <3>2, <3>3 DEF Pending, DeletesBook
  <2>3. CASE Average(s)
    <3>1. RefersToBook(s, req[s].book) /\ req[s].book \in Books
      BY <1>2, <2>3 DEF Average, RefersToBook, Asked
    <3>2. Exclusive(t, s)
      BY DEF Locking
    <3> QED
      BY <3>1, <3>2 DEF Exclusive
  <2> QED
    BY <2>1, <2>2, <2>3 DEF ReviewRead
<1>6. \A t \in Slots \ {s} : Exclusive(s, t)' /\ Exclusive(t, s)'
  BY <1>3, <1>4, <1>5 DEF Kept, Exclusive, WritesBook, DeletesBook, RefersToBook
<1>7. Referred(s)' /\ Pending(s)'
  BY <1>4 DEF Referred, Pending
<1> QED
  BY <1>1, <1>3, <1>6, <1>7, LockingQuiet, LockingTook DEF Took
\* A commit gives its locks up, and leaves the rows that others hold.
LEMMA LockingAuthorCommit ==
  ASSUME Typed, Locking, NEW s \in Slots, AuthorCommit(s)
  PROVE  Locking'
<1>1. Took(s, "idle", NoRequest)
  BY DoneMoves DEF AuthorCommit, InsertAuthor, DropAuthor, DropCategory, Typed
<1>2. UNCHANGED <<book, review>>
  BY DEF AuthorCommit, InsertAuthor, DropAuthor, DropCategory
<1>3. /\ author \in [Authors -> AuthorRow]
      /\ \A t \in Slots : Asked(pc[t], req[t])
  BY DEF Typed, TypeOK
<1>4. ASSUME NEW t \in Slots \ {s}
      PROVE  Referred(t)' /\ Pending(t)'
  <2>1. Kept(t) /\ Referred(t)
    BY <1>1 DEF Took, Apart, Locking
  <2>2. RefersToAuthor(t, req[t].author) => AuthorExists(req[t].author)'
    <3>1. RefersToAuthor(t, req[t].author) =>
            AuthorExists(req[t].author) /\ req[t].author \in Authors
      BY <1>3, <2>1 DEF Referred, RefersToAuthor, Asked, Desk
    <3>2. PICK a \in {req[t].author} : TRUE
      OBVIOUS
    <3>3. ASSUME AuthorExists(a), a \in Authors, RefersToAuthor(t, a)
          PROVE  author'[a].state # "NONE"
      <4>1. CASE InsertAuthor(s)
        BY <1>3, <3>3, <4>1 DEF InsertAuthor, AuthorExists
      <4>2. CASE DropAuthor(s)
        <5>1. \/ author' = [author EXCEPT ![req[s].author] =
                               [author[req[s].author] EXCEPT !.state = "ARCHIVED"]]
              \/ author' = [author EXCEPT ![req[s].author] = NoAuthor] /\ req[s].author # a
          BY <3>3, <4>2 DEF DropAuthor, AuthorUnreferenced
        <5> QED
          BY <1>3, <3>3, <5>1 DEF AuthorExists, AuthorRow
      <4>3. CASE DropCategory(s)
        BY <3>3, <4>3 DEF DropCategory, AuthorExists
      <4> QED
        BY <4>1, <4>2, <4>3 DEF AuthorCommit
    <3> QED
      BY <2>1, <3>1, <3>2, <3>3 DEF Kept, AuthorExists
  <2>3. RefersToCategory(t, req[t].category) => req[t].category \in category'
    BY <2>1 DEF AuthorCommit, InsertAuthor, DropAuthor, DropCategory, CategoryUnreferenced,
                Referred, RefersToCategory
  <2>4. WritesAuthor(t, req[t].old) =>
          AuthorExists(req[t].old)' /\ author'[req[t].old].books > 0
    <3>1. WritesAuthor(t, req[t].old) =>
            /\ AuthorExists(req[t].old) /\ req[t].old \in Authors
            /\ author[req[t].old].books > 0
      BY <1>3, <2>1 DEF Referred, WritesAuthor, Asked
    <3>2. PICK a \in {req[t].old} : TRUE
      OBVIOUS
    <3>3. ASSUME AuthorExists(a), a \in Authors, author[a].books > 0, WritesAuthor(t, a)
          PROVE  author'[a].state # "NONE" /\ author'[a].books > 0
      <4>1. CASE InsertAuthor(s)
        BY <1>3, <3>3, <4>1 DEF InsertAuthor, AuthorExists
      <4>2. CASE DropAuthor(s)
        <5>1. req[s].author # a
          BY <3>3, <4>2 DEF DropAuthor, AuthorFree
        <5> QED
          BY <1>3, <3>3, <4>2, <5>1 DEF DropAuthor, AuthorExists
      <4>3. CASE DropCategory(s)
        BY <3>3, <4>3 DEF DropCategory, AuthorExists
      <4> QED
        BY <4>1, <4>2, <4>3 DEF AuthorCommit
    <3> QED
      BY <2>1, <3>1, <3>2, <3>3 DEF Kept, AuthorExists
  <2>5. BookExists(req[t].book)' <=> BookExists(req[t].book)
    BY <1>2, <2>1 DEF Kept, BookExists
  <2>6. ReviewsOf(req[t].book)' \subseteq ReviewsOf(req[t].book)
    BY <1>2, <2>1 DEF Kept, ReviewsOf
  <2> QED
    BY <2>1, <2>2, <2>3, <2>4, <2>5, <2>6, LockingOther
<1> QED
  BY <1>1, <1>4, LockingUnlocked DEF Unlocked, Outside
\* A commit of a book writes its row and counters, no author's state.
LEMMA BookCommitRows ==
  ASSUME Typed, NEW s \in Slots, BookCommit(s)
  PROVE  /\ Took(s, "idle", NoRequest)
         /\ UNCHANGED <<category, review, calls, overlapped>>
         /\ req[s].book \in Books
         /\ \A c \in Books \ {req[s].book} : book'[c] = book[c]
         /\ WritesBook(s, req[s].book) \/ \A c \in Books : BookExists(c)' <=> BookExists(c)
         /\ \A a \in Authors : author'[a].state = author[a].state
<1>1. Asked(pc[s], req[s]) /\ RowsTyped
  BY RowsAreTyped DEF Typed
<1>2. Took(s, "idle", NoRequest) /\ UNCHANGED <<category, review, calls, overlapped>>
  BY DoneMoves DEF Typed, BookCommit, CountUp, MoveBook, Increment, CountDown, Done
<1>3. req[s].book \in Books
  BY <1>1 DEF BookCommit, CountUp, MoveBook, Increment, CountDown, Asked, Desk
<1>4. \A c \in Books \ {req[s].book} : book'[c] = book[c]
  BY <1>1, <1>3 DEF RowsTyped, BookCommit, CountUp, MoveBook, Increment, CountDown
<1>5. WritesBook(s, req[s].book) \/ \A c \in Books : BookExists(c)' <=> BookExists(c)
  <2>1. PICK b \in Books : b = req[s].book
    BY <1>3
  <2>2. CASE MoveBook(s) /\ req[s].author = req[s].old
    <3>1. book' = [book EXCEPT ![b] = Updated(s, b)]
      BY <2>1, <2>2 DEF MoveBook
    <3>2. Updated(s, b).state = book[b].state
      BY <1>1 DEF Updated, RowsTyped, BookRow
    <3>3. book'[b].state = book[b].state
      BY <1>1, <3>1, <3>2 DEF RowsTyped
    <3> QED
      BY <1>4, <2>1, <3>3 DEF BookExists
  <2> QED
    BY <2>2 DEF BookCommit, CountUp, Increment, CountDown, WritesBook
<1>6. \A a \in Authors : author'[a].state = author[a].state
  <2>1. \A a \in Authors : author[a] \in AuthorRow
    BY <1>1 DEF RowsTyped
  <2>2. CASE CountUp(s)
    BY <1>1, <2>1, <2>2 DEF CountUp, RowsTyped, AuthorRow
  <2>3. CASE MoveBook(s) /\ req[s].author = req[s].old
    BY <2>3 DEF MoveBook
  <2>4. CASE Increment(s)
    BY <2>1, <2>4 DEF Increment, AuthorRow
  <2>5. CASE CountDown(s)
    BY <1>1, <2>1, <2>5 DEF CountDown, RowsTyped, AuthorRow
  <2> QED
    BY <2>2, <2>3, <2>4, <2>5 DEF BookCommit
<1> QED
  BY <1>2, <1>3, <1>4, <1>5, <1>6

LEMMA LockingBookCommit ==
  ASSUME Typed, Locking, NEW s \in Slots, BookCommit(s)
  PROVE  Locking'
<1>1. /\ Took(s, "idle", NoRequest)
      /\ UNCHANGED <<category, review>>
      /\ req[s].book \in Books
      /\ \A c \in Books \ {req[s].book} : book'[c] = book[c]
      /\ WritesBook(s, req[s].book) \/ \A c \in Books : BookExists(c)' <=> BookExists(c)
      /\ \A a \in Authors : author'[a].state = author[a].state
  BY BookCommitRows
<1>2. \A t \in Slots : Asked(pc[t], req[t])
  BY DEF Typed
<1>3. /\ author \in [Authors -> AuthorRow]
      /\ \A a \in Authors : author[a] \in AuthorRow /\ author[a].books \in Nat
  BY DEF Typed, TypeOK, AuthorRow
<1>4. ASSUME NEW t \in Slots \ {s}
      PROVE  Referred(t)' /\ Pending(t)'
  <2>1. Kept(t) /\ Referred(t) /\ Exclusive(s, t)
    BY <1>1 DEF Took, Apart, Locking
  <2>2. RefersToAuthor(t, req[t].author) => AuthorExists(req[t].author)'
    BY <1>1, <1>2, <2>1 DEF Kept, Referred, RefersToAuthor, AuthorExists, Asked, Desk
  <2>3. RefersToCategory(t, req[t].category) => req[t].category \in category'
    BY <1>1, <2>1 DEF Referred, RefersToCategory
  <2>4. ASSUME WritesAuthor(t, req[t].old)
        PROVE  AuthorExists(req[t].old)' /\ author'[req[t].old].books > 0
    <3>1. PICK a \in Authors : a = req[t].old
      BY <1>2, <2>4 DEF WritesAuthor, Asked
    <3>2. /\ WritesAuthor(t, a) /\ author[a].state # "NONE" /\ author[a].books > 0
          /\ author[a].books \in Nat
      BY <1>3, <2>1, <2>4, <3>1 DEF Referred, WritesAuthor, AuthorExists
    <3>3. author'[a].books > 0
      <4>1. CASE CountUp(s)
        <5>1. \/ author'[a].books = author[a].books + 1
              \/ author'[a].books = author[a].books
          BY <1>3, <4>1 DEF CountUp, AuthorRow
        <5> QED
          BY <3>2, <5>1
      <4>2. CASE MoveBook(s) /\ req[s].author = req[s].old
        BY <3>2, <4>2 DEF MoveBook
      <4>3. CASE Increment(s)
        <5>1. req[s].old # a
          BY <2>1, <2>4, <3>1, <4>3 DEF Increment, Exclusive, WritesAuthor
        <5>2. Moved(req[s].old, req[s].author, a) \in {author[a].books, author[a].books + 1}
          BY <5>1 DEF Moved
        <5>3. author'[a].books = Moved(req[s].old, req[s].author, a)
          BY <1>3, <4>3 DEF Increment, AuthorRow
        <5> QED
          BY <3>2, <5>2, <5>3
      <4>4. CASE CountDown(s)
        <5>1. req[s].old # a
          BY <3>2, <4>4 DEF CountDown, AuthorFree
        <5>2. author'[a] = author[a]
          BY <1>3, <4>4, <5>1 DEF CountDown
        <5> QED
          BY <3>2, <5>2
      <4> QED
        BY <4>1, <4>2, <4>3, <4>4 DEF BookCommit
    <3>4. author'[a].state # "NONE"
      BY <1>1, <3>2
    <3> QED
      BY <2>1, <3>1, <3>3, <3>4 DEF Kept, AuthorExists
  <2>5. WritesBook(t, req[t].book) => (BookExists(req[t].book)' <=> BookExists(req[t].book))
    <3>1. WritesBook(t, req[t].book) => req[t].book \in Books
      BY <1>2 DEF WritesBook, Asked, Desk
    <3>2. CASE req[t].book = req[s].book
      BY <1>1, <2>1, <3>1, <3>2 DEF Exclusive, Kept, BookExists
    <3>3. CASE req[t].book # req[s].book
      BY <1>1, <2>1, <3>1, <3>3 DEF Kept, BookExists
    <3> QED
      BY <3>2, <3>3
  <2>6. ReviewsOf(req[t].book)' \subseteq ReviewsOf(req[t].book)
    BY <1>1, <2>1 DEF Kept, ReviewsOf
  <2> QED
    BY <2>1, <2>2, <2>3, <2>4, <2>5, <2>6, LockingOther
<1> QED
  BY <1>1, <1>4, LockingUnlocked DEF Unlocked, Outside
\* The commit of a review writes its row and the rating of its book.
LEMMA RateRows ==
  ASSUME Typed, NEW s \in Slots, Rate(s)
  PROVE  /\ Took(s, "idle", NoRequest) /\ pc[s] = "rate" /\ Asked(pc[s], req[s])
         /\ UNCHANGED <<author, category, calls, overlapped>>
         /\ \A i \in ReviewIds : review'[i] = IF i = req[s].id THEN Row(s) ELSE review[i]
         /\ \A b \in Books : /\ book'[b].state = book[b].state
                             /\ book'[b].author = book[b].author
                             /\ book'[b].rating =
                                  IF b = req[s].book THEN req[s].mean ELSE book[b].rating
<1>1. Took(s, "idle", NoRequest) /\ UNCHANGED <<author, category, calls, overlapped>>
  BY DoneMoves DEF Typed, Rate, Done
<1>2. Asked(pc[s], req[s]) /\ pc[s] = "rate" /\ RowsTyped
  BY RowsAreTyped DEF Typed, Rate
<1>3. \A i \in ReviewIds : review'[i] = IF i = req[s].id THEN Row(s) ELSE review[i]
  BY <1>2 DEF Rate, Sees, RowsTyped
<1>4. \A b \in Books : book[b] \in BookRow
  BY <1>2 DEF RowsTyped
<1>5. \A b \in Books : /\ book'[b].state = book[b].state
                       /\ book'[b].author = book[b].author
                       /\ book'[b].rating =
                            IF b = req[s].book THEN req[s].mean ELSE book[b].rating
  BY <1>2, <1>4 DEF Rate, RowsTyped, BookRow
<1> QED
  BY <1>1, <1>2, <1>3, <1>5

LEMMA LockingRate ==
  ASSUME Typed, Locking, NEW s \in Slots, Rate(s)
  PROVE  Locking'
<1>1. /\ Took(s, "idle", NoRequest) /\ pc[s] = "rate" /\ Asked(pc[s], req[s])
      /\ UNCHANGED <<author, category>>
      /\ \A i \in ReviewIds : review'[i] = IF i = req[s].id THEN Row(s) ELSE review[i]
      /\ \A b \in Books : book'[b].state = book[b].state
  BY RateRows
<1>2. None \notin Books
  BY CatalogAssumption
<1>3. ASSUME NEW t \in Slots \ {s}
      PROVE  Referred(t)' /\ Pending(t)'
  <2>1. Kept(t) /\ Referred(t) /\ Exclusive(t, s) /\ Asked(pc[t], req[t])
    BY <1>1 DEF Took, Apart, Locking, Typed
  <2>2. RefersToAuthor(t, req[t].author) => AuthorExists(req[t].author)'
    BY <1>1, <2>1 DEF Kept, Referred, RefersToAuthor, AuthorExists
  <2>3. RefersToCategory(t, req[t].category) => req[t].category \in category'
    BY <1>1, <2>1 DEF Referred, RefersToCategory
  <2>4. WritesAuthor(t, req[t].old) =>
          AuthorExists(req[t].old)' /\ author'[req[t].old].books > 0
    BY <1>1, <2>1 DEF Kept, Referred, WritesAuthor, AuthorExists
  <2>5. WritesBook(t, req[t].book) => (BookExists(req[t].book)' <=> BookExists(req[t].book))
    BY <1>1, <2>1 DEF Kept, WritesBook, BookExists, Asked, Desk
  <2>6. ASSUME DeletesBook(t, req[t].book)
        PROVE  ReviewsOf(req[t].book)' \subseteq ReviewsOf(req[t].book)
    <3>1. req[t].book \in Books
      BY <2>1, <2>6 DEF DeletesBook, Asked
    <3>2. req[s].book # req[t].book
      BY <1>1, <2>1, <2>6, <3>1 DEF Exclusive, RefersToBook
    <3>3. Row(s).book # req[t].book
      BY <1>2, <3>1, <3>2 DEF Row, NoReview
    <3> QED
      BY <1>1, <2>1, <3>3 DEF Kept, ReviewsOf
  <2> QED
    BY <2>1, <2>2, <2>3, <2>4, <2>5, <2>6, LockingOther
<1> QED
  BY <1>1, <1>3, LockingUnlocked DEF Unlocked, Outside

LEMMA NextLocking ==
  ASSUME Typed, Locking, Reviewed1, [Next]_vars
  PROVE  Locking'
<1>1. ASSUME NEW s \in Slots, Step(s)
      PROVE  Locking'
  BY <1>1, StepKinds, LockingDeskRead, LockingReviewRead, LockingAuthorCommit,
     LockingBookCommit, LockingRate
<1>2. ASSUME NEW s \in Slots, Rollback(s)
      PROVE  Locking'
  <2>1. Took(s, "idle", NoRequest) /\ UNCHANGED tables
    BY <1>2, DoneMoves DEF Rollback, Typed
  <2> QED
    BY <2>1, LockingQuiet, LockingUnlocked DEF Unlocked, Outside, Took
<1>3. CASE UNCHANGED vars
  BY <1>3 DEF vars, tables, Locking, Referred, Pending, Exclusive, WritesBook, DeletesBook,
              RefersToBook, AuthorExists, BookExists, ReviewsOf
<1> QED
  BY <1>1, <1>2, <1>3, LockingCall DEF Next

-----------------------------------------------------------------------------
(* Reviews.                                                                *)

\* A step at the desk: the reviews and those who write them stay as they are.
DeskMove(s) ==
  /\ \E label, r :
       Took(s, label, r) /\ label \notin {"insertReview", "writeReview", "average", "rate"}
  /\ UNCHANGED review /\ calls' \in {calls, calls + 1}

\* What another transaction sees of the reviews, if nobody commits one.
LEMMA SeesKept ==
  ASSUME NEW t \in Slots, Kept(t), UNCHANGED review
  PROVE  Sees(t)' = Sees(t)
BY DEF Kept, Sees, Row

LEMMA ReviewsAtTheDesk ==
  ASSUME Typed, Reviewed1, Alone, MeanKnown, NEW s \in Slots, DeskMove(s)
  PROVE  Reviewed1' /\ Alone' /\ MeanKnown'
<1>1. ~Reviewing(s)' /\ \A t \in Slots \ {s} : Kept(t)
  BY DEF DeskMove, Took, Apart, Reviewing
<1>2. UNCHANGED review /\ calls \in Nat /\ calls' \in Nat /\ calls <= calls'
  BY CatalogBoundAssumption DEF DeskMove, Typed, TypeOK
<1>3. \A t \in Slots \ {s} : Owns(t)'
  <2> TAKE t \in Slots \ {s}
  <2>1. Kept(t) /\ Owns(t)
    BY <1>1 DEF Reviewed1
  <2>2. Reviewing(t) => req[t].id \in ReviewIds
    BY DEF Reviewing, Typed, Asked
  <2>3. ReviewIds \subseteq Nat
    BY CatalogBoundAssumption DEF ReviewIds
  <2>4. Reviewing(t) => req[t].id <= calls'
    <3>1. Reviewing(t) => req[t].id <= calls /\ req[t].id \in Nat
      BY <2>1, <2>2, <2>3 DEF Owns
    <3>2. \A x, y, z \in Nat : x <= y /\ y <= z => x <= z
      OBVIOUS
    <3> QED
      BY <1>2, <3>1, <3>2
  <2> QED
    BY <1>2, <2>1, <2>4 DEF Kept, Owns, Reviewing, Writing, Holds
<1>4. Owns(s)'
  BY <1>1 DEF Owns, Reviewing, Writing
<1>5. \A i \in ReviewIds : review'[i] # NoReview => i \in 1..calls'
  BY <1>2 DEF Reviewed1
<1>6. ASSUME NEW t \in Slots, NEW u \in Slots, t # u
      PROVE  Distinct(t, u)'
  <2>1. CASE t = s \/ u = s
    BY <1>1, <2>1 DEF Distinct, Reviewing, Writing
  <2>2. CASE t # s /\ u # s
    <3>1. Kept(t) /\ Kept(u) /\ Distinct(t, u)
      BY <1>1, <1>6, <2>2 DEF Reviewed1
    <3> QED
      BY <3>1 DEF Kept, Distinct, Reviewing, Writing
  <2> QED
    BY <2>1, <2>2
<1>7. OneReviewEach'
  BY <1>2 DEF Reviewed1, OneReviewEach
<1>8. Reviewed1'
  BY <1>3, <1>4, <1>5, <1>6, <1>7 DEF Reviewed1
<1>9. Alone'
  BY <1>1 DEF Alone, Kept, Reviewing
<1>10. MeanKnown'
  BY <1>1, <1>2, SeesKept DEF MeanKnown, Kept, Reviewing
<1> QED
  BY <1>8, <1>9, <1>10
LEMMA DeskSteps ==
  ASSUME Typed, NEW s \in Slots,
         \/ DeskRead(s) \/ AuthorCommit(s) \/ BookCommit(s) \/ Rollback(s)
         \/ PlainCall(s) \/ EditCall(s) \/ \E k \in Categories : CreateCategory(s, k)
  PROVE  DeskMove(s)
<1>1. CASE DeskRead(s)
  <2>1. UNCHANGED <<review, calls>>
    BY <1>1 DEF DeskRead, TrySlug, CountVisible, CountBooks, CountCategory, InsertBook, ReadBook,
                MoveBook, Decrement, ReadHistory, DropBook, Read, tables
  <2>2. ASSUME NEW label \in {"slug", "insertAuthor", "countBooks", "dropAuthor", "dropCategory",
                             "countUp", "moveBook", "decrement", "increment", "dropBook",
                             "countDown"},
               NEW r, Took(s, label, r)
        PROVE  DeskMove(s)
    BY <2>1, <2>2 DEF DeskMove
  <2>3. CASE TrySlug(s) \/ CountVisible(s) \/ CountBooks(s) \/ CountCategory(s)
    BY <2>2, <2>3, DeskReadsTook
  <2>4. CASE InsertBook(s) \/ ReadBook(s) \/ (MoveBook(s) /\ req[s].author # req[s].old)
    BY <2>2, <2>4, DeskReadsTook
  <2>5. CASE Decrement(s) \/ ReadHistory(s) \/ DropBook(s)
    BY <2>2, <2>5, DeskReadsTook
  <2> QED
    BY <1>1, <2>3, <2>4, <2>5 DEF DeskRead
<1>2. CASE AuthorCommit(s) \/ BookCommit(s) \/ Rollback(s)
  <2>1. Done(s) /\ UNCHANGED review
    BY <1>2 DEF AuthorCommit, InsertAuthor, DropAuthor, DropCategory, BookCommit, CountUp,
                MoveBook, Increment, CountDown, Rollback, tables
  <2>2. Took(s, "idle", NoRequest) /\ UNCHANGED calls
    BY <2>1, DoneMoves DEF Typed
  <2> QED
    BY <2>1, <2>2 DEF DeskMove
<1>3. CASE PlainCall(s) \/ EditCall(s)
  BY <1>3 DEF PlainCall, EditCall, Called, tables, DeskMove, Outside
<1>4. ASSUME NEW k \in Categories, CreateCategory(s, k)
      PROVE  DeskMove(s)
  <2>1. Took(s, "idle", req[s])
    BY <1>4 DEF CreateCategory, Admit, Took, Apart, Kept, Typed, TypeOK
  <2> QED
    BY <1>4, <2>1 DEF CreateCategory, Admit, DeskMove
<1> QED
  BY <1>1, <1>2, <1>3, <1>4

\* A review asked for is a new one, or it is the member's and the book's.
ReviewAsked(s) ==
  \E label \in {"insertReview", "writeReview"}, r \in Request :
    /\ Took(s, label, r) /\ Called /\ UNCHANGED overlapped
    /\ r.id \in ReviewIds
    /\ \/ r.id = calls + 1
       \/ review[r.id] # NoReview /\ Holds(r.id, r.member, r.book)
    /\ r.alone => \A t \in Slots \ {s} : Reviewing(t) => req[t].book # r.book
    /\ \A t \in Slots \ {s} : Reviewing(t) /\ req[t].book = r.book => ~req'[t].alone

LEMMA ReviewCalls ==
  ASSUME Typed, NEW s \in Slots,
         \/ \E m \in Members, b \in Books, r \in Ratings : CreateReview(s, m, b, r)
         \/ \E i \in ReviewIds, r \in Ratings \cup {0} : ChangeReview(s, i, r)
  PROVE  ReviewAsked(s)
<1>1. TypeOK /\ "insertReview" \in PCs /\ "writeReview" \in PCs /\ calls \in 0..MaxCalls
  BY DEF Typed, TypeOK, PCs
<1>2. ASSUME NEW b \in Books, NEW label \in {"insertReview", "writeReview"},
             NEW entry \in Request, BeginReview(s, b, label, entry), entry.id \in ReviewIds,
             entry.id = calls + 1
               \/ (review[entry.id] # NoReview /\ Holds(entry.id, entry.member, b))
      PROVE  ReviewAsked(s)
  <2>1. PICK r : r = [entry EXCEPT !.book = b, !.alone = req'[s].alone]
    OBVIOUS
  <2>2. /\ Took(s, label, r)
        /\ req'[s].alone => \A t \in Slots \ {s} : Reviewing(t) => req[t].book # b
        /\ \A t \in Slots \ {s} : Reviewing(t) /\ req[t].book = b => ~req'[t].alone
        /\ Called /\ UNCHANGED overlapped
    BY <1>1, <1>2, <2>1, BeginReviewMoves
  <2>3. r \in Request /\ req'[s] = r
    BY <2>2 DEF Took
  <2>4. r.id = entry.id /\ r.member = entry.member /\ r.book = b
    BY <2>1 DEF Request
  <2> QED
    BY <1>2, <2>2, <2>3, <2>4 DEF ReviewAsked
<1>3. ASSUME NEW m \in Members, NEW b \in Books, NEW r \in Ratings, CreateReview(s, m, b, r)
      PROVE  ReviewAsked(s)
  <2> DEFINE entry == [NoRequest EXCEPT !.member = m, !.rating = r, !.id = calls + 1]
  <2>1. calls < MaxCalls
    BY <1>3 DEF CreateReview, BeginReview, Admit
  <2>2. calls + 1 \in ReviewIds
    BY <1>1, <2>1, CatalogBoundAssumption DEF ReviewIds
  <2>3. entry \in Request /\ entry.id = calls + 1
    BY <2>2, NoRequestTyped DEF Request
  <2>4. BeginReview(s, b, "insertReview", entry)
    BY <1>3 DEF CreateReview
  <2> HIDE DEF entry
  <2> QED
    BY <1>2, <2>2, <2>3, <2>4
<1>4. ASSUME NEW i \in ReviewIds, NEW r \in Ratings \cup {0}, ChangeReview(s, i, r)
      PROVE  ReviewAsked(s)
  <2> DEFINE entry == [NoRequest EXCEPT !.member = review[i].member, !.id = i, !.rating = r]
  <2>1. review[i] # NoReview /\ BeginReview(s, review[i].book, "writeReview", entry)
    BY <1>4 DEF ChangeReview
  <2>2. review[i].member \in Members /\ review[i].book \in Books
    BY <2>1 DEF RowOK, Typed
  <2>3. entry \in Request /\ entry.id = i /\ entry.member = review[i].member
    BY <2>2, NoRequestTyped DEF Request
  <2>4. Holds(i, review[i].member, review[i].book)
    BY DEF Holds
  <2> HIDE DEF entry
  <2> QED
    BY <1>2, <2>1, <2>2, <2>3, <2>4
<1> QED
  BY <1>3, <1>4

LEMMA ReviewsAsked ==
  ASSUME Typed, Reviewed1, Alone, MeanKnown, NEW s \in Slots, ReviewAsked(s)
  PROVE  Reviewed1' /\ Alone' /\ MeanKnown'
<1>1. PICK label \in {"insertReview", "writeReview"}, r \in Request :
        /\ Took(s, label, r) /\ Called
        /\ r.id \in ReviewIds
        /\ \/ r.id = calls + 1
           \/ review[r.id] # NoReview /\ Holds(r.id, r.member, r.book)
        /\ r.alone => \A t \in Slots \ {s} : Reviewing(t) => req[t].book # r.book
        /\ \A t \in Slots \ {s} : Reviewing(t) /\ req[t].book = r.book => ~req'[t].alone
  BY DEF ReviewAsked
<1>2. /\ pc'[s] = label /\ req'[s] = r /\ \A t \in Slots \ {s} : Kept(t)
      /\ UNCHANGED review /\ calls' = calls + 1
  BY <1>1 DEF Took, Apart, Called, tables
<1>3. Reviewing(s)' /\ ~Writing(s)' /\ pc'[s] # "rate"
  BY <1>2 DEF Reviewing, Writing
<1>4. calls \in Nat /\ ReviewIds \subseteq Nat \ {0}
  BY CatalogBoundAssumption DEF Typed, TypeOK, ReviewIds
<1>5. \A t \in Slots : Reviewing(t) => req[t].id \in ReviewIds /\ req[t].id <= calls
  BY DEF Reviewing, Typed, Asked, Reviewed1, Owns
<1>6. \A x \in Nat \ {0} : /\ x <= calls => x # calls + 1 /\ x <= calls'
                           /\ x <= calls <=> x \in 1..calls
  BY <1>2, <1>4
<1>7. \A i \in ReviewIds : review[i] # NoReview => i <= calls /\ i # calls + 1
  BY <1>4, <1>6 DEF Reviewed1
<1>8. calls + 1 <= calls' /\ \A x \in Nat \ {0} : x <= calls => x \in 1..calls'
  BY <1>2, <1>4
<1>9. r.id <= calls'
  BY <1>1, <1>4, <1>6, <1>7, <1>8
<1>10. Owns(s)'
  BY <1>1, <1>2, <1>3, <1>7, <1>9 DEF Owns, Holds
<1>11. ASSUME NEW t \in Slots \ {s}
       PROVE  Owns(t)' /\ Distinct(s, t)' /\ Distinct(t, s)'
  <2>1. Kept(t) /\ Owns(t)
    BY <1>2 DEF Reviewed1
  <2>2. Reviewing(t) => req[t].id <= calls'
    BY <1>4, <1>5, <1>6
  <2>3. Owns(t)'
    BY <1>2, <2>1, <2>2 DEF Kept, Owns, Reviewing, Writing, Holds
  <2>4. Reviewing(t) /\ req[t].id = r.id => req[t].member = r.member /\ req[t].book = r.book
    BY <1>1, <1>4, <1>5, <1>6, <2>1 DEF Owns, Holds
  <2> QED
    BY <1>2, <1>3, <2>1, <2>3, <2>4 DEF Kept, Distinct, Reviewing
<1>12. ASSUME NEW t \in Slots, NEW u \in Slots, t # u
       PROVE  Distinct(t, u)'
  <2>1. CASE t # s /\ u # s
    <3>1. Kept(t) /\ Kept(u) /\ Distinct(t, u)
      BY <1>2, <1>12, <2>1 DEF Reviewed1
    <3> QED
      BY <3>1 DEF Kept, Distinct, Reviewing, Writing
  <2> QED
    BY <1>11, <1>12, <2>1
<1>13. \A i \in ReviewIds : review'[i] # NoReview => i \in 1..calls'
  BY <1>2, <1>4, <1>7, <1>8
<1>14. OneReviewEach'
  BY <1>2 DEF Reviewed1, OneReviewEach
<1>15. Reviewed1'
  BY <1>10, <1>11, <1>12, <1>13, <1>14 DEF Reviewed1
<1>16. Alone'
  BY <1>1, <1>2 DEF Alone, Kept, Reviewing
<1>17. MeanKnown'
  BY <1>2, <1>3, SeesKept DEF MeanKnown, Kept
<1> QED
  BY <1>15, <1>16, <1>17
\* A review is written by one transaction at a time, and one of a member for a book.
LEMMA ReviewsRead ==
  ASSUME Typed, Reviewed1, Alone, MeanKnown, NEW s \in Slots, ReviewRead(s)
  PROVE  Reviewed1' /\ Alone' /\ MeanKnown'
<1>1. Asked(pc[s], req[s]) /\ req[s] \in Request /\ Owns(s) /\ Reviewing(s)
  BY DEF Typed, TypeOK, Reviewed1, ReviewRead, InsertReview, WriteReview, Average, Reviewing
<1>2. UNCHANGED <<review, calls>>
  BY DEF ReviewRead, InsertReview, WriteReview, Average, Read, tables
<1>3. PICK label \in {"average", "rate"}, r \in Request :
        /\ Took(s, label, r)
        /\ r.book = req[s].book /\ r.member = req[s].member /\ r.id = req[s].id
        /\ r.rating = req[s].rating /\ r.alone = req[s].alone
        /\ label = "rate" => r.mean = Averaged(s)
  <2> DEFINE x == [req[s] EXCEPT !.mean = Averaged(s)]
  <2>1. /\ x \in Request /\ x.mean = Averaged(s)
        /\ x.book = req[s].book /\ x.member = req[s].member /\ x.id = req[s].id
        /\ x.rating = req[s].rating /\ x.alone = req[s].alone
    BY <1>1, MeanTyped DEF Request, Averaged
  <2>2. Took(s, "average", req[s]) \/ Took(s, "rate", x)
    BY ReviewReadsTook DEF ReviewRead
  <2> HIDE DEF x
  <2> QED
    BY <1>1, <2>1, <2>2
<1>4. /\ pc'[s] = label /\ req'[s] = r /\ \A t \in Slots \ {s} : Kept(t)
      /\ Writing(s)' /\ Reviewing(s)'
  BY <1>3 DEF Took, Apart, Writing, Reviewing
<1>5. \A i \in ReviewIds \ {r.id} : ~Holds(i, r.member, r.book)
  <2>1. CASE InsertReview(s)
    BY <1>3, <2>1 DEF InsertReview, OnePerMember, Reviewed, ReviewsOf, Holds
  <2>2. CASE WriteReview(s)
    <3>1. review[r.id] # NoReview /\ Holds(r.id, r.member, r.book) /\ r.id \in ReviewIds
      BY <1>1, <1>3, <2>2 DEF WriteReview, Owns, Asked
    <3> QED
      BY <3>1 DEF Holds, Reviewed1, OneReviewEach
  <2>3. CASE Average(s)
    BY <1>1, <1>3, <2>3 DEF Average, Owns, Writing
  <2> QED
    BY <2>1, <2>2, <2>3 DEF ReviewRead
<1>6. ASSUME NEW t \in Slots \ {s}, Writing(t)
      PROVE  ~(req[t].member = r.member /\ req[t].book = r.book)
  <2>1. CASE InsertReview(s)
    BY <1>3, <1>6, <2>1 DEF InsertReview, OnePerMember
  <2>2. CASE WriteReview(s)
    <3>1. review[r.id] # NoReview /\ Holds(r.id, r.member, r.book) /\ r.id \in ReviewIds
      BY <1>1, <1>3, <2>2 DEF WriteReview, Owns, Asked
    <3>2. req[t].id # r.id
      BY <1>3, <1>6, <2>2 DEF WriteReview
    <3>3. Owns(t)
      BY DEF Reviewed1
    <3> QED
      BY <1>6, <3>1, <3>2, <3>3 DEF Owns
  <2>3. CASE Average(s)
    <3>1. Distinct(s, t) /\ Writing(s)
      BY <2>3 DEF Reviewed1, Average, Writing
    <3> QED
      BY <1>3, <1>6, <3>1 DEF Distinct
  <2> QED
    BY <2>1, <2>2, <2>3 DEF ReviewRead
<1>7. Owns(s)'
  BY <1>1, <1>2, <1>3, <1>4, <1>5 DEF Owns, Holds
<1>8. ASSUME NEW t \in Slots \ {s}
      PROVE  Owns(t)' /\ Distinct(s, t)' /\ Distinct(t, s)'
  <2>1. Kept(t) /\ Owns(t) /\ Distinct(s, t)
    BY <1>4 DEF Reviewed1
  <2> QED
    BY <1>1, <1>2, <1>3, <1>4, <1>6, <2>1 DEF Kept, Owns, Distinct, Reviewing, Writing, Holds
<1>9. ASSUME NEW t \in Slots, NEW u \in Slots, t # u
      PROVE  Distinct(t, u)'
  <2>1. CASE t # s /\ u # s
    <3>1. Kept(t) /\ Kept(u) /\ Distinct(t, u)
      BY <1>4, <1>9, <2>1 DEF Reviewed1
    <3> QED
      BY <3>1 DEF Kept, Distinct, Reviewing, Writing
  <2> QED
    BY <1>8, <1>9, <2>1
<1>10. Reviewed1'
  <2>1. OneReviewEach' /\ \A i \in ReviewIds : review'[i] # NoReview => i \in 1..calls'
    BY <1>2 DEF Reviewed1, OneReviewEach
  <2> QED
    BY <1>7, <1>8, <1>9, <2>1 DEF Reviewed1
<1>11. Alone'
  BY <1>1, <1>3, <1>4 DEF Alone, Kept, Reviewing
<1>12. MeanKnown'
  <2>1. pc'[s] = "rate" => req'[s].mean = MeanOf(Sees(s)', req'[s].book)
    <3>1. Sees(s)' = Sees(s)
      BY <1>2, <1>3, <1>4 DEF Sees, Row
    <3> QED
      BY <1>3, <1>4, <3>1 DEF Averaged
  <2>2. ASSUME NEW t \in Slots \ {s}, pc'[t] = "rate", req'[t].alone
        PROVE  req'[t].mean = MeanOf(Sees(t)', req'[t].book)
    <3>1. Kept(t) /\ Sees(t)' = Sees(t)
      BY <1>2, <1>4, SeesKept
    <3> QED
      BY <2>2, <3>1 DEF MeanKnown, Kept
  <2> QED
    BY <2>1, <2>2 DEF MeanKnown
<1> QED
  BY <1>10, <1>11, <1>12

\* The mean depends on the rows of the book alone.
LEMMA MeanAgrees ==
  ASSUME NEW T, NEW U, NEW b,
         \A i \in ReviewIds : T[i].book = b <=> U[i].book = b,
         \A i \in ReviewIds : T[i].book = b => T[i].rating = U[i].rating
  PROVE  MeanOf(T, b) = MeanOf(U, b)
<1> DEFINE rowsT == {i \in ReviewIds : T[i].book = b}
           rowsU == {i \in ReviewIds : U[i].book = b}
           pointsT == {x \in rowsT \X (1..5) : x[2] <= T[x[1]].rating}
           pointsU == {x \in rowsU \X (1..5) : x[2] <= U[x[1]].rating}
<1>1. rowsT = rowsU
  OBVIOUS
<1>2. \A i \in rowsT : T[i].rating = U[i].rating
  OBVIOUS
<1>3. pointsT = pointsU
  <2> HIDE DEF rowsT, rowsU
  <2> QED
    BY <1>1, <1>2
<1> QED
  BY <1>1, <1>3 DEF MeanOf

\* Where a transaction at its commit writes: a row of its member and its book, or none.
LEMMA RateOwns ==
  ASSUME Typed, Reviewed1, NEW s \in Slots, Rate(s)
  PROVE  /\ Writing(s) /\ Reviewing(s) /\ Owns(s)
         /\ req[s].id \in ReviewIds /\ req[s].id <= calls
         /\ \/ Row(s) = NoReview
            \/ Row(s).member = req[s].member /\ Row(s).book = req[s].book
         /\ review[req[s].id] # NoReview => review[req[s].id].book = req[s].book
<1>1. Asked(pc[s], req[s]) /\ pc[s] = "rate" /\ Owns(s)
  BY DEF Typed, Reviewed1, Rate
<1> QED
  BY <1>1 DEF Asked, Owns, Writing, Reviewing, Row, Holds

LEMMA ReviewsRated ==
  ASSUME Typed, Reviewed1, Alone, MeanKnown, NEW s \in Slots, Rate(s)
  PROVE  Reviewed1' /\ Alone' /\ MeanKnown'
<1> DEFINE i == req[s].id
           m == req[s].member
           b == req[s].book
<1>1. /\ pc'[s] = "idle" /\ \A t \in Slots \ {s} : Kept(t)
      /\ UNCHANGED calls
      /\ \A j \in ReviewIds : review'[j] = IF j = i THEN Row(s) ELSE review[j]
  BY RateRows DEF Took, Apart
<1>2. /\ Writing(s) /\ Reviewing(s) /\ Owns(s) /\ i \in ReviewIds /\ i <= calls
      /\ Row(s) = NoReview \/ (Row(s).member = m /\ Row(s).book = b)
      /\ review[i] # NoReview => review[i].book = b
  BY RateOwns
<1>3. ~Writing(s)' /\ ~Reviewing(s)' /\ pc'[s] # "rate"
  BY <1>1 DEF Writing, Reviewing
<1>4. None \notin Members /\ None \notin Books
  BY CatalogAssumption
<1>5. \A t \in Slots : Reviewing(t) => req[t].member \in Members /\ req[t].book \in Books
                                       /\ req[t].id \in ReviewIds
  BY DEF Typed, Asked, Reviewing
<1>6. i \in 1..calls
  BY <1>2, CatalogBoundAssumption DEF ReviewIds, Typed, TypeOK
<1>7. \A j \in ReviewIds \ {i} : ~Holds(j, m, b)
  BY <1>2 DEF Owns
<1> HIDE DEF i, m, b
<1>8. \A j \in ReviewIds : review'[j] # NoReview => j \in 1..calls'
  BY <1>1, <1>2, <1>6 DEF Reviewed1
<1>9. OneReviewEach'
  <2> SUFFICES ASSUME NEW j \in ReviewIds, NEW k \in ReviewIds, review'[j] # NoReview,
                      review'[j].member = review'[k].member,
                      review'[j].book = review'[k].book, j # k
               PROVE  FALSE
    BY DEF OneReviewEach
  <2>1. CASE j = i
    <3>1. Holds(k, m, b)
      BY <1>1, <1>2, <2>1 DEF Holds
    <3> QED
      BY <1>7, <2>1, <3>1
  <2>2. CASE k = i
    <3>1. review[j] # NoReview /\ review'[j] = review[j]
      BY <1>1, <2>2
    <3>2. review[j].member \in Members
      BY <3>1 DEF Typed, RowOK
    <3>3. Row(s) # NoReview
      BY <1>1, <1>2, <1>4, <2>2, <3>1, <3>2 DEF NoReview
    <3>4. Holds(j, m, b)
      BY <1>1, <1>2, <2>2, <3>1, <3>3 DEF Holds
    <3> QED
      BY <1>7, <2>2, <3>4
  <2>3. CASE j # i /\ k # i
    BY <1>1, <2>3 DEF Reviewed1, OneReviewEach
  <2> QED
    BY <2>1, <2>2, <2>3
<1>10. ASSUME NEW t \in Slots \ {s}
       PROVE  Owns(t)'
  <2>1. Kept(t) /\ Owns(t) /\ Distinct(t, s)
    BY <1>1 DEF Reviewed1
  <2>2. Reviewing(t) => req[t].id <= calls'
    BY <1>1, <2>1 DEF Owns
  <2>3. ASSUME Reviewing(t), review'[req[t].id] # NoReview
        PROVE  review'[req[t].id].member = req[t].member /\ review'[req[t].id].book = req[t].book
    <3>1. CASE req[t].id = i
      BY <1>1, <1>2, <1>5, <2>1, <2>3, <3>1 DEF Distinct, i, m, b
    <3>2. CASE req[t].id # i
      BY <1>1, <1>5, <2>1, <2>3, <3>2 DEF Owns, Holds
    <3> QED
      BY <3>1, <3>2
  <2>4. ASSUME Writing(t), NEW j \in ReviewIds \ {req[t].id},
               review'[j].member = req[t].member, review'[j].book = req[t].book
        PROVE  FALSE
    <3>1. Reviewing(t)
      BY <2>4 DEF Writing, Reviewing
    <3>2. CASE j = i
      <4>1. Row(s) # NoReview
        BY <1>1, <1>4, <1>5, <2>4, <3>1, <3>2 DEF NoReview
      <4> QED
        BY <1>1, <1>2, <2>1, <2>4, <3>2, <4>1 DEF Distinct, m, b
    <3>3. CASE j # i
      BY <1>1, <2>1, <2>4, <3>3 DEF Owns, Holds
    <3> QED
      BY <3>2, <3>3
  <2> QED
    BY <2>1, <2>2, <2>3, <2>4 DEF Kept, Owns, Reviewing, Writing, Holds
<1>11. ASSUME NEW t \in Slots, NEW u \in Slots, t # u
       PROVE  Distinct(t, u)'
  <2>1. CASE t # s /\ u # s
    <3>1. Kept(t) /\ Kept(u) /\ Distinct(t, u)
      BY <1>1, <1>11, <2>1 DEF Reviewed1
    <3> QED
      BY <3>1 DEF Kept, Distinct, Reviewing, Writing
  <2>2. CASE t = s \/ u = s
    BY <1>3, <2>2 DEF Distinct
  <2> QED
    BY <2>1, <2>2
<1>12. Reviewed1'
  <2>1. Owns(s)'
    BY <1>3 DEF Owns
  <2> QED
    BY <1>8, <1>9, <1>10, <1>11, <2>1 DEF Reviewed1
<1>13. Alone'
  BY <1>1, <1>3 DEF Alone, Kept, Reviewing
<1>14. ASSUME NEW t \in Slots \ {s}, pc'[t] = "rate", req'[t].alone
       PROVE  req'[t].mean = MeanOf(Sees(t)', req'[t].book)
  <2>1. Kept(t) /\ Distinct(t, s) /\ pc[t] = "rate" /\ req[t].alone
    BY <1>1, <1>14 DEF Reviewed1, Kept
  <2>2. Reviewing(t) /\ req[t].book # b /\ req[t].book \in Books /\ req[t].id \in ReviewIds
    BY <1>2, <1>5, <2>1 DEF Alone, Reviewing, b
  <2>3. req[t].id # i
    BY <1>2, <2>1, <2>2 DEF Distinct, i, b
  <2>4. review \in [ReviewIds -> ReviewRow] /\ review' \in [ReviewIds -> ReviewRow]
    BY RateTyped DEF Typed, TypeOK
  <2>5. Row(t)' = Row(t)
    BY <2>1 DEF Row, Kept
  <2>6. \A j \in ReviewIds : Sees(t)'[j] = IF j = req[t].id THEN Row(t) ELSE review'[j]
    BY <2>1, <2>4, <2>5 DEF Sees, Kept
  <2>7. \A j \in ReviewIds : Sees(t)[j] = IF j = req[t].id THEN Row(t) ELSE review[j]
    BY <2>4 DEF Sees
  <2>8. review[i].book # req[t].book /\ review'[i].book # req[t].book
    BY <1>1, <1>2, <1>4, <2>2 DEF NoReview
  <2>9. \A j \in ReviewIds : j # i => Sees(t)'[j] = Sees(t)[j]
    BY <1>1, <2>6, <2>7
  <2>10. Sees(t)'[i].book # req[t].book /\ Sees(t)[i].book # req[t].book
    BY <1>2, <2>3, <2>6, <2>7, <2>8
  <2>11. MeanOf(Sees(t)', req[t].book) = MeanOf(Sees(t), req[t].book)
    <3>1. PICK T, U : T = Sees(t)' /\ U = Sees(t)
      OBVIOUS
    <3> QED
      BY <2>9, <2>10, <3>1, MeanAgrees
  <2> QED
    BY <2>1, <2>11 DEF MeanKnown, Kept
<1>15. MeanKnown'
  BY <1>3, <1>14 DEF MeanKnown
<1> QED
  BY <1>12, <1>13, <1>15
LEMMA NextReviewed ==
  ASSUME Typed, Reviewed1, Alone, MeanKnown, [Next]_vars
  PROVE  Reviewed1' /\ Alone' /\ MeanKnown'
<1>1. ASSUME NEW s \in Slots, Call(s)
      PROVE  Reviewed1' /\ Alone' /\ MeanKnown'
  BY <1>1, CallKinds, DeskSteps, ReviewsAtTheDesk, ReviewCalls, ReviewsAsked
<1>2. ASSUME NEW s \in Slots, Step(s)
      PROVE  Reviewed1' /\ Alone' /\ MeanKnown'
  BY <1>2, StepKinds, DeskSteps, ReviewsAtTheDesk, ReviewsRead, ReviewsRated
<1>3. ASSUME NEW s \in Slots, Rollback(s)
      PROVE  Reviewed1' /\ Alone' /\ MeanKnown'
  BY <1>3, DeskSteps, ReviewsAtTheDesk
<1>4. CASE UNCHANGED vars
  <2>1. UNCHANGED <<review, pc, req, calls>>
    BY <1>4 DEF vars, tables
  <2>2. \A t \in Slots : Kept(t)
    BY <2>1 DEF Kept
  <2>3. Reviewed1'
    BY <2>1 DEF Reviewed1, Owns, Distinct, OneReviewEach, Holds, Reviewing, Writing
  <2>4. Alone'
    BY <2>1 DEF Alone, Reviewing
  <2>5. MeanKnown'
    BY <2>1, <2>2, SeesKept DEF MeanKnown
  <2> QED
    BY <2>3, <2>4, <2>5
<1> QED
  BY <1>1, <1>2, <1>3, <1>4 DEF Next

-----------------------------------------------------------------------------
(* Ratings.                                                                *)

\* A statement that leaves the rows of books and reviews alone.
LEMMA RatingsKept ==
  ASSUME RatingSettles, UNCHANGED <<book, review, stale>>
  PROVE  RatingSettles'
<1> SUFFICES ASSUME NEW b \in Books, BookExists(b)', b \notin stale'
             PROVE  SameMean(book'[b].rating, MeanOf(review', b))
  BY DEF RatingSettles
<1>1. BookExists(b) /\ b \notin stale
  BY DEF BookExists
<1>2. SameMean(book[b].rating, MeanOf(review, b))
  BY <1>1 DEF RatingSettles
<1> QED
  BY <1>2

\* A book with no reviews has no rating; an update by hand sets it aside.
LEMMA RatingsOfBooks ==
  ASSUME Typed, Locking, RatingSettles, NEW s \in Slots, BookCommit(s)
  PROVE  RatingSettles'
<1>1. RowsTyped /\ UNCHANGED review /\ req[s].book \in Books
      /\ (\A c \in Books \ {req[s].book} : book'[c] = book[c]) /\ Pending(s)
  BY RowsAreTyped, BookCommitRows DEF Locking
<1>2. PICK b \in Books : b = req[s].book
  BY <1>1
<1>3. \A c \in Books \ {b} : c \in stale' <=> c \in stale
  BY <1>2 DEF BookCommit, CountUp, MoveBook, Increment, CountDown, HandRated
<1>4. ASSUME BookExists(b)', b \notin stale'
      PROVE  SameMean(book'[b].rating, MeanOf(review, b))
  <2>1. CASE CountUp(s)
    <3>1. ~BookExists(b) /\ ReviewsOf(b) = {}
      <4>1. ~BookExists(b)
        BY <1>1, <1>2, <2>1 DEF CountUp, Pending
      <4>2. ASSUME NEW i \in ReviewsOf(b)
            PROVE  FALSE
        <5>1. review[i] # NoReview
          BY <1>2, CatalogAssumption DEF ReviewsOf, NoReview
        <5> QED
          BY <1>1, <4>1, <5>1 DEF ReviewsOf, RowsTyped
      <4> QED
        BY <4>1, <4>2
    <3>2. MeanOf(review, b) = Unrated
      BY <3>1 DEF MeanOf, ReviewsOf
    <3>3. req[s].rating = 0
      BY <1>2, <1>4, <2>1 DEF CountUp, HandRated
    <3>4. book'[b].rating = Unrated
      BY <1>1, <1>2, <2>1, <3>3 DEF CountUp, RowsTyped, Given
    <3> QED
      BY <3>2, <3>4 DEF SameMean
  <2>2. CASE (MoveBook(s) /\ req[s].author = req[s].old) \/ Increment(s)
    <3>1. book' = [book EXCEPT ![b] = Updated(s, b)] /\ HandRated(s)
      BY <1>2, <2>2 DEF MoveBook, Increment
    <3>2. req[s].rating = 0 /\ b \notin stale
      BY <1>2, <1>4, <3>1 DEF HandRated
    <3>3. Updated(s, b).rating = book[b].rating /\ Updated(s, b).state = book[b].state
      BY <1>1, <3>2 DEF Updated, RowsTyped, BookRow
    <3>4. book'[b].rating = book[b].rating /\ BookExists(b)
      BY <1>1, <1>4, <3>1, <3>3 DEF RowsTyped, BookExists
    <3> QED
      BY <3>2, <3>4 DEF RatingSettles
  <2>3. CASE CountDown(s)
    <3> DEFINE x == IF req[s].found THEN [book[b] EXCEPT !.state = "ARCHIVED"] ELSE NoBook(b)
    <3>1. book' = [book EXCEPT ![b] = x] /\ pc[s] = "countDown"
          /\ stale' = IF req[s].found THEN stale ELSE stale \ {b}
      BY <1>2, <2>3 DEF CountDown
    <3>2. book'[b] = x
      BY <1>1, <3>1 DEF RowsTyped
    <3>3. req[s].found
      BY <1>4, <3>2 DEF NoBook, BookExists
    <3>4. book'[b].rating = book[b].rating /\ b \notin stale /\ BookExists(b)
      BY <1>1, <1>2, <1>4, <3>1, <3>2, <3>3 DEF RowsTyped, BookRow, Pending
    <3> QED
      BY <3>4 DEF RatingSettles
  <2> QED
    BY <2>1, <2>2, <2>3 DEF BookCommit
<1>5. ASSUME NEW c \in Books, c # b, BookExists(c)', c \notin stale'
      PROVE  SameMean(book'[c].rating, MeanOf(review, c))
  <2>1. book'[c] = book[c] /\ c \notin stale
    BY <1>1, <1>2, <1>3, <1>5
  <2>2. BookExists(c)
    BY <1>5, <2>1 DEF BookExists
  <2> QED
    BY <2>1, <2>2 DEF RatingSettles
<1>6. SameMean(book'[b].rating, MeanOf(review', b)) \/ ~BookExists(b)' \/ b \in stale'
  BY <1>1, <1>4
<1>7. \A c \in Books :
        SameMean(book'[c].rating, MeanOf(review', c)) \/ ~BookExists(c)' \/ c \in stale'
  BY <1>1, <1>5, <1>6
<1> QED
  BY <1>7 DEF RatingSettles

\* A review alone with its book leaves the mean of the table it commits.
LEMMA RatingsRated ==
  ASSUME Typed, Reviewed1, MeanKnown, RatingSettles, NEW s \in Slots, Rate(s)
  PROVE  RatingSettles'
<1>1. /\ \A i \in ReviewIds : review'[i] = IF i = req[s].id THEN Row(s) ELSE review[i]
      /\ \A c \in Books : /\ book'[c].state = book[c].state
                          /\ book'[c].rating =
                               IF c = req[s].book THEN req[s].mean ELSE book[c].rating
  BY RateRows
<1>2. /\ req[s].id \in ReviewIds
      /\ Row(s) = NoReview \/ Row(s).book = req[s].book
      /\ review[req[s].id] # NoReview => review[req[s].id].book = req[s].book
  BY RateOwns
<1>3. None \notin Books
  BY CatalogAssumption
<1>4. /\ review' = Sees(s) /\ pc[s] = "rate"
      /\ stale' = IF req[s].alone THEN stale \ {req[s].book} ELSE stale \cup {req[s].book}
  BY DEF Rate
<1>5. ASSUME NEW c \in Books, BookExists(c)', c \notin stale'
      PROVE  SameMean(book'[c].rating, MeanOf(review', c))
  <2>1. CASE c = req[s].book
    <3>1. req[s].alone
      BY <1>4, <1>5, <2>1
    <3>2. book'[c].rating = MeanOf(review', c)
      BY <1>1, <1>4, <2>1, <3>1 DEF MeanKnown
    <3> QED
      BY <3>2 DEF SameMean
  <2>2. CASE c # req[s].book
    <3>1. BookExists(c) /\ c \notin stale /\ book'[c].rating = book[c].rating
      BY <1>1, <1>4, <1>5, <2>2 DEF BookExists
    <3>2. review[req[s].id].book # c /\ review'[req[s].id].book # c
      BY <1>1, <1>2, <1>3, <2>2 DEF NoReview
    <3>3. MeanOf(review', c) = MeanOf(review, c)
      <4>1. PICK T, U : T = review' /\ U = review
        OBVIOUS
      <4> QED
        BY <1>1, <3>2, <4>1, MeanAgrees
    <3> QED
      BY <3>1, <3>3 DEF RatingSettles
  <2> QED
    BY <2>1, <2>2
<1> QED
  BY <1>5 DEF RatingSettles

LEMMA NextRated ==
  ASSUME Typed, Locking, Reviewed1, MeanKnown, RatingSettles, [Next]_vars
  PROVE  RatingSettles'
<1>1. ASSUME NEW s \in Slots, Call(s)
      PROVE  RatingSettles'
  <2>1. UNCHANGED <<book, review, stale>>
    BY <1>1, CallKinds, ReviewCalls
    DEF PlainCall, EditCall, ReviewAsked, Called, CreateCategory, tables
  <2> QED
    BY <2>1, RatingsKept
<1>2. ASSUME NEW s \in Slots, DeskRead(s) \/ ReviewRead(s) \/ AuthorCommit(s) \/ Rollback(s)
      PROVE  RatingSettles'
  <2>1. UNCHANGED <<book, review, stale>>
    BY <1>2 DEF DeskRead, TrySlug, CountVisible, CountBooks, CountCategory, InsertBook, ReadBook,
                MoveBook, Decrement, ReadHistory, DropBook, ReviewRead, InsertReview, WriteReview,
                Average, AuthorCommit, InsertAuthor, DropAuthor, DropCategory, Rollback, Read,
                tables
  <2> QED
    BY <2>1, RatingsKept
<1>3. CASE UNCHANGED vars
  BY <1>3, RatingsKept DEF vars, tables
<1> QED
  BY <1>1, <1>2, <1>3, StepKinds, RatingsOfBooks, RatingsRated DEF Next
-----------------------------------------------------------------------------
(* Counters.                                                               *)

\* The statistics count the visible books that name the author.
VisibleOf(a) == {b \in Books : Visible(b) /\ book[b].author = a}

LEMMA StatisticCounts ==
  ASSUME NEW a
  PROVE  /\ AuthorStatistic(a) = Cardinality(VisibleOf(a)) /\ IsFiniteSet(VisibleOf(a))
         /\ AuthorStatistic(a)' = Cardinality(VisibleOf(a)') /\ IsFiniteSet(VisibleOf(a)')
<1>1. {b \in BooksOf(a) : Visible(b)} = VisibleOf(a)
  BY DEF BooksOf, Visible, BookExists, VisibleOf
<1>2. {b \in BooksOf(a) : Visible(b)}' = VisibleOf(a)'
  BY DEF BooksOf, Visible, BookExists, VisibleOf
<1>3. VisibleOf(a) \subseteq Books /\ VisibleOf(a)' \subseteq Books
  BY DEF VisibleOf
<1> QED
  BY <1>1, <1>2, <1>3, CatalogBoundAssumption, FS_Subset DEF AuthorStatistic

\* Editors of a book that the step of another slot leaves.
LEMMA UndisturbedOther ==
  ASSUME Typed, NEW s \in Slots, NEW t \in Slots \ {s}, Apart(s), Undisturbed(t),
         Editor(t) => /\ book'[req[t].book].state = book[req[t].book].state
                      /\ book'[req[t].book].author = book[req[t].book].author,
         Editor(s)' /\ Editor(t) => req'[s].book # req[t].book
  PROVE  Undisturbed(t)'
<1>1. \A u \in Slots \ {s} : Kept(u)
  BY DEF Apart
<1>2. Editor(t)' <=> Editor(t)
  BY <1>1 DEF Kept, Editor, Editing
<1>3. ASSUME NEW u \in Slots \ {t}, Editor(t)', Editor(u)'
      PROVE  req'[t].book # req'[u].book
  <2>1. CASE u = s
    BY <1>1, <1>2, <1>3, <2>1 DEF Kept
  <2>2. CASE u # s
    <3>1. Kept(t) /\ Kept(u)
      BY <1>1, <2>2
    <3>2. Editor(t) /\ Editor(u)
      BY <1>3, <3>1 DEF Kept, Editor, Editing
    <3> QED
      BY <3>1, <3>2 DEF Kept, Undisturbed
  <2> QED
    BY <2>1, <2>2
<1>4. Kept(t)
  BY <1>1
<1>5. Editing(t)' => Visible(req[t].book)'
  BY <1>4 DEF Kept, Undisturbed, Editing, Editor, Visible
<1>6. pc'[t] \in {"moveBook", "decrement", "increment", "countDown"} =>
        req'[t].old = book'[req'[t].book].author
  BY <1>4 DEF Kept, Undisturbed, Editing, Editor
<1> QED
  BY <1>3, <1>4, <1>5, <1>6 DEF Undisturbed, Kept, Visible
\* Then all books are counted as before, if authors and the rows of books are.
LEMMA CountedKept ==
  ASSUME BooksCounted, UNCHANGED overlapped,
         \A a \in Authors : author'[a].books = author[a].books,
         \A b \in Books : /\ book'[b].state = book[b].state
                          /\ book'[b].author = book[b].author
  PROVE  BooksCounted'
<1> SUFFICES ASSUME ~overlapped, NEW a \in Authors
             PROVE  author'[a].books = AuthorStatistic(a)'
  BY DEF BooksCounted
<1>1. VisibleOf(a)' = VisibleOf(a)
  BY DEF VisibleOf, Visible
<1>2. AuthorStatistic(a)' = AuthorStatistic(a)
  BY <1>1, StatisticCounts
<1> QED
  BY <1>2 DEF BooksCounted

\* A step of a request that edits no book.
LEMMA CountingOutside ==
  ASSUME Typed, Counting, NEW s \in Slots, Apart(s), ~Editor(s)', UNCHANGED overlapped,
         \A a \in Authors : author'[a].books = author[a].books,
         \A b \in Books : /\ book'[b].state = book[b].state
                          /\ book'[b].author = book[b].author
  PROVE  Counting'
<1>1. BooksCounted'
  BY CountedKept DEF Counting
<1>2. Crossing'
  BY DEF Counting, Crossing, Editor, Editing, Apart, Kept
<1>3. ASSUME ~overlapped'
      PROVE  \A t \in Slots : Undisturbed(t)'
  <2>1. Undisturbed(s)'
    BY DEF Undisturbed, Editor, Editing
  <2>2. \A t \in Slots \ {s} : Undisturbed(t)'
    <3> TAKE t \in Slots \ {s}
    <3>1. Editor(t) => req[t].book \in Books
      BY DEF Editor, Editing, Typed, Asked, Desk
    <3>2. Undisturbed(t)
      BY <1>3 DEF Counting
    <3> QED
      BY <3>1, <3>2, UndisturbedOther
  <2> QED
    BY <2>1, <2>2
<1> QED
  BY <1>1, <1>2, <1>3 DEF Counting

\* Where an edit of a book begins, or goes on, the tables stay.
LEMMA CountingEditor ==
  ASSUME Typed, Counting, NEW s \in Slots, NEW label \in PCs, NEW r, Took(s, label, r),
         UNCHANGED <<author, book>>, overlapped \in BOOLEAN, overlapped' \in BOOLEAN,
         overlapped => overlapped',
         label \in {"decrement", "increment"} => r.author # r.old,
         ~overlapped' => /\ \A u \in Slots \ {s} : Editor(u) => r.book # req[u].book
                         /\ label # "insertBook" /\ label # "countUp" => Visible(r.book)
                         /\ label \in {"moveBook", "decrement", "increment", "countDown"} =>
                              r.old = book[r.book].author
  PROVE  Counting'
<1>1. pc'[s] = label /\ req'[s] = r /\ Apart(s) /\ \A t \in Slots \ {s} : Kept(t)
  BY DEF Took, Apart
<1>2. BooksCounted'
  <2>1. CASE overlapped'
    BY <2>1 DEF BooksCounted
  <2>2. CASE ~overlapped'
    BY <2>2, CountedKept DEF Counting
  <2> QED
    BY <2>1, <2>2
<1>3. Crossing'
  BY <1>1 DEF Counting, Crossing, Kept
<1>4. ASSUME ~overlapped'
      PROVE  \A t \in Slots : Undisturbed(t)'
  <2>1. ASSUME NEW t \in Slots \ {s}
        PROVE  Undisturbed(t)'
    <3>1. Undisturbed(t)
      BY <1>4 DEF Counting
    <3> QED
      BY <1>1, <1>4, <3>1, UndisturbedOther
  <2>2. \A u \in Slots \ {s} : Editor(s)' /\ Editor(u)' => req'[s].book # req'[u].book
    BY <1>1, <1>4 DEF Kept, Editor, Editing
  <2>3. Undisturbed(s)'
    <3>1. Editing(s)' => Visible(req[s].book)'
      BY <1>1, <1>4 DEF Editing, Visible
    <3>2. pc'[s] \in {"moveBook", "decrement", "increment", "countDown"} =>
            req'[s].old = book'[req'[s].book].author
      BY <1>1, <1>4
    <3> QED
      BY <2>2, <3>1, <3>2 DEF Undisturbed, Visible
  <2> QED
    BY <2>1, <2>3
<1> QED
  BY <1>2, <1>3, <1>4 DEF Counting

LEMMA CountingCall ==
  ASSUME Typed, Counting, NEW s \in Slots, Call(s)
  PROVE  Counting'
<1>1. CASE (\E k \in Categories : CreateCategory(s, k)) \/ PlainCall(s) \/ ReviewAsked(s)
  <2>1. UNCHANGED <<author, book, overlapped>> /\ Apart(s)
    BY <1>1 DEF CreateCategory, PlainCall, ReviewAsked, Called, Took, tables, Apart, Kept
  <2>2. ~Editor(s)'
    BY <1>1 DEF CreateCategory, Admit, PlainCall, ReviewAsked, Took, Editor, Editing, Outside
  <2> QED
    BY <2>1, <2>2, CountingOutside
<1>2. CASE EditCall(s)
  <2>1. PICK label \in {"insertBook", "readBook", "history"}, r \in Request :
          /\ Took(s, label, r) /\ Called /\ r.book \in Books
          /\ overlapped' = (overlapped \/ \E t \in Others(s, r.book) : ~Reviewing(t))
          /\ label # "insertBook" => Visible(r.book)
    BY <1>2 DEF EditCall
  <2>2. \A u \in Slots \ {s} : Editor(u) /\ r.book = req[u].book =>
          u \in Others(s, r.book) /\ ~Reviewing(u)
    BY DEF Editor, Editing, Others, Reviewing
  <2>3. overlapped \in BOOLEAN /\ overlapped' \in BOOLEAN /\ (overlapped => overlapped')
    BY <2>1 DEF Typed, TypeOK
  <2>4. ~overlapped' => \A u \in Slots \ {s} : Editor(u) => r.book # req[u].book
    BY <2>1, <2>2
  <2> QED
    BY <2>1, <2>3, <2>4, CountingEditor DEF Called, tables, PCs
<1> QED
  BY <1>1, <1>2, CallKinds, ReviewCalls
LEMMA CountingRead ==
  ASSUME Typed, Counting, NEW s \in Slots, DeskRead(s) \/ ReviewRead(s) \/ Rollback(s)
  PROVE  Counting'
<1>1. UNCHANGED <<author, book, overlapped>>
  BY DEF DeskRead, TrySlug, CountVisible, CountBooks, CountCategory, InsertBook, ReadBook, MoveBook,
         Decrement, ReadHistory, DropBook, ReviewRead, InsertReview, WriteReview, Average, Read,
         Rollback, Done, tables
<1>2. ASSUME NEW label, NEW r, Took(s, label, r),
             label \in Outside \cup {"average", "rate"}
      PROVE  Counting'
  <2>1. Apart(s) /\ ~Editor(s)'
    BY <1>2 DEF Took, Editor, Editing, Outside
  <2> QED
    BY <1>1, <2>1, CountingOutside
<1>3. overlapped \in BOOLEAN /\ req[s] \in Request
  BY DEF Typed, TypeOK
<1>4. ASSUME NEW label \in PCs, NEW r, Took(s, label, r), Editor(s), r.book = req[s].book,
             label \in {"decrement", "increment"} => r.author # r.old,
             label # "countUp" => Editing(s),
             ~overlapped /\ label \in {"moveBook", "decrement", "increment", "countDown"} =>
               r.old = book[r.book].author,
             label # "insertBook"
      PROVE  Counting'
  <2>1. ASSUME ~overlapped
        PROVE  /\ \A u \in Slots \ {s} : Editor(u) => r.book # req[u].book
               /\ label # "countUp" => Visible(r.book)
    <3>1. Undisturbed(s)
      BY <2>1 DEF Counting
    <3> QED
      BY <1>4, <3>1 DEF Undisturbed
  <2> QED
    BY <1>1, <1>3, <1>4, <2>1, CountingEditor
<1>5. {"countUp", "moveBook", "decrement", "increment", "dropBook", "countDown"} \subseteq PCs
  BY DEF PCs
<1>6. CASE TrySlug(s) \/ CountVisible(s) \/ CountBooks(s) \/ CountCategory(s)
  BY <1>2, <1>6, DeskReadsTook DEF Outside
<1>7. CASE ReviewRead(s)
  BY <1>2, <1>7, ReviewReadsTook DEF ReviewRead
<1>8. CASE Rollback(s)
  BY <1>2, <1>8, DoneMoves DEF Rollback, Typed, Outside
<1>9. CASE InsertBook(s)
  <2>1. Took(s, "countUp", req[s]) /\ Editor(s)
    BY <1>9, DeskReadsTook DEF InsertBook, Editor
  <2> QED
    BY <1>4, <1>5, <2>1
<1>10. CASE ReadBook(s)
  <2>1. PICK r \in Request : r = [req[s] EXCEPT !.old = book[req[s].book].author]
    <3>1. book[req[s].book].author \in Authors
      BY <1>10 DEF ReadBook, Typed, TypeOK, Asked, Desk, BookRow
    <3> QED
      BY <1>3, <3>1 DEF Request
  <2>2. r.book = req[s].book /\ r.old = book[req[s].book].author
    BY <1>3, <2>1 DEF Request
  <2>3. Took(s, "moveBook", r) /\ Editor(s) /\ Editing(s)
    BY <1>10, <2>1, DeskReadsTook DEF ReadBook, Editor, Editing
  <2> QED
    BY <1>4, <1>5, <2>2, <2>3
<1>11. ASSUME \/ MoveBook(s) /\ req[s].author # req[s].old
              \/ Decrement(s)
       PROVE  Counting'
  <2>1. PICK label \in {"decrement", "increment"} : Took(s, label, req[s])
    BY <1>11, DeskReadsTook
  <2>2. Editor(s) /\ Editing(s) /\ pc[s] \in {"moveBook", "decrement"}
    BY <1>11 DEF MoveBook, Decrement, Editor, Editing
  <2>3. req[s].author # req[s].old
    BY <1>11 DEF Decrement, Counting, Crossing
  <2>4. ~overlapped => req[s].old = book[req[s].book].author
    BY <2>2 DEF Counting, Undisturbed
  <2> QED
    BY <1>4, <1>5, <2>1, <2>2, <2>3, <2>4
<1>12. CASE ReadHistory(s)
  <2>1. PICK f \in BOOLEAN : Took(s, "dropBook", [req[s] EXCEPT !.found = f])
    BY <1>12, DeskReadsTook
  <2>2. [req[s] EXCEPT !.found = f].book = req[s].book
    BY <1>3 DEF Request
  <2>3. Editor(s) /\ Editing(s)
    BY <1>12 DEF ReadHistory, Editor, Editing
  <2> QED
    BY <1>4, <1>5, <2>1, <2>2, <2>3
<1>13. CASE DropBook(s)
  <2>1. PICK r : r = [req[s] EXCEPT !.old = book[req[s].book].author]
    OBVIOUS
  <2>2. r.book = req[s].book /\ r.old = book[req[s].book].author
    BY <1>3, <2>1 DEF Request
  <2>3. Took(s, "countDown", r) /\ Editor(s) /\ Editing(s)
    BY <1>13, <2>1, DeskReadsTook DEF DropBook, Editor, Editing
  <2> QED
    BY <1>4, <1>5, <2>2, <2>3
<1> QED
  BY <1>6, <1>7, <1>8, <1>9, <1>10, <1>11, <1>12, <1>13 DEF DeskRead

LEMMA CountingRate ==
  ASSUME Typed, Counting, NEW s \in Slots, Rate(s)
  PROVE  Counting'
<1>1. Apart(s) /\ pc'[s] = "idle" /\ UNCHANGED <<author, overlapped>>
      /\ \A b \in Books : book'[b].state = book[b].state /\ book'[b].author = book[b].author
  BY RateRows DEF Took
<1> QED
  BY <1>1, CountingOutside DEF Editor, Editing

\* An author arrives or leaves without visible books.
LEMMA CountingAuthors ==
  ASSUME Typed, Counting, NEW s \in Slots, AuthorCommit(s)
  PROVE  Counting'
<1>1. Took(s, "idle", NoRequest) /\ UNCHANGED <<book, overlapped>>
  BY DoneMoves DEF AuthorCommit, InsertAuthor, DropAuthor, DropCategory, Done, Typed
<1>2. Apart(s) /\ ~Editor(s)'
  BY <1>1 DEF Took, Editor, Editing
<1>3. /\ author \in [Authors -> AuthorRow] /\ book \in [Books -> BookRow]
      /\ \A b \in Books : BookExists(b) => AuthorExists(book[b].author)
      /\ Asked(pc[s], req[s])
  BY DEF Typed, TypeOK
<1>4. CASE overlapped
  <2>1. Crossing'
    BY <1>1 DEF Counting, Crossing, Took, Apart, Kept
  <2> QED
    BY <1>1, <1>4, <2>1 DEF Counting, BooksCounted
<1>5. CASE ~overlapped
  <2>1. ASSUME NEW a \in Authors, VisibleOf(a) = {}
        PROVE  author[a].books = 0
    <3>1. Cardinality(VisibleOf(a)) = 0
      BY <2>1, FS_EmptySet
    <3> QED
      BY <1>5, <3>1, StatisticCounts DEF Counting, BooksCounted
  <2>2. \A a \in Authors : author'[a].books = author[a].books
    <3>1. CASE InsertAuthor(s)
      <4>1. VisibleOf(req[s].author) = {}
        BY <1>3, <3>1 DEF InsertAuthor, VisibleOf, Visible, BookExists
      <4>2. req[s].author \in Authors
        BY <1>3, <3>1 DEF InsertAuthor, Asked
      <4>3. author[req[s].author].books = 0
        BY <2>1, <4>1, <4>2
      <4> QED
        BY <1>3, <3>1, <4>3 DEF InsertAuthor
    <3>2. CASE DropAuthor(s)
      <4>1. PICK a \in Authors : a = req[s].author
        BY <1>3, <3>2 DEF DropAuthor, Asked
      <4>2. \/ author' = [author EXCEPT ![a] = [author[a] EXCEPT !.state = "ARCHIVED"]]
            \/ author' = [author EXCEPT ![a] = NoAuthor] /\ BooksOf(a) = {}
        BY <3>2, <4>1 DEF DropAuthor, AuthorUnreferenced
      <4>3. BooksOf(a) = {} => author[a].books = 0
        BY <2>1 DEF BooksOf, VisibleOf, Visible, BookExists
      <4> QED
        BY <1>3, <4>1, <4>2, <4>3 DEF NoAuthor, AuthorRow
    <3>3. CASE DropCategory(s)
      BY <3>3 DEF DropCategory
    <3> QED
      BY <3>1, <3>2, <3>3 DEF AuthorCommit
  <2> QED
    BY <1>1, <1>2, <2>2, CountingOutside
<1> QED
  BY <1>4, <1>5
\* A commit of a book, undisturbed, leaves the editors of other books.
LEMMA EditorsOfOthers ==
  ASSUME Typed, Counting, ~overlapped, NEW s \in Slots, BookCommit(s)
  PROVE  /\ Undisturbed(s)
         /\ Crossing' /\ \A t \in Slots : Undisturbed(t)'
<1>1. /\ Took(s, "idle", NoRequest) /\ req[s].book \in Books
      /\ \A c \in Books \ {req[s].book} : book'[c] = book[c]
  BY BookCommitRows
<1>2. Apart(s) /\ ~Editor(s)' /\ \A t \in Slots \ {s} : Kept(t)
  BY <1>1 DEF Took, Editor, Editing, Apart
<1>3. Editor(s) /\ Undisturbed(s)
  BY DEF BookCommit, CountUp, MoveBook, Increment, CountDown, Editor, Editing, Counting
<1>4. Crossing'
  BY <1>2 DEF Counting, Crossing, Kept, Editor, Editing
<1>5. ASSUME NEW t \in Slots \ {s}
      PROVE  Undisturbed(t)'
  <2>1. Editor(t) => req[t].book \in Books \ {req[s].book}
    BY <1>3 DEF Undisturbed, Editor, Editing, Typed, Asked, Desk
  <2>2. Editor(t) => book'[req[t].book] = book[req[t].book]
    BY <1>1, <2>1
  <2>3. Undisturbed(t)
    BY DEF Counting
  <2> QED
    BY <1>2, <2>2, <2>3, UndisturbedOther
<1>6. Undisturbed(s)'
  BY <1>2 DEF Undisturbed, Editor, Editing
<1> QED
  BY <1>3, <1>4, <1>5, <1>6

\* The counter of an author that a book joins, or leaves.
LEMMA CountedOneMore ==
  ASSUME NEW a, NEW b \in Books, b \notin VisibleOf(a), VisibleOf(a)' = VisibleOf(a) \cup {b}
  PROVE  AuthorStatistic(a)' = AuthorStatistic(a) + 1
BY StatisticCounts, FS_AddElement

LEMMA CountedOneLess ==
  ASSUME NEW a, NEW b \in Books, b \in VisibleOf(a), VisibleOf(a)' = VisibleOf(a) \ {b}
  PROVE  AuthorStatistic(a)' = AuthorStatistic(a) - 1
BY StatisticCounts, FS_RemoveElement

LEMMA BooksCountedAnew ==
  ASSUME Typed, Locking, Counting, ~overlapped, NEW s \in Slots, BookCommit(s)
  PROVE  BooksCounted'
<1>1. RowsTyped /\ Asked(pc[s], req[s]) /\ Pending(s) /\ Undisturbed(s)
      /\ \A a \in Authors : author[a] \in AuthorRow
  BY RowsAreTyped, EditorsOfOthers DEF Locking, Typed, RowsTyped
<1>2. PICK b \in Books : b = req[s].book
  BY BookCommitRows
<1>3. \A c \in Books \ {b} : book'[c] = book[c]
  BY <1>2, BookCommitRows
<1>4. \A a \in Authors : author[a].books = AuthorStatistic(a)
  BY DEF Counting, BooksCounted
<1>5. ASSUME NEW a \in Authors, VisibleOf(a)' = VisibleOf(a), author'[a].books = author[a].books
      PROVE  author'[a].books = AuthorStatistic(a)'
  BY <1>4, <1>5, StatisticCounts
<1>6. ASSUME NEW a \in Authors, b \notin VisibleOf(a), Visible(b)', book'[b].author = a,
             author'[a].books = author[a].books + 1
      PROVE  author'[a].books = AuthorStatistic(a)'
  <2>1. VisibleOf(a)' = VisibleOf(a) \cup {b}
    BY <1>3, <1>6 DEF VisibleOf, Visible
  <2> QED
    BY <1>4, <1>6, <2>1, CountedOneMore
<1>7. ASSUME NEW a \in Authors, b \in VisibleOf(a), ~Visible(b)' \/ book'[b].author # a,
             author'[a].books = author[a].books - 1
      PROVE  author'[a].books = AuthorStatistic(a)'
  <2>1. VisibleOf(a)' = VisibleOf(a) \ {b}
    BY <1>3, <1>7 DEF VisibleOf, Visible
  <2> QED
    BY <1>4, <1>7, <2>1, CountedOneLess
<1>8. ASSUME NEW a \in Authors, b \notin VisibleOf(a), ~Visible(b)' \/ book'[b].author # a
      PROVE  VisibleOf(a)' = VisibleOf(a)
  BY <1>3, <1>8 DEF VisibleOf, Visible
<1>9. CASE CountUp(s)
  <2>1. ~Visible(b)
    BY <1>1, <1>2, <1>9 DEF CountUp, Pending, Visible, BookExists
  <2>2. PICK e \in Authors : e = req[s].author
    BY <1>1, <1>9 DEF CountUp, Asked, Desk
  <2>3. book'[b].state = "LIVE" /\ book'[b].author = e
    BY <1>1, <1>2, <1>9, <2>2 DEF CountUp, RowsTyped
  <2>4. \A a \in Authors : author'[a].books = IF a = e THEN author[a].books + 1 ELSE author[a].books
    BY <1>1, <1>9, <2>2 DEF CountUp, RowsTyped, AuthorRow
  <2>5. \A a \in Authors : author'[a].books = AuthorStatistic(a)'
    <3> TAKE a \in Authors
    <3>1. b \notin VisibleOf(a)
      BY <2>1 DEF VisibleOf
    <3> QED
      BY <1>5, <1>6, <1>8, <2>3, <2>4, <3>1 DEF Visible
  <2> QED
    BY <2>5 DEF BooksCounted
<1>10. CASE MoveBook(s) /\ req[s].author = req[s].old
  <2>1. Visible(b) /\ req[s].author = book[b].author
    BY <1>1, <1>2, <1>10 DEF MoveBook, Undisturbed, Editing
  <2>2. Updated(s, b).state = book[b].state /\ Updated(s, b).author = req[s].author
    BY <1>1 DEF Updated, RowsTyped, BookRow
  <2>3. book' = [book EXCEPT ![b] = Updated(s, b)] /\ author' = author
    BY <1>2, <1>10 DEF MoveBook
  <2>4. \A c \in Books : book'[c].state = book[c].state /\ book'[c].author = book[c].author
    BY <1>1, <1>3, <2>1, <2>2, <2>3 DEF RowsTyped
  <2>5. UNCHANGED overlapped
    BY BookCommitRows
  <2> QED
    BY <2>3, <2>4, <2>5, CountedKept DEF Counting
<1>11. CASE Increment(s)
  <2>1. PICK o \in Authors, e \in Authors : o = req[s].old /\ e = req[s].author
    BY <1>1, <1>11 DEF Increment, Asked, Desk
  <2>2. Visible(b) /\ book[b].author = o /\ e # o
    BY <1>1, <1>2, <1>11, <2>1 DEF Increment, Undisturbed, Editing, Counting, Crossing
  <2>3. Updated(s, b).state = book[b].state /\ Updated(s, b).author = e
    BY <1>1, <2>1 DEF Updated, RowsTyped, BookRow
  <2>4. book'[b] = Updated(s, b)
    BY <1>1, <1>2, <1>11 DEF Increment, RowsTyped
  <2>5. Visible(b)' /\ book'[b].author = e
    BY <2>2, <2>3, <2>4 DEF Visible
  <2>6. \A a \in Authors : author'[a].books = Moved(o, e, a)
    BY <1>1, <1>11, <2>1 DEF Increment, AuthorRow
  <2>7. \A a \in Authors : author'[a].books = AuthorStatistic(a)'
    <3> TAKE a \in Authors
    <3>1. CASE a = o
      BY <1>7, <2>2, <2>5, <2>6, <3>1 DEF VisibleOf, Moved
    <3>2. CASE a = e
      BY <1>6, <2>2, <2>5, <2>6, <3>2 DEF VisibleOf, Moved
    <3>3. CASE a # o /\ a # e
      <4>1. b \notin VisibleOf(a)
        BY <2>2, <3>3 DEF VisibleOf
      <4> QED
        BY <1>5, <1>8, <2>5, <2>6, <3>3, <4>1 DEF Moved
    <3> QED
      BY <3>1, <3>2, <3>3
  <2> QED
    BY <2>7 DEF BooksCounted
<1>12. CASE CountDown(s)
  <2>1. PICK o \in Authors : o = req[s].old
    BY <1>1, <1>12 DEF CountDown, Asked
  <2>2. Visible(b) /\ book[b].author = o
    BY <1>1, <1>2, <1>12, <2>1 DEF CountDown, Undisturbed, Editing
  <2>3. book'[b] = IF req[s].found THEN [book[b] EXCEPT !.state = "ARCHIVED"] ELSE NoBook(b)
    BY <1>1, <1>2, <1>12 DEF CountDown, RowsTyped
  <2>4. ~Visible(b)'
    BY <1>1, <2>3 DEF Visible, NoBook, RowsTyped, BookRow
  <2>5. \A a \in Authors : author'[a].books = IF a = o THEN author[a].books - 1 ELSE author[a].books
    BY <1>1, <1>12, <2>1 DEF CountDown, RowsTyped, AuthorRow
  <2>6. \A a \in Authors : author'[a].books = AuthorStatistic(a)'
    <3> TAKE a \in Authors
    <3>1. CASE a = o
      BY <1>7, <2>2, <2>4, <2>5, <3>1 DEF VisibleOf
    <3>2. CASE a # o
      <4>1. b \notin VisibleOf(a)
        BY <2>2, <3>2 DEF VisibleOf
      <4> QED
        BY <1>5, <1>8, <2>4, <2>5, <3>2, <4>1
    <3> QED
      BY <3>1, <3>2
  <2> QED
    BY <2>6 DEF BooksCounted
<1> QED
  BY <1>9, <1>10, <1>11, <1>12 DEF BookCommit

LEMMA CountingBooks ==
  ASSUME Typed, Locking, Counting, NEW s \in Slots, BookCommit(s)
  PROVE  Counting'
<1>1. UNCHANGED overlapped /\ Apart(s) /\ pc'[s] = "idle"
  BY BookCommitRows DEF Took
<1>2. CASE overlapped
  <2>1. Crossing'
    BY <1>1 DEF Counting, Crossing, Apart, Kept
  <2> QED
    BY <1>1, <1>2, <2>1 DEF Counting, BooksCounted
<1>3. CASE ~overlapped
  BY <1>3, EditorsOfOthers, BooksCountedAnew DEF Counting
<1> QED
  BY <1>2, <1>3

LEMMA NextCounted ==
  ASSUME Typed, Locking, Counting, [Next]_vars
  PROVE  Counting'
<1>1. ASSUME NEW s \in Slots, Step(s)
      PROVE  Counting'
  BY <1>1, StepKinds, CountingRead, CountingRate, CountingAuthors, CountingBooks
<1>2. CASE UNCHANGED vars
  BY <1>2 DEF vars, tables, Counting, Crossing, Undisturbed, Editor, Editing, Visible,
              BooksCounted, AuthorStatistic, BooksOf, BookExists
<1> QED
  BY <1>1, <1>2, CountingCall, CountingRead DEF Next
-----------------------------------------------------------------------------
(* The theorems.                                                           *)

LEMMA InitInv == Init => IInv
<1> SUFFICES ASSUME Init PROVE IInv
  OBVIOUS
<1> DEFINE shelved(a) == {b \in Shelf : AuthorOf[b] = a}
<1>1. /\ author = [a \in Authors |->
           IF shelved(a) # {} THEN [state |-> "LIVE", books |-> Cardinality(shelved(a))]
           ELSE NoAuthor]
      /\ category = {CategoryOf[b] : b \in Shelf}
      /\ book = [b \in Books |->
           [NoBook(b) EXCEPT !.state = IF b \in Shelf THEN "LIVE" ELSE "NONE"]]
      /\ review = [i \in ReviewIds |-> NoReview] /\ pc = [s \in Slots |-> "idle"]
      /\ req = [s \in Slots |-> NoRequest] /\ calls = 0 /\ overlapped = FALSE /\ stale = {}
  <2>1. \A a : shelved(a) # {} <=> \E b \in Shelf : AuthorOf[b] = a
    OBVIOUS
  <2> QED
    BY <2>1 DEF Init
<1>2. \A a : IsFiniteSet(shelved(a)) /\ Cardinality(shelved(a)) \in Nat
  BY CatalogAssumption, CatalogBoundAssumption, FS_Subset, FS_CardinalityType
<1>3. \A b \in Books : /\ book[b] \in BookRow
                       /\ book[b].state = IF b \in Shelf THEN "LIVE" ELSE "NONE"
                       /\ book[b].author = AuthorOf[b] /\ book[b].category = CategoryOf[b]
                       /\ book[b].rating = Unrated
  BY <1>1, CatalogAssumption DEF NoBook, BookRow, Mean, Unrated
<1>4. \A s \in Slots : pc[s] = "idle" /\ req[s] = NoRequest
  BY <1>1
<1>5. \A i \in ReviewIds : review[i] = NoReview
  BY <1>1
<1>6. Typed
  <2>1. author \in [Authors -> AuthorRow]
    BY <1>1, <1>2 DEF AuthorRow, NoAuthor
  <2>2. category \subseteq Categories
    BY <1>1, CatalogAssumption
  <2>3. book \in [Books -> BookRow]
    BY <1>1, <1>3
  <2>4. review \in [ReviewIds -> ReviewRow]
    BY <1>1 DEF ReviewRow, NoReview
  <2>5. pc \in [Slots -> PCs] /\ req \in [Slots -> Request]
    BY <1>1, NoRequestTyped DEF PCs
  <2>6. calls \in 0..MaxCalls
    BY <1>1, CatalogBoundAssumption
  <2>7. \A b \in Books : BookExists(b) =>
          AuthorExists(book[b].author) /\ book[b].category \in category
    <3> SUFFICES ASSUME NEW b \in Books, BookExists(b)
                 PROVE  AuthorExists(book[b].author) /\ book[b].category \in category
      OBVIOUS
    <3>1. b \in Shelf /\ AuthorOf[b] \in Authors /\ shelved(AuthorOf[b]) # {}
      BY <1>3, CatalogAssumption DEF BookExists
    <3>2. author[AuthorOf[b]].state = "LIVE"
      BY <1>1, <3>1
    <3> QED
      BY <1>1, <1>3, <3>1, <3>2 DEF AuthorExists
  <2>8. TypeOK
    BY <1>1, <1>5, <2>1, <2>2, <2>3, <2>4, <2>5, <2>6, <2>7 DEF TypeOK
  <2>9. \A t \in Slots : Asked(pc[t], req[t])
    BY <1>4 DEF Asked, Desk
  <2> QED
    BY <1>5, <2>8, <2>9 DEF Typed, RowOK
<1>7. Locking
  BY <1>4 DEF Locking, Referred, Pending, Exclusive, WritesBook, DeletesBook, RefersToBook
<1>8. Reviewed1 /\ Alone /\ MeanKnown
  BY <1>4, <1>5 DEF Reviewed1, Owns, Distinct, OneReviewEach, Reviewing, Writing, Alone, MeanKnown
<1>9. RatingSettles
  <2> SUFFICES ASSUME NEW b \in Books
               PROVE  SameMean(book[b].rating, MeanOf(review, b))
    BY DEF RatingSettles
  <2>1. {i \in ReviewIds : review[i].book = b} = {}
    BY <1>5, CatalogAssumption DEF NoReview
  <2>2. MeanOf(review, b) = Unrated
    BY <2>1 DEF MeanOf
  <2> QED
    BY <1>3, <2>2 DEF SameMean
<1>10. Counting
  <2>1. Crossing /\ \A t \in Slots : Undisturbed(t)
    BY <1>4 DEF Crossing, Undisturbed, Editor, Editing
  <2>2. ASSUME NEW a \in Authors
        PROVE  author[a].books = AuthorStatistic(a)
    <3>1. VisibleOf(a) = shelved(a)
      BY <1>3, CatalogAssumption DEF VisibleOf, Visible
    <3>2. author[a].books = Cardinality(shelved(a))
      <4>1. CASE shelved(a) # {}
        BY <1>1, <4>1
      <4>2. CASE shelved(a) = {}
        <5>1. author[a].books = 0
          BY <1>1, <4>2 DEF NoAuthor
        <5> QED
          BY <4>2, <5>1, FS_EmptySet
      <4> QED
        BY <4>1, <4>2
    <3> QED
      BY <3>1, <3>2, StatisticCounts
  <2> QED
    BY <2>1, <2>2 DEF Counting, BooksCounted
<1> QED
  BY <1>6, <1>7, <1>8, <1>9, <1>10 DEF IInv

LEMMA NextInv == IInv /\ [Next]_vars => IInv'
BY NextTyped, NextLocking, NextReviewed, NextRated, NextCounted DEF IInv

LEMMA Invariant == Spec => []IInv
BY InitInv, NextInv, PTL DEF Spec

\* Whatever requests run together, the rows of the catalogue and the requests keep
\* their types, and each book's author and category and each review's book exist:
\* the foreign keys hold against deletions that read before a reference arrived.
THEOREM CatalogueTyped == Spec => []TypeOK
<1>1. IInv => TypeOK
  BY DEF IInv, Typed
<1> QED
  BY <1>1, Invariant, PTL

\* No member ever has two reviews of one book, however many requests create them
\* at once after the check of reviews.service.ts has passed.
THEOREM OneReview == Spec => []OneReviewEach
<1>1. IInv => OneReviewEach
  BY DEF IInv, Reviewed1
<1> QED
  BY <1>1, Invariant, PTL

\* When no review of it overlapped another and nobody set it by hand, the rating in
\* a book's row is the mean of its reviews: recalculateRating computes it anew from
\* what its own transaction sees, and that is what is committed.
THEOREM RatingsSettle == Spec => []RatingSettles
<1>1. IInv => RatingSettles
  BY DEF IInv
<1> QED
  BY <1>1, Invariant, PTL

\* As long as no two requests edit one book at once, booksCount of each author is
\* the number of visible books that name it, through every insert, move and removal.
THEOREM BooksAreCounted == Spec => []BooksCounted
<1>1. IInv => BooksCounted
  BY DEF IInv, Counting
<1> QED
  BY <1>1, Invariant, PTL

\* A book row disappears only when the book has no loans, no copy audit rows and no
\* reviews at that moment, though the history was read two statements before.
THEOREM HistoryOutlives == Spec => HistoryOutlivesBook
<1> DEFINE Kept1 == \A b \in Books : BookExists(b) /\ book'[b].state = "NONE" =>
                      b \notin Borrowed /\ ReviewsOf(b) = {}
<1>1. ASSUME IInv, [Next]_vars, NEW b \in Books, BookExists(b), book'[b].state = "NONE"
      PROVE  b \notin Borrowed /\ ReviewsOf(b) = {}
  <2>1. Typed /\ Locking /\ RowsTyped
    BY <1>1, RowsAreTyped DEF IInv
  <2>2. book' # book
    BY <1>1 DEF BookExists
  <2>3. PICK s \in Slots : Call(s) \/ Step(s) \/ Rollback(s)
    BY <1>1, <2>2 DEF Next, vars, tables
  <2>4. CASE Call(s)
    <3>1. book' = book
      BY <2>1, <2>4, CallKinds, ReviewCalls
      DEF PlainCall, EditCall, ReviewAsked, Called, CreateCategory, tables
    <3> QED
      BY <2>2, <3>1
  <2>5. CASE DeskRead(s) \/ ReviewRead(s) \/ AuthorCommit(s) \/ Rollback(s)
    <3>1. book' = book
      BY <2>5 DEF DeskRead, TrySlug, CountVisible, CountBooks, CountCategory, InsertBook, ReadBook,
                  MoveBook, Decrement, ReadHistory, DropBook, ReviewRead, InsertReview,
                  WriteReview, Average, AuthorCommit, InsertAuthor, DropAuthor, DropCategory,
                  Rollback, Read, tables
    <3> QED
      BY <2>2, <3>1
  <2>6. CASE Rate(s)
    BY <1>1, <2>1, <2>6, RateRows DEF BookExists
  <2>7. CASE BookCommit(s)
    <3>1. b = req[s].book
      BY <1>1, <2>1, <2>7, BookCommitRows DEF BookExists
    <3>2. WritesBook(s, b)
      BY <1>1, <2>1, <2>7, <3>1, BookCommitRows DEF BookExists
    <3>3. CASE CountUp(s)
      BY <1>1, <2>1, <3>1, <3>3 DEF CountUp, RowsTyped
    <3>4. CASE Increment(s)
      <4>1. book'[b] = Updated(s, b)
        BY <2>1, <3>1, <3>4 DEF Increment, RowsTyped
      <4>2. Updated(s, b).state = book[b].state
        BY <2>1 DEF Updated, RowsTyped, BookRow
      <4> QED
        BY <1>1, <4>1, <4>2 DEF BookExists
    <3>5. CASE CountDown(s)
      <4>1. book'[b] = IF req[s].found THEN [book[b] EXCEPT !.state = "ARCHIVED"] ELSE NoBook(b)
        BY <2>1, <3>1, <3>5 DEF CountDown, RowsTyped
      <4>2. ~req[s].found
        BY <1>1, <2>1, <4>1 DEF RowsTyped, BookRow
      <4>3. Pending(s) /\ pc[s] = "countDown"
        BY <2>1, <3>5 DEF Locking, CountDown
      <4> QED
        BY <3>1, <4>2, <4>3 DEF Pending
    <3> QED
      BY <2>7, <3>2, <3>3, <3>4, <3>5 DEF BookCommit, MoveBook, WritesBook
  <2> QED
    BY <2>3, <2>4, <2>5, <2>6, <2>7, StepKinds
<1>2. IInv /\ [Next]_vars => [Kept1]_vars
  BY <1>1
<1> QED
  BY <1>2, Invariant, PTL DEF Spec, HistoryOutlivesBook
=============================================================================
