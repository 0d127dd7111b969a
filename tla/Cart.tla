-------------------------------- MODULE Cart --------------------------------
(***************************************************************************)
(* cart.service.ts: a user's cart of books.  Checkout is LoanDesk's.       *)
(***************************************************************************)
EXTENDS Database

\* POST /cart/items: the book and the item are read first.
AddToCart(s, u, b) ==
  /\ "Cart" \in Handlers
  /\ IsUser(u)
  /\ IsAvailable(b)
  /\ b \notin cart[u]
  /\ Begin(s, "cartAdd", [NoRequest EXCEPT !.op = "cart", !.user = u, !.book = b])

\* The foreign key to the book.  Mutant: there is none.
BookThere_Unchecked(b) == TRUE
BookThere(b) == bookRow[b] # "GONE"

\* The insert: one item for a user and a book, of a book that is still there.
InsertItem(s) ==
  /\ pc[s] = "cartAdd"
  /\ BookThere(req[s].book)
  /\ req[s].book \notin cart[req[s].user]
  /\ cart' = [cart EXCEPT ![req[s].user] = @ \cup {req[s].book}]
  /\ Finish(s)
  /\ UNCHANGED <<userTables, copyTables, bookTables, loanTables>>

\* DELETE /cart/items/:id and DELETE /cart: one statement each.
RemoveItems(s, u, items) ==
  /\ "Cart" \in Handlers
  /\ IsUser(u)
  /\ Idle(s)
  /\ cart' = [cart EXCEPT ![u] = @ \ items]
  /\ UNCHANGED <<userTables, copyTables, bookTables, loanTables, pc, req, hold, pend>>

RemoveItem(s, u, b) == b \in cart[u] /\ RemoveItems(s, u, {b})
ClearCart(s, u) == RemoveItems(s, u, Books)

CartCall(s) ==
  \E u \in Users :
    \/ \E b \in Books : AddToCart(s, u, b) \/ RemoveItem(s, u, b)
    \/ ClearCart(s, u)

CartStep(s) == InsertItem(s)
=============================================================================
