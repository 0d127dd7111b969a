----------------------------- MODULE Dashboard ------------------------------
(***************************************************************************)
(* GET /admin/dashboard: getDashboard of prisma-admin.repository.ts.  It   *)
(* counts rows, each count a statement that sees what is committed when it *)
(* begins: nothing is said of two counts together.  Here is the one list   *)
(* it makes, the ranking of borrowed books.                                *)
(***************************************************************************)
EXTENDS SeedTables

\* The five visible books with the most loans; of equals any may be taken, and
\* these are all that may.
Borrows(b) == Cardinality({l \in loans : copy[l.copy].book = b})
MoreBorrowed(b) == {x \in Books : Visible(x) /\ Borrows(x) > Borrows(b)}
TopBorrowed ==
  {b \in Books : Visible(b) /\ Borrows(b) > 0 /\ Cardinality(MoreBorrowed(b)) < 5}
=============================================================================
