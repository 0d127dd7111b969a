---------------------------- MODULE MCCatalogue ----------------------------
(***************************************************************************)
(* The catalogue TLC explores: authors 1 and 2 with a book each, of one    *)
(* category.  Author 3, the second category, and rows removed may be added. *)
(***************************************************************************)
EXTENDS Catalogue

CONSTANTS b1, b2, k, j, m1, m2, s1, s2

MCAuthorOf == [b \in Books |-> IF b = b2 THEN 2 ELSE 1]
MCCategoryOf == [b \in Books |-> k]
MCEntries ==
  {<<1, k, 0>>, <<2, k, 0>>, <<3, k, 0>>, <<1, j, 5>>, <<2, j, 0>>}
=============================================================================
