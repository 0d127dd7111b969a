----------------------------- MODULE MCStaging ------------------------------
(***************************************************************************)
(* A catalogue of two base books beside the five of the fixture, whose ids *)
(* sort last; the library works on one of each.                            *)
(***************************************************************************)
EXTENDS Staging

CONSTANTS b1, b2, a1, a2, k1, k2, demo

MCSeedAuthors == <<a1, a2>>
MCSeedCategories == <<k1, k2>>
MCSeedBooks == <<b1, b2>>
MCById == <<b2, b1, 1, 2, 3, 4, 5>>
MCAuthorOf ==
  [b \in Books |-> IF b \in DemoBooks THEN demo ELSE IF b = b1 THEN a1 ELSE a2]
MCCategoryOf == [b \in Books |-> IF b \in {b1, 1, 2} THEN k1 ELSE k2]
MCTyped == {<<0, 2>>, <<1, 1>>}
MCTouched == {b1, 2}
MCClaimed == {a2, k1, demo}
=============================================================================
