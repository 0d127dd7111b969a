----------------------------- MODULE MCLibrary ------------------------------
(***************************************************************************)
(* The small libraries TLC explores.                                       *)
(***************************************************************************)
EXTENDS Library, TLC

\* Two books, of one author or of two: one has copies 1 and 2 in stock, the other copy 3
\* (or none, when Stock leaves it out).
CONSTANTS b1, b2, u1, u2, a1, s1, s2

MCBookOf == [c \in Copies |-> IF c <= 2 THEN b1 ELSE b2]
OneBookOf == [c \in Copies |-> b1]
MCAuthorOf == [b \in Books |-> "author"]
TwoAuthorsOf == [b \in Books |-> IF b = b1 THEN "first" ELSE "second"]

SlotSymmetry == Permutations(Slots)
=============================================================================
