------------------------------ MODULE Custody -------------------------------
(***************************************************************************)
(* What the lending desk promises, without tables, statements or locks: a  *)
(* copy is in nobody's hands or in one person's, a loan puts copies nobody *)
(* has into one person's hands in one step, and a copy changes hands only  *)
(* through the desk.                                                       *)
(***************************************************************************)
CONSTANTS Users, Copies, Nobody

VARIABLE holder

TypeOK == holder \in [Copies -> Users \cup {Nobody}]

Init == holder = [c \in Copies |-> Nobody]

Held(S, h) == [c \in Copies |-> IF c \in S THEN h ELSE holder[c]]

\* A loan, or the checkout of a whole cart.
Lend(u, S) ==
  /\ \A c \in S : holder[c] = Nobody
  /\ holder' = Held(S, u)

\* A return, or copies written off.
Release(S) == holder' = Held(S, Nobody)

Next == \E S \in SUBSET Copies : Release(S) \/ \E u \in Users : Lend(u, S)

Spec == Init /\ [][Next]_holder
=============================================================================
