----------------------------- MODULE MCAccounts -----------------------------
(***************************************************************************)
(* The accounts TLC explores: an administrator (1) and an id that a        *)
(* registration may take (2).                                              *)
(***************************************************************************)
EXTENDS Accounts, TLC

CONSTANTS root, member, s1, s2

MCEmailOf == [u \in Ids |-> IF u = 1 THEN root ELSE member]

SlotSymmetry == Permutations(Slots)
=============================================================================
