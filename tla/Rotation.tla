------------------------------ MODULE Rotation ------------------------------
(***************************************************************************)
(* What refresh tokens promise.  An account honours one token or none.  A  *)
(* refresh presents the token that its account honours at that moment, and *)
(* so never one already replaced or revoked; later it is given a token     *)
(* never issued before in exchange.  The promise is about the moment a     *)
(* token is presented: of what happens between that and the exchange it    *)
(* says nothing, so two refreshes may present one token, and a refresh may *)
(* overtake a logout.                                                      *)
(***************************************************************************)
CONSTANTS Accounts, Tokens, Requests, None

VARIABLES
  session,     \* the refresh token each account honours, or None
  issued,      \* the tokens issued so far
  presented,   \* the refreshes under way: <<request, account, token presented>>
  from         \* the token each token was given in exchange for; None at a sign-in

vars == <<session, issued, presented, from>>

Init ==
  /\ issued \subseteq Tokens
  /\ session \in [Accounts -> issued \cup {None}]
  /\ presented = {}
  /\ from = [t \in Tokens |-> None]

\* Whatever the account honoured before is replaced.
Open(u, t) ==
  /\ t \in Tokens \ issued
  /\ session' = [session EXCEPT ![u] = t]
  /\ issued' = issued \cup {t}

SignIn(u, t) == Open(u, t) /\ UNCHANGED <<presented, from>>

Present(r, u) ==
  /\ session[u] # None
  /\ \A p \in presented : p[1] # r
  /\ presented' = presented \cup {<<r, u, session[u]>>}
  /\ UNCHANGED <<session, issued, from>>

Exchange(r, u, x, t) ==
  /\ <<r, u, x>> \in presented
  /\ Open(u, t)
  /\ presented' = presented \ {<<r, u, x>>}
  /\ from' = [from EXCEPT ![t] = x]

\* A refresh that fails after all.
Forget(r) ==
  /\ presented' = {p \in presented : p[1] # r}
  /\ UNCHANGED <<session, issued, from>>

\* A logout, or a change of password or role: the account honours nothing.
Close(u) ==
  /\ session' = [session EXCEPT ![u] = None]
  /\ UNCHANGED <<issued, presented, from>>

Next ==
  \/ \E u \in Accounts : Close(u)
  \/ \E u \in Accounts, t \in Tokens : SignIn(u, t)
  \/ \E r \in Requests : Forget(r)
  \/ \E r \in Requests, u \in Accounts : Present(r, u)
  \/ \E r \in Requests, u \in Accounts, x, t \in Tokens : Exchange(r, u, x, t)

Spec == Init /\ [][Next]_vars
=============================================================================
