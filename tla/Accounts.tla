------------------------------ MODULE Accounts ------------------------------
(***************************************************************************)
(* Accounts and their sessions: auth.service.ts, jwt.strategy.ts,          *)
(* users.service.ts and me.controller.ts.                                  *)
(*                                                                         *)
(* An account is one User row.  Signing in returns a pair of tokens; both  *)
(* carry the same claims, and the row keeps the hash of the refresh token. *)
(* A slot is one HTTP request in flight.  Each of its actions is one       *)
(* database statement, with what it computes before the next one; the     *)
(* statements of other requests run in between.                            *)
(***************************************************************************)
EXTENDS Naturals, FiniteSets

CONSTANTS
  Ids,         \* User.id, in the order autoincrement gives them
  Members,     \* the accounts that exist at the start
  Roots,       \* those of them that are administrators
  Emails,      \* User.email
  EmailOf,     \* the address of each account at the start
  Passwords,   \* User.password
  First,       \* bound: the password every account starts with
  Tokens,      \* pairs of tokens: their jti is random, so each is issued once
  Slots,       \* requests served at the same time
  MaxVersion,  \* bound: the greatest tokenVersion of a row
  None         \* no token, no address, no password

ASSUME AccountAssumption ==
  /\ Ids \subseteq Nat \ {0} /\ Tokens \subseteq Nat \ {0}
  /\ Members \subseteq Ids /\ Roots \subseteq Members /\ Roots # {}
  /\ EmailOf \in [Ids -> Emails]
  /\ \A u, v \in Members : EmailOf[u] = EmailOf[v] => u = v
  /\ First \in Passwords
  /\ None \notin Tokens /\ None \notin Emails /\ None \notin Passwords

ASSUME AccountBoundAssumption == IsFiniteSet(Ids) /\ MaxVersion \in Nat

VARIABLES
  row,    \* the User rows
  pair,   \* the claims of every pair of tokens issued
  pc,     \* the next statement of each slot
  req     \* what the request asked for and the row it has read

vars == <<row, pair, pc, req>>

-----------------------------------------------------------------------------
(* Rows, tokens, requests.                                                 *)

Roles == {"USER", "ADMIN"}
Account ==
  [state : {"NONE", "LIVE", "DELETED"}, email : Emails \cup {None},
   password : Passwords \cup {None}, role : Roles,
   version : Nat, hash : Tokens \cup {None}]

NoAccount ==
  [state |-> "NONE", email |-> None, password |-> None, role |-> "USER",
   version |-> 0, hash |-> None]

\* The claims, and three things no token says: the password of the row they
\* were read from, the row's version when the refresh token was stored, and the
\* refresh token they were given in exchange for (None at a sign-in).
Pair ==
  [sub : Ids \cup {0}, email : Emails \cup {None}, role : Roles, version : Nat,
   password : Passwords \cup {None}, stored : Nat, from : Tokens \cup {None}]
NoPair ==
  [sub |-> 0, email |-> None, role |-> "USER", version |-> 0,
   password |-> None, stored |-> 0, from |-> None]

Issued == {t \in Tokens : pair[t] # NoPair}
Fresh(t) == t \in Tokens \ Issued /\ \A o \in Tokens \ Issued : t <= o

PCs == {"idle", "insert", "issue", "logout", "email", "password",
        "passwordWrite", "role", "delete"}
Request ==
  [user : Ids \cup {0}, email : Emails \cup {None},
   password : Passwords \cup {None}, role : Roles, seen : Account,
   token : Tokens \cup {None}]
NoRequest ==
  [user |-> 0, email |-> None, password |-> None, role |-> "USER",
   seen |-> NoAccount, token |-> None]

Live(u) == row[u].state = "LIVE"
LiveAdmins == {u \in Ids : Live(u) /\ row[u].role = "ADMIN"}
EmailTaken(e) == \E u \in Ids : Live(u) /\ row[u].email = e

\* The unique index on User.email, in which deleted rows keep their place.
\* Mutant: only live rows are compared.
EmailFree_Live(e, u) == \A v \in Ids \ {u} : Live(v) => row[v].email # e
EmailFree(e, u) == \A v \in Ids \ {u} : row[v].email # e

Goto(s, label, r) ==
  /\ pc' = [pc EXCEPT ![s] = label]
  /\ req' = [req EXCEPT ![s] = r]
Begin(s, label, r) == pc[s] = "idle" /\ Goto(s, label, r) /\ UNCHANGED <<row, pair>>
Done(s) == Goto(s, "idle", NoRequest)

\* JwtStrategy.validate: the row is read for every guarded request.
Accepts(t) ==
  /\ t \in Issued
  /\ LET claims == pair[t]
         user == row[claims.sub]
     IN /\ user.state = "LIVE"
        /\ user.email = claims.email
        /\ user.role = claims.role
        /\ user.version = claims.version

-----------------------------------------------------------------------------
(* Signing in, refreshing, signing out.                                    *)

\* POST /auth/register: no live account has the address.
Register(s, e) ==
  /\ ~EmailTaken(e)
  /\ Begin(s, "insert", [NoRequest EXCEPT !.email = e, !.password = First])

\* The insert; the new row is what the first pair of tokens is issued from.
CreateUser(s, u) ==
  /\ pc[s] = "insert"
  /\ row[u].state = "NONE" /\ \A v \in Ids : row[v].state = "NONE" => u <= v
  /\ EmailFree(req[s].email, u)
  /\ LET new == [NoAccount EXCEPT !.state = "LIVE", !.email = req[s].email,
                                  !.password = req[s].password]
     IN /\ row' = [row EXCEPT ![u] = new]
        /\ Goto(s, "issue", [NoRequest EXCEPT !.user = u, !.seen = new])
  /\ UNCHANGED pair

\* POST /auth/login: the row found by its address, and its password right.
Login(s, u) ==
  /\ Live(u)
  /\ Begin(s, "issue", [NoRequest EXCEPT !.user = u, !.seen = row[u]])

\* The presented token is the one the row has stored.
\* Mutant: some token is stored; the hashes are not compared.
Honoured_NotCompared(u, t) == row[u].hash # None
Honoured(u, t) == row[u].hash = t

\* POST /auth/refresh with token t, of a live row.
Refresh(s, t) ==
  /\ t \in Issued
  /\ LET u == pair[t].sub
     IN /\ Live(u)
        /\ Honoured(u, t)
        /\ Begin(s, "issue", [NoRequest EXCEPT !.user = u, !.seen = row[u], !.token = t])

\* issueTokenPair: claims from the row read before, hash written by id whatever
\* the row has stored by now; a random jti makes every token a new one.
IssueTokenPair(s, t) ==
  /\ pc[s] = "issue"
  /\ Fresh(t)
  /\ LET u == req[s].user
         seen == req[s].seen
     IN /\ pair' = [pair EXCEPT ![t] =
             [sub |-> u, email |-> seen.email, role |-> seen.role,
              version |-> seen.version, password |-> seen.password,
              stored |-> row[u].version, from |-> req[s].token]]
        /\ row' = [row EXCEPT ![u] = [row[u] EXCEPT !.hash = t]]
  /\ Done(s)

\* POST /auth/logout with access token t, and its write by id.
Logout(s, t) ==
  /\ Accepts(t)
  /\ Begin(s, "logout", [NoRequest EXCEPT !.user = pair[t].sub])
ClearHash(s) ==
  /\ pc[s] = "logout"
  /\ row' = [row EXCEPT ![req[s].user] = [row[req[s].user] EXCEPT !.hash = None]]
  /\ Done(s)
  /\ UNCHANGED pair

-----------------------------------------------------------------------------
(* Changes that end the tokens issued before.                              *)

\* tokenVersion: { increment: 1 } is computed by the statement that writes.
\* Mutant: the version is computed from the row read before.
NextVersion_Read(s, u) == req[s].seen.version + 1
NextVersion(s, u) == row[u].version + 1
MoreVersions(u) == row[u].version < MaxVersion

\* What a change of password or role does to the session.
\* Mutant: the stored refresh token is kept.
Revoked_Kept(u) == row[u].hash
Revoked(u) == None

\* PATCH /me with a new address, and its write: nobody else uses it.
UpdateMe(s, t, e) ==
  /\ Accepts(t)
  /\ \A v \in Ids : Live(v) /\ row[v].email = e => v = pair[t].sub
  /\ Begin(s, "email", [NoRequest EXCEPT !.user = pair[t].sub, !.email = e])
WriteEmail(s) ==
  /\ pc[s] = "email"
  /\ LET u == req[s].user
     IN /\ EmailFree(req[s].email, u)
        /\ MoreVersions(u)
        /\ row' = [row EXCEPT ![u] = [row[u] EXCEPT !.email = req[s].email,
                                                    !.version = NextVersion(s, u)]]
  /\ Done(s)
  /\ UNCHANGED pair

\* PATCH /me/password: the guard, then the row read again to compare the
\* current password, then the write by id.
ChangePassword(s, t, p) ==
  /\ Accepts(t)
  /\ Begin(s, "password", [NoRequest EXCEPT !.user = pair[t].sub, !.password = p])
ComparePassword(s) ==
  /\ pc[s] = "password"
  /\ Live(req[s].user)
  /\ Goto(s, "passwordWrite", [req[s] EXCEPT !.seen = row[req[s].user]])
  /\ UNCHANGED <<row, pair>>
WritePassword(s) ==
  /\ pc[s] = "passwordWrite"
  /\ LET u == req[s].user
     IN /\ MoreVersions(u)
        /\ row' = [row EXCEPT ![u] =
             [row[u] EXCEPT !.password = req[s].password, !.hash = Revoked(u),
                            !.version = NextVersion(s, u)]]
  /\ Done(s)
  /\ UNCHANGED pair

\* PATCH /users/:id/role and DELETE /users/:id with an administrator's token.
\* An advisory lock serialises these transactions, and only they write the
\* columns their checks read: each is one step.  (Members has them statement by
\* statement, with the loans that may refuse a deletion.)
OtherAdminLeft(u) == row[u].role = "ADMIN" => Cardinality(LiveAdmins) > 1
AsAdmin(t, u) ==
  /\ Accepts(t) /\ pair[t].role = "ADMIN"
  /\ Live(u) /\ u # pair[t].sub

ChangeRole(s, t, u, r) ==
  /\ AsAdmin(t, u)
  /\ row[u].role # r
  /\ r # "ADMIN" => OtherAdminLeft(u)
  /\ Begin(s, "role", [NoRequest EXCEPT !.user = u, !.role = r])
DeleteUser(s, t, u) ==
  /\ AsAdmin(t, u)
  /\ OtherAdminLeft(u)
  /\ Begin(s, "delete", [NoRequest EXCEPT !.user = u])

UpdateRole(s) ==
  /\ pc[s] = "role"
  /\ LET u == req[s].user
     IN /\ Live(u) /\ MoreVersions(u)
        /\ req[s].role # "ADMIN" => OtherAdminLeft(u)
        /\ row' = [row EXCEPT ![u] =
             [row[u] EXCEPT !.role = req[s].role, !.hash = Revoked(u),
                            !.version = NextVersion(s, u)]]
  /\ Done(s)
  /\ UNCHANGED pair

AdminDelete(s) ==
  /\ pc[s] = "delete"
  /\ LET u == req[s].user
     IN /\ Live(u) /\ MoreVersions(u) /\ OtherAdminLeft(u)
        /\ row' = [row EXCEPT ![u] =
             [row[u] EXCEPT !.state = "DELETED", !.hash = None,
                            !.version = NextVersion(s, u)]]
  /\ Done(s)
  /\ UNCHANGED pair

\* A check that fails, a constraint violation, a lost connection or a stopped
\* server: the request ends without the statements it had left.
Abandon(s) == pc[s] # "idle" /\ Done(s) /\ UNCHANGED <<row, pair>>

-----------------------------------------------------------------------------
Init ==
  /\ row = [u \in Ids |->
              IF u \in Members
              THEN [NoAccount EXCEPT !.state = "LIVE", !.email = EmailOf[u],
                      !.password = First,
                      !.role = IF u \in Roots THEN "ADMIN" ELSE "USER"]
              ELSE NoAccount]
  /\ pair = [t \in Tokens |-> NoPair]
  /\ pc = [s \in Slots |-> "idle"]
  /\ req = [s \in Slots |-> NoRequest]

Call(s) ==
  \/ \E e \in Emails : Register(s, e)
  \/ \E u \in Ids : Login(s, u)
  \/ \E t \in Tokens :
       \/ Refresh(s, t)
       \/ Logout(s, t)
       \/ \E e \in Emails : UpdateMe(s, t, e)
       \/ \E p \in Passwords : ChangePassword(s, t, p)
       \/ \E u \in Ids, r \in Roles : ChangeRole(s, t, u, r)
       \/ \E u \in Ids : DeleteUser(s, t, u)

Step(s) ==
  \/ \E u \in Ids : CreateUser(s, u)
  \/ \E t \in Tokens : IssueTokenPair(s, t)
  \/ ClearHash(s) \/ WriteEmail(s)
  \/ ComparePassword(s) \/ WritePassword(s)
  \/ UpdateRole(s) \/ AdminDelete(s)

Next == \E s \in Slots : Call(s) \/ Step(s) \/ Abandon(s)

Spec == Init /\ [][Next]_vars

-----------------------------------------------------------------------------
\* Rows, claims and requests have their types, and an address names one row,
\* though registrations and changes of address look only at live rows, early.
TypeOK ==
  /\ row \in [Ids -> Account]
  /\ \A u, v \in Ids : row[u].email = row[v].email => u = v \/ row[u].email = None
  /\ pair \in [Tokens -> Pair]
  /\ pc \in [Slots -> PCs]
  /\ req \in [Slots -> Request]

\* An access token the guard accepts was issued by an account that has not
\* changed since, not even in a change and back, or in a race with a sign-in
\* that had read the row before: its password is still the one it was issued on.
AcceptedIsCurrent ==
  \A t \in Tokens : Accepts(t) => pair[t].password = row[pair[t].sub].password

\* A session the account still honours was opened with its present password
\* and role, unless the row changed between the sign-in's read and its write.
SessionIsCurrent ==
  \A u \in Ids : Live(u) /\ row[u].hash # None =>
    LET session == pair[row[u].hash]
    IN session.stored = session.version =>
         session.password = row[u].password /\ session.role = row[u].role

\* Refresh tokens rotate: a refresh presents the one token its account honours
\* then, never one replaced or revoked before, and is given a fresh one.
Exchanging == {s \in Slots : pc[s] = "issue" /\ req[s].token # None}
Presented == {<<s, req[s].user, req[s].token>> : s \in Exchanging}
Sessions == INSTANCE Rotation WITH
  Accounts <- Ids,
  Requests <- Slots,
  session <- [u \in Ids |-> row[u].hash],
  issued <- Issued,
  presented <- Presented,
  from <- [t \in Tokens |-> pair[t].from]
RotationSpec == Sessions!Spec

-----------------------------------------------------------------------------
(* What the documentation says and the code, which compares the presented   *)
(* token before it writes the new one, does not keep.                       *)

\* A refresh token that has been used or revoked is exchanged for nothing: the pair
\* is given for the token its account honours at that moment.
RefreshesHonoured ==
  [][\A t \in Tokens : pair'[t].from # pair[t].from =>
       row[pair'[t].sub].hash = pair'[t].from]_vars
=============================================================================
