--------------------------- MODULE AccountsProofs ---------------------------
(***************************************************************************)
(* Accounts and sessions, proved for any number of accounts, requests and  *)
(* tokens.  The argument is that a version names a state of the account:   *)
(* whoever has read the row, and every pair issued from such a reading,    *)
(* either lags behind the row's version or agrees with its password and    *)
(* role.                                                                   *)
(***************************************************************************)
EXTENDS Accounts, TLAPS

\* What was read of an account is older than its row, or agrees with it.
Lags(read, account) ==
  /\ account.state # "NONE"
  /\ read.version <= account.version
  /\ read.version = account.version =>
       read.password = account.password /\ read.role = account.role

Touching == {"logout", "email", "password", "passwordWrite", "role", "delete"}
PairsLag == \A t \in Issued : pair[t].sub \in Ids /\ Lags(pair[t], row[pair[t].sub])
ReadsLag ==
  \A s \in Slots :
    /\ pc[s] = "issue" => req[s].user \in Ids /\ Lags(req[s].seen, row[req[s].user])
    /\ pc[s] \in Touching => req[s].user \in Ids /\ row[req[s].user].state # "NONE"
HashesStored ==
  \A u \in Ids : row[u].hash # None =>
    LET session == pair[row[u].hash]
    IN /\ row[u].hash \in Issued
       /\ session.sub = u
       /\ session.stored = session.version =>
            session.password = row[u].password /\ session.role = row[u].role
IInv == TypeOK /\ PairsLag /\ ReadsLag /\ HashesStored

\* The initial accounts are well typed, and nothing has been issued.
LEMMA InitIInv == Init => IInv
<1> SUFFICES ASSUME Init PROVE IInv
  OBVIOUS
<1> USE AccountAssumption DEF Init
<1>1. row \in [Ids -> Account] /\ \A u \in Ids : row[u].hash = None
  BY DEF Account, NoAccount, Roles
<1>2. \A u, v \in Ids : row[u].email = row[v].email => u = v \/ row[u].email = None
  BY DEF NoAccount
<1>3. pair \in [Tokens -> Pair] /\ pc \in [Slots -> PCs]
  BY DEF Pair, NoPair, Roles, PCs
<1>4. req \in [Slots -> Request]
  BY DEF Request, NoRequest, Account, NoAccount, Roles
<1>5. Issued = {}
  BY DEF Issued
<1>6. PairsLag /\ ReadsLag /\ HashesStored
  BY <1>1, <1>5 DEF PairsLag, ReadsLag, HashesStored, Touching
<1> QED
  BY <1>1, <1>2, <1>3, <1>4, <1>6 DEF IInv, TypeOK

-----------------------------------------------------------------------------
\* No row goes back: versions grow, and with the version the password and the
\* role stay.
Forward ==
  \A u \in Ids : row[u].state # "NONE" =>
    /\ row'[u].state # "NONE"
    /\ row[u].version <= row'[u].version
    /\ row[u].version = row'[u].version =>
         row[u].password = row'[u].password /\ row[u].role = row'[u].role

\* What a reading agreed with, it lags behind or agrees with after any step.
LEMMA AgreementKept ==
  ASSUME TypeOK, TypeOK', Forward, NEW u \in Ids, NEW read \in Account \cup Pair, Lags(read, row[u])
  PROVE  Lags(read, row'[u])
<1>1. row[u] \in Account /\ row'[u] \in Account /\ read.version \in Nat
  BY DEF TypeOK, Account, Pair
<1>2. row[u].version \in Nat /\ row'[u].version \in Nat
  BY <1>1 DEF Account
<1> QED
  BY <1>1, <1>2 DEF Lags, Forward

\* Steps that issue nothing keep the claims of every pair behind its account.
LEMMA PairsKept ==
  ASSUME IInv, TypeOK', Forward, UNCHANGED pair
  PROVE  PairsLag'
<1>1. Issued' = Issued
  BY DEF Issued
<1>2. ASSUME NEW t \in Issued
      PROVE  pair[t].sub \in Ids /\ Lags(pair[t], row'[pair[t].sub])
  <2>1. pair[t] \in Pair /\ pair[t].sub \in Ids /\ Lags(pair[t], row[pair[t].sub])
    BY DEF IInv, TypeOK, PairsLag, Issued
  <2>2. Lags(pair[t], row'[pair[t].sub])
    <3>1. PICK u \in Ids : u = pair[t].sub
      BY <2>1
    <3>2. PICK read \in Account \cup Pair : read = pair[t]
      BY <2>1
    <3>3. Lags(read, row'[u])
      BY <2>1, <3>1, <3>2, AgreementKept DEF IInv
    <3> QED
      BY <3>1, <3>2, <3>3 DEF Lags
  <2> QED
    BY <2>1, <2>2
<1> QED
  BY <1>1, <1>2 DEF PairsLag, Lags

\* A slot that moves on with something agreed, or holding nothing, leaves the
\* readings of the others as they were.
LEMMA ReadsKept ==
  ASSUME IInv, TypeOK', Forward, NEW s \in Slots, NEW label \in PCs, NEW r \in Request,
         Goto(s, label, r),
         label = "issue" => r.user \in Ids /\ Lags(r.seen, row'[r.user]),
         label \in Touching => r.user \in Ids /\ row'[r.user].state # "NONE"
  PROVE  ReadsLag'
<1>1. ASSUME NEW x \in Slots
      PROVE  /\ pc'[x] = "issue" => req'[x].user \in Ids /\ Lags(req'[x].seen, row'[req'[x].user])
             /\ pc'[x] \in Touching => req'[x].user \in Ids /\ row'[req'[x].user].state # "NONE"
  <2>1. CASE x = s
    <3>1. pc'[x] = label /\ req'[x] = r
      BY <2>1 DEF Goto, IInv, TypeOK
    <3> QED
      BY <3>1 DEF Lags
  <2>2. CASE x # s
    <3>1. pc'[x] = pc[x] /\ req'[x] = req[x] /\ req[x] \in Request
      BY <2>2 DEF Goto, IInv, TypeOK
    <3>2. ASSUME pc[x] = "issue"
          PROVE  req[x].user \in Ids /\ Lags(req[x].seen, row'[req[x].user])
      <4>1. req[x].user \in Ids /\ Lags(req[x].seen, row[req[x].user])
        BY <3>2 DEF IInv, ReadsLag
      <4>2. PICK u \in Ids : u = req[x].user
        BY <4>1
      <4>3. PICK read \in Account \cup Pair : read = req[x].seen
        BY <3>1 DEF Request
      <4>4. Lags(read, row'[u])
        BY <4>1, <4>2, <4>3, AgreementKept DEF IInv
      <4> QED
        BY <4>1, <4>2, <4>3, <4>4 DEF Lags
    <3>3. ASSUME pc[x] \in Touching
          PROVE  req[x].user \in Ids /\ row'[req[x].user].state # "NONE"
      BY <3>3 DEF IInv, ReadsLag, Forward
    <3> QED
      BY <3>1, <3>2, <3>3 DEF Lags
  <2> QED
    BY <2>1, <2>2
<1> QED
  BY <1>1 DEF ReadsLag, Lags

\* The requests keep their types when a slot moves on.
LEMMA SlotsTyped ==
  ASSUME TypeOK, NEW s \in Slots, NEW label \in PCs, NEW r \in Request, Goto(s, label, r)
  PROVE  pc' \in [Slots -> PCs] /\ req' \in [Slots -> Request]
BY DEF TypeOK, Goto

\* A request that begins or reads changes no row.
LEMMA ReadingStep ==
  ASSUME IInv, NEW s \in Slots, NEW label \in PCs, NEW r \in Request,
         Goto(s, label, r), UNCHANGED <<row, pair>>,
         label = "issue" => r.user \in Ids /\ Lags(r.seen, row[r.user]),
         label \in Touching => r.user \in Ids /\ row[r.user].state # "NONE"
  PROVE  IInv'
<1>1. TypeOK'
  BY SlotsTyped DEF IInv, TypeOK
<1>2. Forward
  <2> SUFFICES ASSUME NEW u \in Ids PROVE row[u].version <= row[u].version
    BY DEF Forward
  <2> QED
    BY DEF IInv, TypeOK, Account
<1>3. PairsLag' /\ ReadsLag'
  BY <1>1, <1>2, PairsKept, ReadsKept
<1>4. HashesStored'
  BY DEF IInv, HashesStored, Issued
<1> QED
  BY <1>1, <1>3, <1>4 DEF IInv

\* A statement that writes one row keeps the invariant, if it takes no version
\* back, renews the version with the password and role, and ends the session
\* or keeps it with them.
LEMMA WritingStep ==
  ASSUME IInv, NEW s \in Slots, NEW label \in PCs, NEW r \in Request, Goto(s, label, r),
         NEW u \in Ids, NEW new \in Account,
         row' = [row EXCEPT ![u] = new], UNCHANGED pair,
         new.state # "NONE",
         \A v \in Ids \ {u} : row[v].email = new.email => new.email = None,
         row[u].state # "NONE" =>
           \/ new.version > row[u].version
           \/ /\ new.version = row[u].version
              /\ new.password = row[u].password /\ new.role = row[u].role,
         new.hash = None
           \/ /\ new.hash = row[u].hash
              /\ new.password = row[u].password /\ new.role = row[u].role,
         label = "issue" => r.user \in Ids /\ Lags(r.seen, row'[r.user]),
         label \notin Touching
  PROVE  IInv'
<1>1. TypeOK'
  <2>1. row' \in [Ids -> Account]
    BY DEF IInv, TypeOK
  <2>2. \A v, w \in Ids :
          row'[v].email = row'[w].email => v = w \/ row'[v].email = None
    BY DEF IInv, TypeOK
  <2> QED
    BY <2>1, <2>2, SlotsTyped DEF IInv, TypeOK
<1>2. Forward
  <2> SUFFICES ASSUME NEW v \in Ids, row[v].state # "NONE"
               PROVE  /\ row'[v].state # "NONE"
                      /\ row[v].version <= row'[v].version
                      /\ row[v].version = row'[v].version =>
                           row[v].password = row'[v].password /\ row[v].role = row'[v].role
    BY DEF Forward
  <2>1. row[v].version \in Nat /\ row[u].version \in Nat /\ new.version \in Nat
    BY DEF IInv, TypeOK, Account
  <2>2. row'[v] = IF v = u THEN new ELSE row[v]
    BY DEF IInv, TypeOK
  <2> QED
    BY <2>1, <2>2
<1>3. PairsLag' /\ ReadsLag'
  BY <1>1, <1>2, PairsKept, ReadsKept
<1>4. HashesStored'
  <2>1. Issued' = Issued
    BY DEF Issued
  <2>2. \A v \in Ids : row'[v] = IF v = u THEN new ELSE row[v]
    BY DEF IInv, TypeOK
  <2> QED
    BY <2>1, <2>2 DEF IInv, HashesStored
<1> QED
  BY <1>1, <1>3, <1>4 DEF IInv

\* Issuing a pair: the claims come from the reading, the row keeps its version.
LEMMA IssuingStep ==
  ASSUME IInv, NEW s \in Slots, NEW t \in Tokens, IssueTokenPair(s, t)
  PROVE  IInv'
<1>1. PICK u \in Ids, seen \in Account :
        /\ u = req[s].user /\ seen = req[s].seen /\ Lags(seen, row[u])
        /\ req[s].token \in Tokens \cup {None}
  BY DEF IssueTokenPair, IInv, ReadsLag, TypeOK, Request
<1>2. row[u] \in Account /\ u # 0 /\ t # None
  BY AccountAssumption DEF IInv, TypeOK
<1> DEFINE claims == [sub |-> u, email |-> seen.email, role |-> seen.role,
                      version |-> seen.version, password |-> seen.password,
                      stored |-> row[u].version, from |-> req[s].token]
           new == [row[u] EXCEPT !.hash = t]
<1>3. pair' = [pair EXCEPT ![t] = claims] /\ row' = [row EXCEPT ![u] = new]
  BY <1>1 DEF IssueTokenPair
<1>4. claims \in Pair /\ new \in Account /\ claims # NoPair
  BY <1>1, <1>2 DEF Pair, Account, NoPair
<1>5. /\ new.state = row[u].state /\ new.version = row[u].version
      /\ new.email = row[u].email /\ new.password = row[u].password
      /\ new.role = row[u].role /\ new.hash = t
  BY <1>2 DEF Account
<1>6. t \notin Issued
  BY DEF IssueTokenPair, Fresh
<1> HIDE DEF claims, new
<1>7. Goto(s, "idle", NoRequest) /\ NoRequest \in Request /\ "idle" \in PCs
  BY DEF IssueTokenPair, Done, NoRequest, Request, PCs, Account, NoAccount, Roles
<1>8. TypeOK'
  <2>1. row' \in [Ids -> Account] /\ pair' \in [Tokens -> Pair]
    BY <1>3, <1>4 DEF IInv, TypeOK
  <2>2. \A v, w \in Ids :
          row'[v].email = row'[w].email => v = w \/ row'[v].email = None
    BY <1>3, <1>5 DEF IInv, TypeOK
  <2> QED
    BY <2>1, <2>2, <1>7, SlotsTyped DEF IInv, TypeOK
<1>9. Forward
  <2> SUFFICES ASSUME NEW v \in Ids, row[v].state # "NONE"
               PROVE  /\ row'[v].state = row[v].state /\ row[v].version = row'[v].version
                      /\ row[v].version \in Nat
                      /\ row[v].password = row'[v].password /\ row[v].role = row'[v].role
    BY DEF Forward
  <2> QED
    BY <1>3, <1>5 DEF IInv, TypeOK, Account
<1>10. ReadsLag'
  BY <1>7, <1>8, <1>9, ReadsKept DEF Touching
<1>11. Issued' = Issued \cup {t}
  BY <1>3, <1>4 DEF Issued, IInv, TypeOK
<1>12. PairsLag'
  <2> SUFFICES ASSUME NEW o \in Issued'
               PROVE  pair'[o].sub \in Ids /\ Lags(pair'[o], row'[pair'[o].sub])
    BY DEF PairsLag
  <2>1. CASE o = t
    <3>1. pair'[o] = claims /\ row'[u] = new
      BY <2>1, <1>3 DEF IInv, TypeOK
    <3>2. Lags(claims, new) /\ claims.sub = u
      BY <1>1, <1>5 DEF Lags, claims
    <3> QED
      BY <3>1, <3>2
  <2>2. CASE o # t
    <3>1. pair'[o] = pair[o] /\ o \in Issued /\ pair[o] \in Pair
      BY <2>2, <1>3, <1>11 DEF IInv, TypeOK, Issued
    <3>2. pair[o].sub \in Ids /\ Lags(pair[o], row[pair[o].sub])
      BY <3>1 DEF IInv, PairsLag
    <3>3. PICK v \in Ids : v = pair[o].sub
      BY <3>2
    <3>4. PICK read \in Account \cup Pair : read = pair[o]
      BY <3>1
    <3>5. Lags(read, row'[v])
      BY <3>2, <3>3, <3>4, <1>8, <1>9, AgreementKept DEF IInv
    <3> QED
      BY <3>1, <3>2, <3>3, <3>4, <3>5
  <2> QED
    BY <2>1, <2>2
<1>13. HashesStored'
  <2>1. claims.sub = u /\ claims.stored = row[u].version /\ claims.version = seen.version
        /\ claims.password = seen.password /\ claims.role = seen.role
    BY DEF claims
  <2>2. \A v \in Ids : row'[v] = IF v = u THEN new ELSE row[v]
    BY <1>3 DEF IInv, TypeOK
  <2>3. \A o \in Issued : pair'[o] = pair[o]
    BY <1>3, <1>6 DEF IInv, TypeOK, Issued
  <2>4. pair'[t] = claims
    BY <1>3 DEF IInv, TypeOK
  <2> SUFFICES ASSUME NEW v \in Ids, row'[v].hash # None
               PROVE  /\ row'[v].hash \in Issued'
                      /\ pair'[row'[v].hash].sub = v
                      /\ pair'[row'[v].hash].stored = pair'[row'[v].hash].version =>
                           /\ pair'[row'[v].hash].password = row'[v].password
                           /\ pair'[row'[v].hash].role = row'[v].role
    BY DEF HashesStored
  <2>5. CASE v = u
    BY <2>1, <2>2, <2>4, <2>5, <1>1, <1>5, <1>11 DEF Lags
  <2>6. CASE v # u
    BY <2>2, <2>3, <2>6, <1>11 DEF IInv, HashesStored
  <2> QED
    BY <2>5, <2>6
<1> QED
  BY <1>8, <1>10, <1>12, <1>13 DEF IInv

\* The first statement of each request.
LEMMA CallStep ==
  ASSUME IInv, NEW s \in Slots, Call(s)
  PROVE  IInv'
<1>a. /\ NoRequest \in Request
      /\ {"insert", "issue", "logout", "email", "password", "role", "delete"} \subseteq PCs
  BY DEF NoRequest, Request, PCs, Account, NoAccount, Roles
<1>b. ASSUME NEW label \in PCs, NEW r \in Request, Begin(s, label, r),
             label = "issue" => r.user \in Ids /\ Lags(r.seen, row[r.user]),
             label \in Touching => r.user \in Ids /\ row[r.user].state # "NONE"
      PROVE  IInv'
  BY <1>b, ReadingStep DEF Begin
<1>c. ASSUME NEW u \in Ids, Live(u)
      PROVE  row[u] \in Account /\ Lags(row[u], row[u]) /\ row[u].state # "NONE"
  BY <1>c DEF Live, Lags, IInv, TypeOK, Account
<1>d. ASSUME NEW t \in Tokens, Accepts(t)
      PROVE  pair[t].sub \in Ids /\ row[pair[t].sub].state # "NONE"
  BY <1>d DEF Accepts, IInv, PairsLag, Lags
<1>1. ASSUME NEW e \in Emails, Register(s, e)
      PROVE  IInv'
  <2> DEFINE r == [NoRequest EXCEPT !.email = e, !.password = First]
  <2>1. r \in Request
    BY <1>a, AccountAssumption DEF Request
  <2>2. Begin(s, "insert", r)
    BY <1>1 DEF Register
  <2> HIDE DEF r
  <2> QED
    BY <1>a, <1>b, <2>1, <2>2 DEF Touching
<1>2. ASSUME NEW u \in Ids, Login(s, u)
      PROVE  IInv'
  BY <1>2, <1>a, <1>b, <1>c DEF Login, Touching, NoRequest, Request
<1>3. ASSUME NEW t \in Tokens, Refresh(s, t)
      PROVE  IInv'
  <2>1. PICK u \in Ids : u = pair[t].sub /\ Live(u)
    BY <1>3 DEF Refresh, IInv, PairsLag
  <2> QED
    BY <2>1, <1>3, <1>a, <1>b, <1>c DEF Refresh, Touching, NoRequest, Request
<1>4. ASSUME NEW t \in Tokens, Logout(s, t)
      PROVE  IInv'
  BY <1>4, <1>a, <1>b, <1>d DEF Logout, Touching, NoRequest, Request
<1>5. ASSUME NEW t \in Tokens, NEW e \in Emails, UpdateMe(s, t, e)
      PROVE  IInv'
  BY <1>5, <1>a, <1>b, <1>d DEF UpdateMe, Touching, NoRequest, Request
<1>6. ASSUME NEW t \in Tokens, NEW p \in Passwords, ChangePassword(s, t, p)
      PROVE  IInv'
  BY <1>6, <1>a, <1>b, <1>d DEF ChangePassword, Touching, NoRequest, Request
<1>7. ASSUME NEW t \in Tokens, NEW u \in Ids, NEW r \in Roles, ChangeRole(s, t, u, r)
      PROVE  IInv'
  BY <1>7, <1>a, <1>b, <1>c DEF ChangeRole, AsAdmin, Touching, NoRequest, Request
<1>8. ASSUME NEW t \in Tokens, NEW u \in Ids, DeleteUser(s, t, u)
      PROVE  IInv'
  BY <1>8, <1>a, <1>b, <1>c DEF DeleteUser, AsAdmin, Touching, NoRequest, Request
<1> QED
  BY <1>1, <1>2, <1>3, <1>4, <1>5, <1>6, <1>7, <1>8 DEF Call

\* The statements that follow.
LEMMA LaterStep ==
  ASSUME IInv, NEW s \in Slots, Step(s) \/ Abandon(s)
  PROVE  IInv'
<1>a. /\ NoRequest \in Request /\ {"idle", "issue", "passwordWrite"} \subseteq PCs
      /\ "idle" \notin Touching /\ "issue" \notin Touching /\ "passwordWrite" \in Touching
  BY DEF NoRequest, Request, PCs, Account, NoAccount, Roles, Touching
<1>b. \A u \in Ids : row[u] \in Account
  BY DEF IInv, TypeOK
<1>c. req[s] \in Request
  BY DEF IInv, TypeOK
<1>d. pc[s] \in Touching => req[s].user \in Ids /\ row[req[s].user].state # "NONE"
  BY DEF IInv, ReadsLag
<1>e. ASSUME NEW u \in Ids, NEW new \in Account, Done(s),
             row' = [row EXCEPT ![u] = new], UNCHANGED pair, new.state # "NONE",
             new.email = row[u].email \/ EmailFree(new.email, u),
             \/ new.version > row[u].version
             \/ /\ new.version = row[u].version
                /\ new.password = row[u].password /\ new.role = row[u].role,
             new.hash = None
               \/ /\ new.hash = row[u].hash
                  /\ new.password = row[u].password /\ new.role = row[u].role
      PROVE  IInv'
  <2>1. \A v \in Ids \ {u} : row[v].email = new.email => new.email = None
    BY <1>e DEF EmailFree, IInv, TypeOK
  <2>2. Goto(s, "idle", NoRequest)
    BY <1>e DEF Done
  <2> QED
    BY <1>a, <1>e, <2>1, <2>2, WritingStep
<1>1. ASSUME NEW u \in Ids, CreateUser(s, u)
      PROVE  IInv'
  <2> DEFINE new == [NoAccount EXCEPT !.state = "LIVE", !.email = req[s].email,
                                      !.password = req[s].password]
             r == [NoRequest EXCEPT !.user = u, !.seen = new]
  <2>1. /\ new \in Account /\ new.state = "LIVE" /\ new.hash = None
        /\ new.email = req[s].email
    BY <1>c DEF NoAccount, Account, Request, Roles
  <2>2. row' = [row EXCEPT ![u] = new] /\ Goto(s, "issue", r) /\ UNCHANGED pair
    BY <1>1 DEF CreateUser
  <2>3. row[u].state = "NONE" /\ EmailFree(new.email, u)
    BY <1>1, <2>1 DEF CreateUser
  <2>4. row'[u] = new
    BY <2>2 DEF IInv, TypeOK
  <2> HIDE DEF new
  <2>5. r \in Request /\ r.user = u /\ r.seen = new
    BY <2>1, <1>a DEF Request, NoRequest
  <2>6. Lags(new, row'[u])
    BY <2>1, <2>4 DEF Lags, Account
  <2> HIDE DEF r
  <2>7. \A v \in Ids \ {u} : row[v].email = new.email => new.email = None
    BY <2>3 DEF EmailFree
  <2> QED
    BY <1>a, <2>1, <2>2, <2>3, <2>5, <2>6, <2>7, WritingStep
<1>2. ASSUME NEW t \in Tokens, IssueTokenPair(s, t)
      PROVE  IInv'
  BY <1>2, IssuingStep
<1>3. ASSUME ClearHash(s)
      PROVE  IInv'
  <2>1. PICK u \in Ids : u = req[s].user /\ row[u].state # "NONE"
    BY <1>3, <1>d DEF ClearHash, Touching
  <2> DEFINE new == [row[u] EXCEPT !.hash = None]
  <2>2. /\ new \in Account /\ new.state = row[u].state /\ new.email = row[u].email
        /\ new.version = row[u].version /\ new.password = row[u].password
        /\ new.role = row[u].role /\ new.hash = None
    BY <1>b DEF Account
  <2>3. row' = [row EXCEPT ![u] = new] /\ Done(s) /\ UNCHANGED pair
    BY <1>3, <2>1 DEF ClearHash
  <2> HIDE DEF new
  <2> QED
    BY <1>e, <2>1, <2>2, <2>3
<1>4. ASSUME WriteEmail(s)
      PROVE  IInv'
  <2>1. PICK u \in Ids : u = req[s].user /\ row[u].state # "NONE"
    BY <1>4, <1>d DEF WriteEmail, Touching
  <2>v. PICK next \in Nat : next = row[u].version + 1 /\ next > row[u].version
    BY <1>b DEF Account
  <2> DEFINE new == [row[u] EXCEPT !.email = req[s].email, !.version = next]
  <2>2. /\ new \in Account /\ new.state = row[u].state /\ new.email = req[s].email
        /\ new.version > row[u].version /\ new.password = row[u].password
        /\ new.role = row[u].role /\ new.hash = row[u].hash
    BY <2>v, <1>b, <1>c DEF Account, Request
  <2>3. row' = [row EXCEPT ![u] = new] /\ Done(s) /\ UNCHANGED pair /\ EmailFree(req[s].email, u)
    BY <1>4, <2>1, <2>v DEF WriteEmail, NextVersion
  <2> HIDE DEF new
  <2> QED
    BY <1>e, <2>1, <2>2, <2>3
<1>5. ASSUME ComparePassword(s)
      PROVE  IInv'
  <2>1. PICK u \in Ids : u = req[s].user /\ Live(u)
    BY <1>5, <1>d DEF ComparePassword, Touching
  <2> DEFINE r == [req[s] EXCEPT !.seen = row[u]]
  <2>2. r \in Request /\ r.user = u
    BY <1>b, <1>c, <2>1 DEF Request
  <2>3. Goto(s, "passwordWrite", r) /\ UNCHANGED <<row, pair>>
    BY <1>5, <2>1 DEF ComparePassword
  <2>4. row[u].state # "NONE"
    BY <2>1 DEF Live
  <2> HIDE DEF r
  <2> QED
    BY <1>a, <2>2, <2>3, <2>4, ReadingStep
<1>6. ASSUME WritePassword(s)
      PROVE  IInv'
  <2>1. PICK u \in Ids : u = req[s].user /\ row[u].state # "NONE"
    BY <1>6, <1>d DEF WritePassword, Touching
  <2>v. PICK next \in Nat : next = row[u].version + 1 /\ next > row[u].version
    BY <1>b DEF Account
  <2> DEFINE new == [row[u] EXCEPT !.password = req[s].password, !.hash = None,
                                   !.version = next]
  <2>2. /\ new \in Account /\ new.state = row[u].state /\ new.email = row[u].email
        /\ new.version > row[u].version /\ new.hash = None
    BY <2>v, <1>b, <1>c DEF Account, Request
  <2>3. row' = [row EXCEPT ![u] = new] /\ Done(s) /\ UNCHANGED pair
    BY <1>6, <2>1, <2>v DEF WritePassword, NextVersion, Revoked
  <2> HIDE DEF new
  <2> QED
    BY <1>e, <2>1, <2>2, <2>3
<1>7. ASSUME UpdateRole(s)
      PROVE  IInv'
  <2>1. PICK u \in Ids : u = req[s].user /\ row[u].state # "NONE"
    BY <1>7, <1>d DEF UpdateRole, Touching
  <2>v. PICK next \in Nat : next = row[u].version + 1 /\ next > row[u].version
    BY <1>b DEF Account
  <2> DEFINE new == [row[u] EXCEPT !.role = req[s].role, !.hash = None,
                                   !.version = next]
  <2>2. /\ new \in Account /\ new.state = row[u].state /\ new.email = row[u].email
        /\ new.version > row[u].version /\ new.hash = None
    BY <2>v, <1>b, <1>c DEF Account, Request
  <2>3. row' = [row EXCEPT ![u] = new] /\ Done(s) /\ UNCHANGED pair
    BY <1>7, <2>1, <2>v DEF UpdateRole, NextVersion, Revoked
  <2> HIDE DEF new
  <2> QED
    BY <1>e, <2>1, <2>2, <2>3
<1>8. ASSUME AdminDelete(s)
      PROVE  IInv'
  <2>1. PICK u \in Ids : u = req[s].user
    BY <1>8, <1>d DEF AdminDelete, Touching
  <2>v. PICK next \in Nat : next = row[u].version + 1 /\ next > row[u].version
    BY <1>b DEF Account
  <2> DEFINE new == [row[u] EXCEPT !.state = "DELETED", !.hash = None,
                                   !.version = next]
  <2>2. /\ new \in Account /\ new.state = "DELETED" /\ new.email = row[u].email
        /\ new.version > row[u].version /\ new.hash = None
    BY <2>v, <1>b DEF Account
  <2>3. row' = [row EXCEPT ![u] = new] /\ Done(s) /\ UNCHANGED pair
    BY <1>8, <2>1, <2>v DEF AdminDelete, NextVersion
  <2> HIDE DEF new
  <2> QED
    BY <1>e, <2>2, <2>3
<1>9. ASSUME Abandon(s)
      PROVE  IInv'
  BY <1>9, <1>a, ReadingStep DEF Abandon, Done
<1> QED
  BY <1>1, <1>2, <1>3, <1>4, <1>5, <1>6, <1>7, <1>8, <1>9 DEF Step

\* Every step keeps the invariant.
LEMMA NextIInv == IInv /\ [Next]_vars => IInv'
<1> SUFFICES ASSUME IInv, [Next]_vars PROVE IInv'
  OBVIOUS
<1>1. CASE UNCHANGED vars
  BY <1>1 DEF vars, IInv, TypeOK, PairsLag, ReadsLag, HashesStored, Issued
<1>2. CASE Next
  BY <1>2, CallStep, LaterStep DEF Next
<1> QED
  BY <1>1, <1>2

LEMMA AlwaysIInv == Spec => []IInv
BY InitIInv, NextIInv, PTL DEF Spec

-----------------------------------------------------------------------------
\* Rows, claims and requests keep their types, and an address names one row
\* whatever registrations and changes of address run at once.
THEOREM AccountsTyped == Spec => []TypeOK
<1>1. IInv => TypeOK
  BY DEF IInv
<1> QED
  BY <1>1, AlwaysIInv, PTL

\* A token the guard accepts was issued by the account as it is now.
THEOREM AcceptedStayCurrent == Spec => []AcceptedIsCurrent
<1>1. IInv => AcceptedIsCurrent
  BY DEF IInv, PairsLag, Lags, AcceptedIsCurrent, Accepts
<1> QED
  BY <1>1, AlwaysIInv, PTL

\* Changing the password or the role ends every session but one whose sign-in
\* was overtaken by the change.
THEOREM SessionsStayCurrent == Spec => []SessionIsCurrent
<1>1. IInv => SessionIsCurrent
  BY DEF IInv, HashesStored, SessionIsCurrent
<1> QED
  BY <1>1, AlwaysIInv, PTL

-----------------------------------------------------------------------------
\* A request that goes on without a token, or ends, has none presented.
LEMMA PresentedKept ==
  ASSUME TypeOK, NEW s \in Slots, NEW label, NEW r, Goto(s, label, r),
         label # "issue" \/ r.token = None
  PROVE  /\ Presented' = {p \in Presented : p[1] # s}
         /\ s \notin Exchanging => Presented' = Presented
<1>1. \A x \in Slots : IF x = s THEN pc'[x] = label /\ req'[x] = r
                               ELSE pc'[x] = pc[x] /\ req'[x] = req[x]
  BY DEF Goto, TypeOK
<1>2. Exchanging' = Exchanging \ {s}
  BY <1>1 DEF Exchanging
<1>3. \A x \in Exchanging \ {s} : req'[x] = req[x]
  BY <1>1 DEF Exchanging
<1>4. Presented' = {p \in Presented : p[1] # s}
  BY <1>2, <1>3 DEF Presented
<1>5. s \notin Exchanging => {p \in Presented : p[1] # s} = Presented
  BY DEF Presented
<1> QED
  BY <1>4, <1>5

\* A refresh presents its token.
LEMMA PresentedMore ==
  ASSUME TypeOK, NEW s \in Slots, NEW r, Goto(s, "issue", r), r.token # None,
         s \notin Exchanging
  PROVE  Presented' = Presented \cup {<<s, r.user, r.token>>}
<1>1. \A x \in Slots : IF x = s THEN pc'[x] = "issue" /\ req'[x] = r
                               ELSE pc'[x] = pc[x] /\ req'[x] = req[x]
  BY DEF Goto, TypeOK
<1>2. Exchanging' = Exchanging \cup {s}
  BY <1>1 DEF Exchanging
<1>3. req'[s] = r /\ \A x \in Exchanging : req'[x] = req[x]
  BY <1>1 DEF Exchanging
<1> QED
  BY <1>2, <1>3 DEF Presented

\* What Rotation sees of the accounts.
Hashes == [u \in Ids |-> row[u].hash]
Exchanged == [t \in Tokens |-> pair[t].from]

\* A row is written, no pair is issued and no token presented.
LEMMA RowWritten ==
  ASSUME TypeOK, NEW s \in Slots, NEW label, NEW r, Goto(s, label, r),
         s \notin Exchanging, label # "issue" \/ r.token = None,
         NEW u \in Ids, NEW new, row' = [row EXCEPT ![u] = new], UNCHANGED pair
  PROVE  /\ Hashes' = [Hashes EXCEPT ![u] = new.hash]
         /\ UNCHANGED <<Issued, Presented, Exchanged>>
<1>1. Hashes' = [Hashes EXCEPT ![u] = new.hash]
  BY DEF Hashes, TypeOK
<1>2. Presented' = Presented
  BY PresentedKept
<1> QED
  BY <1>1, <1>2 DEF Issued, Exchanged

\* A pair is issued: the row honours its token, and the pair records the exchange.
LEMMA PairIssued ==
  ASSUME IInv, NEW s \in Slots, NEW t \in Tokens, IssueTokenPair(s, t)
  PROVE  \E u \in Ids :
           /\ u = req[s].user /\ t \notin Issued /\ s \in Slots /\ pc[s] = "issue"
           /\ Hashes' = [Hashes EXCEPT ![u] = t]
           /\ Issued' = Issued \cup {t}
           /\ Exchanged' = [Exchanged EXCEPT ![t] = req[s].token]
           /\ Goto(s, "idle", NoRequest)
<1>1. PICK u \in Ids : u = req[s].user
  BY DEF IssueTokenPair, IInv, ReadsLag
<1>2. row[u] \in Account /\ pair \in [Tokens -> Pair] /\ row \in [Ids -> Account]
  BY DEF IInv, TypeOK
<1> DEFINE claims == [sub |-> u, email |-> req[s].seen.email, role |-> req[s].seen.role,
                      version |-> req[s].seen.version, password |-> req[s].seen.password,
                      stored |-> row[u].version, from |-> req[s].token]
           new == [row[u] EXCEPT !.hash = t]
<1>3. pair' = [pair EXCEPT ![t] = claims] /\ row' = [row EXCEPT ![u] = new]
  BY <1>1 DEF IssueTokenPair
<1>4. claims # NoPair /\ claims.from = req[s].token
  BY AccountAssumption DEF NoPair
<1>5. new.hash = t
  BY <1>2 DEF Account
<1> HIDE DEF claims, new
<1>6. Hashes' = [Hashes EXCEPT ![u] = t]
  BY <1>2, <1>3, <1>5 DEF Hashes
<1>7. Issued' = Issued \cup {t}
  BY <1>2, <1>3, <1>4 DEF Issued
<1>8. Exchanged' = [Exchanged EXCEPT ![t] = req[s].token]
  BY <1>2, <1>3, <1>4 DEF Exchanged
<1> QED
  BY <1>1, <1>6, <1>7, <1>8 DEF IssueTokenPair, Fresh, Done

\* A request begins: a refresh presents the token its account honours, the others none.
LEMMA CallRotates ==
  ASSUME IInv, NEW s \in Slots, Call(s)
  PROVE  \/ \E u \in Ids : Sessions!Present(s, u)
         \/ UNCHANGED <<Hashes, Issued, Presented, Exchanged>>
<1>1. UNCHANGED <<row, pair>> /\ pc[s] = "idle"
  BY DEF Call, Register, Login, Refresh, Logout, UpdateMe, ChangePassword, ChangeRole,
         DeleteUser, Begin
<1>2. UNCHANGED <<Hashes, Issued, Exchanged>> /\ s \notin Exchanging
  BY <1>1 DEF Hashes, Issued, Exchanged, Exchanging
<1>3. ASSUME NEW label, NEW r, Begin(s, label, r), label # "issue" \/ r.token = None
      PROVE  UNCHANGED <<Hashes, Issued, Presented, Exchanged>>
  <2>1. Goto(s, label, r)
    BY <1>3 DEF Begin
  <2>2. Presented' = Presented
    BY <1>2, <1>3, <2>1, PresentedKept DEF IInv
  <2> QED
    BY <1>2, <2>2
<1>4. ASSUME NEW u \in Ids, Login(s, u)
      PROVE  UNCHANGED <<Hashes, Issued, Presented, Exchanged>>
  <2> DEFINE r == [NoRequest EXCEPT !.user = u, !.seen = row[u]]
  <2>1. Begin(s, "issue", r) /\ r.token = None
    BY <1>4 DEF Login, NoRequest
  <2> HIDE DEF r
  <2> QED
    BY <1>3, <2>1
<1>5. ASSUME NEW t \in Tokens, Refresh(s, t)
      PROVE  \E u \in Ids : Sessions!Present(s, u)
  <2>1. PICK u \in Ids : u = pair[t].sub
    BY <1>5 DEF Refresh, IInv, PairsLag
  <2> DEFINE r == [NoRequest EXCEPT !.user = u, !.seen = row[u], !.token = t]
  <2>2. Begin(s, "issue", r) /\ row[u].hash = t
    BY <1>5, <2>1 DEF Refresh, Honoured
  <2>3. r.token = t /\ r.user = u /\ t # None
    BY AccountAssumption DEF NoRequest
  <2> HIDE DEF r
  <2>4. Goto(s, "issue", r)
    BY <2>2 DEF Begin
  <2>5. Presented' = Presented \cup {<<s, u, t>>}
    BY <1>2, <2>3, <2>4, PresentedMore DEF IInv
  <2>6. \A p \in Presented : p[1] # s
    BY <1>2 DEF Presented
  <2>7. Hashes[u] = t
    BY <2>2 DEF Hashes
  <2>8. Sessions!Present(s, u)
    BY <1>2, <2>3, <2>5, <2>6, <2>7 DEF Sessions!Present, Hashes, Exchanged
  <2> QED
    BY <2>8
<1>6. ASSUME \/ \E e \in Emails : Register(s, e)
             \/ \E t \in Tokens :
                  \/ Logout(s, t)
                  \/ \E e \in Emails : UpdateMe(s, t, e)
                  \/ \E p \in Passwords : ChangePassword(s, t, p)
                  \/ \E u \in Ids, r \in Roles : ChangeRole(s, t, u, r)
                  \/ \E u \in Ids : DeleteUser(s, t, u)
      PROVE  UNCHANGED <<Hashes, Issued, Presented, Exchanged>>
  BY <1>3, <1>6 DEF Register, Logout, UpdateMe, ChangePassword, ChangeRole, DeleteUser
<1> QED
  BY <1>4, <1>5, <1>6 DEF Call

\* Accounts implements Rotation: only the token an account honours is presented for a
\* fresh one, so that one replaced or revoked is refused from then on.
THEOREM TokensRotate == Spec => RotationSpec
<1>1. Init => Sessions!Init
  <2> SUFFICES ASSUME Init PROVE Sessions!Init
    OBVIOUS
  <2>1. \A u \in Ids : row[u].hash = None
    BY DEF Init, NoAccount
  <2>2. Issued \subseteq Tokens /\ \A t \in Tokens : pair[t].from = None
    BY DEF Init, Issued, NoPair
  <2>3. Presented = {}
    BY DEF Init, Presented, Exchanging
  <2> QED
    BY <2>1, <2>2, <2>3 DEF Sessions!Init
<1>2. IInv /\ [Next]_vars => [Sessions!Next]_<<Hashes, Issued, Presented, Exchanged>>
  <2> SUFFICES ASSUME IInv, [Next]_vars
               PROVE  Sessions!Next \/ UNCHANGED <<Hashes, Issued, Presented, Exchanged>>
    OBVIOUS
  <2>0. TypeOK /\ \A u \in Ids : row[u] \in Account
    BY DEF IInv, TypeOK
  <2>1. CASE UNCHANGED vars
    BY <2>1 DEF vars, Hashes, Issued, Presented, Exchanging, Exchanged
  <2>2. CASE Next
    <3>1. PICK s \in Slots : Call(s) \/ Step(s) \/ Abandon(s)
      BY <2>2 DEF Next
    <3>2. pc[s] \in Touching => req[s].user \in Ids
      BY DEF IInv, ReadsLag
    <3>a. ASSUME NEW label, NEW r, Goto(s, label, r),
                 pc[s] # "issue", label # "issue" \/ r.token = None,
                 NEW u \in Ids, NEW new, row' = [row EXCEPT ![u] = new],
                 new.hash = None, UNCHANGED pair
          PROVE  Sessions!Next
      <4>1. s \notin Exchanging
        BY <3>a DEF Exchanging
      <4>2. /\ Hashes' = [Hashes EXCEPT ![u] = None]
            /\ UNCHANGED <<Issued, Presented, Exchanged>>
        BY <2>0, <3>a, <4>1, RowWritten
      <4>3. Sessions!Close(u)
        BY <4>2 DEF Sessions!Close, Hashes, Exchanged
      <4> QED
        BY <4>3 DEF Sessions!Next
    <3>3. CASE Call(s)
      BY <3>3, CallRotates DEF Sessions!Next
    <3>4. ASSUME Abandon(s)
          PROVE  Sessions!Next
      <4>1. Goto(s, "idle", NoRequest) /\ UNCHANGED <<row, pair>>
        BY <3>4 DEF Abandon, Done
      <4>2. Presented' = {p \in Presented : p[1] # s}
        BY <2>0, <4>1, PresentedKept
      <4>3. UNCHANGED <<Hashes, Issued, Exchanged>>
        BY <4>1 DEF Hashes, Issued, Exchanged
      <4>4. Sessions!Forget(s)
        BY <4>2, <4>3 DEF Sessions!Forget, Hashes, Exchanged
      <4> QED
        BY <4>4 DEF Sessions!Next
    <3>5. ASSUME NEW u \in Ids, CreateUser(s, u)
          PROVE  Sessions!Next
      <4> DEFINE new == [NoAccount EXCEPT !.state = "LIVE", !.email = req[s].email,
                                          !.password = req[s].password]
                 r == [NoRequest EXCEPT !.user = u, !.seen = new]
      <4>1. row' = [row EXCEPT ![u] = new] /\ UNCHANGED pair /\ Goto(s, "issue", r)
        BY <3>5 DEF CreateUser
      <4>2. new.hash = None /\ r.token = None /\ pc[s] # "issue"
        BY <3>5 DEF NoAccount, NoRequest, CreateUser
      <4> HIDE DEF new, r
      <4> QED
        BY <4>1, <4>2, <3>a
    <3>6. ASSUME NEW t \in Tokens, IssueTokenPair(s, t)
          PROVE  Sessions!Next
      <4>1. PICK u \in Ids :
              /\ u = req[s].user /\ t \notin Issued /\ pc[s] = "issue"
              /\ Hashes' = [Hashes EXCEPT ![u] = t] /\ Issued' = Issued \cup {t}
              /\ Exchanged' = [Exchanged EXCEPT ![t] = req[s].token]
              /\ Goto(s, "idle", NoRequest)
        BY <3>6, PairIssued
      <4>2. Sessions!Open(u, t)
        BY <4>1 DEF Sessions!Open, Hashes
      <4>3. CASE req[s].token = None
        <5>1. Exchanged[t] = None /\ Exchanged \in [Tokens -> Tokens \cup {None}]
          BY <2>0, <4>1 DEF Issued, Exchanged, NoPair, TypeOK, Pair
        <5>2. Exchanged' = Exchanged
          BY <4>1, <4>3, <5>1
        <5>3. Presented' = Presented
          BY <2>0, <4>1, <4>3, PresentedKept DEF Exchanging
        <5>4. Sessions!SignIn(u, t)
          BY <4>2, <5>2, <5>3 DEF Sessions!SignIn, Exchanged
        <5> QED
          BY <5>4 DEF Sessions!Next
      <4>4. CASE req[s].token # None
        <5>1. PICK x \in Tokens : x = req[s].token
          BY <2>0, <4>4 DEF TypeOK, Request
        <5>2. <<s, u, x>> \in Presented
          BY <4>1, <4>4, <5>1 DEF Presented, Exchanging
        <5>3. Presented' = {p \in Presented : p[1] # s}
          BY <2>0, <4>1, PresentedKept
        <5>4. \A p \in Presented : p[1] = s => p = <<s, u, x>>
          BY <4>1, <5>1 DEF Presented
        <5>5. Presented' = Presented \ {<<s, u, x>>}
          BY <5>3, <5>4
        <5>6. Sessions!Exchange(s, u, x, t)
          BY <4>1, <4>2, <5>1, <5>2, <5>5 DEF Sessions!Exchange, Exchanged
        <5> QED
          BY <5>6 DEF Sessions!Next
      <4> QED
        BY <4>3, <4>4
    <3>7. ASSUME ClearHash(s) \/ WritePassword(s) \/ UpdateRole(s) \/ AdminDelete(s)
          PROVE  Sessions!Next
      <4>1. PICK u \in Ids : u = req[s].user
        BY <3>2, <3>7 DEF Touching, ClearHash, WritePassword, UpdateRole, AdminDelete
      <4>2. PICK new : row' = [row EXCEPT ![u] = new] /\ new.hash = None
        <5>1. ASSUME ClearHash(s)
              PROVE  row' = [row EXCEPT ![u] = [row[u] EXCEPT !.hash = None]]
          BY <5>1, <4>1 DEF ClearHash
        <5>2. ASSUME WritePassword(s)
              PROVE  \E v : row' = [row EXCEPT ![u] =
                       [row[u] EXCEPT !.password = req[s].password, !.hash = None, !.version = v]]
          BY <5>2, <4>1 DEF WritePassword, Revoked
        <5>3. ASSUME UpdateRole(s)
              PROVE  \E v : row' = [row EXCEPT ![u] =
                       [row[u] EXCEPT !.role = req[s].role, !.hash = None, !.version = v]]
          BY <5>3, <4>1 DEF UpdateRole, Revoked
        <5>4. ASSUME AdminDelete(s)
              PROVE  \E v : row' = [row EXCEPT ![u] =
                       [row[u] EXCEPT !.state = "DELETED", !.hash = None, !.version = v]]
          BY <5>4, <4>1 DEF AdminDelete
        <5> QED
          BY <3>7, <5>1, <5>2, <5>3, <5>4, <2>0 DEF Account
      <4>3. UNCHANGED pair /\ Goto(s, "idle", NoRequest) /\ pc[s] # "issue"
        BY <3>7 DEF ClearHash, WritePassword, UpdateRole, AdminDelete, Done
      <4> QED
        BY <4>2, <4>3, <3>a
    <3>8. ASSUME WriteEmail(s)
          PROVE  UNCHANGED <<Hashes, Issued, Presented, Exchanged>>
      <4>1. PICK u \in Ids : u = req[s].user
        BY <3>2, <3>8 DEF Touching, WriteEmail
      <4>2. PICK new : row' = [row EXCEPT ![u] = new] /\ new.hash = row[u].hash
        <5>1. \E v : row' = [row EXCEPT ![u] =
                       [row[u] EXCEPT !.email = req[s].email, !.version = v]]
          BY <3>8, <4>1 DEF WriteEmail
        <5> QED
          BY <5>1, <2>0 DEF Account
      <4>3. UNCHANGED pair /\ Goto(s, "idle", NoRequest) /\ s \notin Exchanging
        BY <3>8 DEF WriteEmail, Done, Exchanging
      <4>4. /\ Hashes' = [Hashes EXCEPT ![u] = row[u].hash]
            /\ UNCHANGED <<Issued, Presented, Exchanged>>
        BY <2>0, <4>2, <4>3, RowWritten
      <4> QED
        BY <4>4 DEF Hashes
    <3>9. ASSUME ComparePassword(s)
          PROVE  UNCHANGED <<Hashes, Issued, Presented, Exchanged>>
      <4>1. /\ UNCHANGED <<row, pair>> /\ s \notin Exchanging
            /\ Goto(s, "passwordWrite", [req[s] EXCEPT !.seen = row[req[s].user]])
        BY <3>9 DEF ComparePassword, Exchanging
      <4>2. Presented' = Presented
        BY <2>0, <4>1, PresentedKept
      <4> QED
        BY <4>1, <4>2 DEF Hashes, Issued, Exchanged
    <3> QED
      BY <3>1, <3>3, <3>4, <3>5, <3>6, <3>7, <3>8, <3>9 DEF Step
  <2> QED
    BY <2>1, <2>2
<1> QED
  BY <1>1, <1>2, AlwaysIInv, PTL DEF Spec, RotationSpec, Sessions!Spec, Sessions!vars,
     Hashes, Exchanged
=============================================================================
