------------------------------ MODULE Members -------------------------------
(***************************************************************************)
(* The administrators' side of the accounts: users.service.ts and          *)
(* prisma-users.repository.ts, changing a role and deactivating a user.    *)
(* The service makes its checks outside the transaction; the transaction   *)
(* takes an advisory lock, makes them again and writes.                    *)
(***************************************************************************)
EXTENDS Database

\* The last active administrator is neither demoted nor deleted.
NotLastAdmin(u) == role[u] = "ADMIN" => Cardinality(ActiveAdmins) > 1

\* pg_advisory_xact_lock, held until the transaction ends.
Administering(t) == pc[t] \in {"roleWrite", "deleteWrite"}
\* Mutant: the advisory lock is not taken.
AdvisoryFree_NoLock(s) == TRUE
AdvisoryFree(s) == \A t \in Slots \ {s} : ~Administering(t)

\* PATCH /users/:id/role by administrator a.
ChangeRole(s, a, u, r) ==
  /\ "ChangeRole" \in Handlers
  /\ IsAdmin(a)
  /\ IsUser(u)
  /\ a # u
  /\ role[u] # r
  /\ NotLastAdmin(u)
  /\ Begin(s, "role", [NoRequest EXCEPT !.op = "role", !.user = u, !.new = r])

\* What the transaction checks again before a demotion, and before a deletion.
\* Mutant: nothing.
MayDemote_Trusting(u, r) == TRUE
MayDemote(u, r) == r # "ADMIN" => NotLastAdmin(u)
MayDelete(u) == NotLastAdmin(u) /\ ~Owes(u)

\* The lock, the user read again, and the administrators counted again.
LockRole(s) ==
  /\ pc[s] = "role"
  /\ AdvisoryFree(s)
  /\ IsUser(req[s].user)
  /\ MayDemote(req[s].user, req[s].new)
  /\ At(s, "roleWrite")
  /\ req' = [req EXCEPT ![s] = [@ EXCEPT !.old = role[req[s].user]]]
  /\ UNCHANGED <<tables, hold, pend>>

WriteRole(s) ==
  /\ pc[s] = "roleWrite"
  /\ role' = [role EXCEPT ![req[s].user] = req[s].new]
  /\ userAudit' = [userAudit EXCEPT ![req[s].user] =
                     [old |-> req[s].old, new |-> req[s].new]]
  /\ Finish(s)
  /\ UNCHANGED <<deletedAt, copyTables, bookTables, loanTables, cart>>

\* DELETE /users/:id by administrator a.
DeleteUser(s, a, u) ==
  /\ "DeleteUser" \in Handlers
  /\ IsAdmin(a)
  /\ IsUser(u)
  /\ a # u
  /\ NotLastAdmin(u)
  /\ Begin(s, "delete", [NoRequest EXCEPT !.op = "delete", !.user = u])

\* As LockRole, and the user's unreturned loans are counted.
LockUser(s) ==
  /\ pc[s] = "delete"
  /\ AdvisoryFree(s)
  /\ IsUser(req[s].user)
  /\ MayDelete(req[s].user)
  /\ At(s, "deleteWrite")
  /\ req' = [req EXCEPT ![s] = [@ EXCEPT !.old = role[req[s].user]]]
  /\ UNCHANGED <<tables, hold, pend>>

\* Mutant: the cart is kept.
EmptyCart_Kept(u) == cart' = cart
EmptyCart(u) == cart' = [cart EXCEPT ![u] = {}]

\* The soft delete empties the cart and writes the audit row.
WriteDelete(s) ==
  /\ pc[s] = "deleteWrite"
  /\ deletedAt' = [deletedAt EXCEPT ![req[s].user] = TRUE]
  /\ EmptyCart(req[s].user)
  /\ userAudit' = [userAudit EXCEPT ![req[s].user] =
                     [old |-> req[s].old, new |-> "DELETED"]]
  /\ Finish(s)
  /\ UNCHANGED <<role, copyTables, bookTables, loanTables>>

MembersCall(s) ==
  \E a, u \in Users :
    \/ \E r \in Roles : ChangeRole(s, a, u, r)
    \/ DeleteUser(s, a, u)

MembersStep(s) == LockRole(s) \/ WriteRole(s) \/ LockUser(s) \/ WriteDelete(s)
=============================================================================
