----------------------------- MODULE TenantUsers -----------------------------
(***************************************************************************)
(* The members of one tenant (tenant-user/tenant-user.service.ts): they    *)
(* are invited, claim their invitation when they sign in, and are changed  *)
(* and removed in transactions that lock the tenant row, so that the       *)
(* tenant keeps an owner who can manage it.  Sign-ins and the platform     *)
(* operator flag write the same rows without that lock.                    *)
(*                                                                         *)
(* Who calls is left out: a platform administrator may do whatever any     *)
(* other caller may (assertMayManageOwner and findCurrentCaller only       *)
(* refuse).  E-mail addresses are left out as well: a sign-in finds any    *)
(* invitation.                                                             *)
(***************************************************************************)
EXTENDS FiniteSets, Naturals

CONSTANTS
    Users,       \* tenant_user ids
    Identities,  \* external_user_id: subjects that sign in
    Requests,    \* update and delete requests that may run at the same time
    Flaggers,    \* setPlatformOperator requests
    None         \* a field that is not set

ASSUME UsersAssumption ==
    /\ IsFiniteSet(Users)
    /\ None \notin Identities /\ None \notin {"owner", "admin", "member"}
    /\ None \notin {"active", "invited", "disabled"}

VARIABLES
    rows,   \* the tenant_user rows
    tx,     \* each request: what it was asked, the row it read, where it is
    login,  \* the invitation that each subject's sign-in is about to claim
    flag,   \* the row each setPlatformOperator has read
    lost    \* which writes have gone over a row that had changed since they read
            \* it: "tx", those of update and delete, or "flag"

vars == <<rows, tx, login, flag, lost>>

\* "member" stands for readonly as well: neither administers the tenant.
Roles == {"owner", "admin", "member"}
Statuses == {"active", "invited", "disabled"}
Row == [role : Roles, status : Statuses, id : Identities \cup {None}]
NoRow == [role |-> None, status |-> None, id |-> None]

Tx == [pc : {"check", "save"}, kind : {"update", "delete"}, user : Users,
       role : Roles \cup {None}, status : Statuses \cup {None}, copy : Row]
NoTx == [pc |-> "idle"]

Flag == [user : Users, copy : Row]
NoFlag == [copy |-> NoRow]

TypeOK ==
    /\ rows \in [Users -> Row \cup {NoRow}]
    /\ tx \in [Requests -> Tx \cup {NoTx}]
    /\ login \in [Identities -> Users \cup {None}]
    /\ flag \in [Flaggers -> Flag \cup {NoFlag}]
    /\ lost \subseteq {"tx", "flag"}

isAdministrator(role) == role \in {"owner", "admin"}

Owners == {u \in Users : rows[u].role = "owner"}
ActiveOwners == {u \in Owners : rows[u].status = "active"}
ActiveAdministrators ==
    {u \in Users : isAdministrator(rows[u].role) /\ rows[u].status = "active"}

\* uq_tenant_user_external_user.
Taken(id, u) == id # None /\ \E v \in Users \ {u} : rows[v].id = id

\* The tenant is created with its first owner, invited.
Init ==
    /\ \E u \in Users :
          rows = [v \in Users |->
                    IF v = u THEN [role |-> "owner", status |-> "invited", id |-> None]
                    ELSE NoRow]
    /\ tx = [q \in Requests |-> NoTx]
    /\ login = [k \in Identities |-> None]
    /\ flag = [f \in Flaggers |-> NoFlag]
    /\ lost = {}

-----------------------------------------------------------------------------
(* POST /tenants/:tenantId/users *)

invite(u, role) ==
    /\ rows[u] = NoRow
    /\ rows' = [rows EXCEPT ![u] = [role |-> role, status |-> "invited", id |-> None]]
    /\ UNCHANGED <<tx, login, flag, lost>>

-----------------------------------------------------------------------------
(* Sign-in: claimAllInvitedByEmail, in one tenant *)

\* The invitation is looked up, unless this subject already has a row here.
FindInvite(k, u) ==
    /\ login[k] = None
    /\ rows[u].status = "invited" /\ rows[u].id = None
    /\ \A v \in Users : rows[v].id # k
    /\ login' = [login EXCEPT ![k] = u]
    /\ UNCHANGED <<rows, tx, flag, lost>>

\* Mutant: an invitation is claimed for as long as it is invited.
Claimable_Invited(u) == rows[u].status = "invited"

Claimable(u) == rows[u].status = "invited" /\ rows[u].id = None

\* claimInvitedById: one UPDATE.  It fails if the subject has a row by now.
claimInvited(k) ==
    LET u == login[k]
    IN  /\ u # None
        /\ rows' = IF Claimable(u) /\ ~Taken(k, u)
                   THEN [rows EXCEPT ![u].status = "active", ![u].id = k] ELSE rows
        /\ login' = [login EXCEPT ![k] = None]
        /\ UNCHANGED <<tx, flag, lost>>

-----------------------------------------------------------------------------
(* update and delete: transactions under the lock on the tenant row *)

\* Mutant: the tenant row is read without FOR UPDATE.
Unlocked_Always == TRUE

\* findByIdForUpdate.
Unlocked == \A q \in Requests : tx[q] = NoTx

Begin(q, kind, u, role, status) ==
    /\ tx[q] = NoTx /\ Unlocked
    /\ rows[u] # NoRow
    /\ tx' = [tx EXCEPT ![q] = [pc |-> "check", kind |-> kind, user |-> u,
                                role |-> role, status |-> status, copy |-> rows[u]]]
    /\ UNCHANGED <<rows, login, flag, lost>>

update(q, u, role, status) == Begin(q, "update", u, role, status)

delete(q, u) == Begin(q, "delete", u, None, None)

\* What the change takes away from the row that was read.
losesOwner(t) ==
    t.copy.role = "owner" /\ (t.kind = "delete" \/ t.role \notin {None, "owner"})

\* Mutant: disabling an owner is not seen as losing one.
losesActiveOwnerAccess_Role(t) == losesOwner(t) /\ t.copy.status = "active"

losesActiveOwnerAccess(t) ==
    /\ t.copy.status = "active" /\ t.copy.role = "owner"
    /\ \/ t.kind = "delete"
       \/ t.role \notin {None, "owner"}
       \/ t.status \notin {None, "active"}

losesAdministratorAccess(t) ==
    /\ t.copy.status = "active" /\ isAdministrator(t.copy.role)
    /\ \/ t.kind = "delete"
       \/ t.role # None /\ ~isAdministrator(t.role)
       \/ t.status \notin {None, "active"}

\* The counts, each a query of its own: another must remain.
Check(q) ==
    LET t == tx[q]
        allowed == /\ losesOwner(t) => Cardinality(Owners) > 1
                   /\ losesActiveOwnerAccess(t) => Cardinality(ActiveOwners) > 1
                   /\ losesAdministratorAccess(t) => Cardinality(ActiveAdministrators) > 1
    IN  /\ t.pc = "check"
        /\ tx' = [tx EXCEPT ![q] = IF allowed THEN [t EXCEPT !.pc = "save"] ELSE NoTx]
        /\ UNCHANGED <<rows, login, flag, lost>>

\* The row as it was read, with the fields of the request.
Updated(t) ==
    [role   |-> IF t.role = None THEN t.copy.role ELSE t.role,
     status |-> IF t.status = None THEN t.copy.status ELSE t.status,
     id     |-> t.copy.id]

\* repository.save writes every column that differs from the table, and a
\* delete goes by the id alone.
Save(q) ==
    LET t == tx[q]
        new == IF t.kind = "delete" THEN NoRow ELSE Updated(t)
    IN  /\ t.pc = "save"
        /\ IF Taken(new.id, t.user) THEN UNCHANGED <<rows, lost>>
           ELSE /\ rows' = [rows EXCEPT ![t.user] = new]
                /\ lost' = IF rows[t.user] = t.copy THEN lost ELSE lost \cup {"tx"}
        /\ tx' = [tx EXCEPT ![q] = NoTx]
        /\ UNCHANGED <<login, flag>>

\* The process dies and the database takes the transaction back.
Rollback(q) ==
    /\ tx[q] # NoTx
    /\ tx' = [tx EXCEPT ![q] = NoTx]
    /\ UNCHANGED <<rows, login, flag, lost>>

-----------------------------------------------------------------------------
(* setPlatformOperator: read, set the flag, save the whole row, no lock *)

ReadFlag(f, u) ==
    /\ flag[f] = NoFlag /\ rows[u] # NoRow
    /\ flag' = [flag EXCEPT ![f] = [user |-> u, copy |-> rows[u]]]
    /\ UNCHANGED <<rows, tx, login, lost>>

\* A row removed since is inserted again.
SaveFlag(f) ==
    LET u == flag[f].user
    IN  /\ flag[f] # NoFlag
        /\ IF Taken(flag[f].copy.id, u) THEN UNCHANGED <<rows, lost>>
           ELSE /\ rows' = [rows EXCEPT ![u] = flag[f].copy]
                /\ lost' = IF rows[u] = flag[f].copy THEN lost ELSE lost \cup {"flag"}
        /\ flag' = [flag EXCEPT ![f] = NoFlag]
        /\ UNCHANGED <<tx, login>>

-----------------------------------------------------------------------------

Next ==
    \/ \E u \in Users, role \in Roles : invite(u, role)
    \/ \E k \in Identities : claimInvited(k) \/ \E u \in Users : FindInvite(k, u)
    \/ \E q \in Requests :
          \/ \E u \in Users :
                \/ delete(q, u)
                \/ \E role \in Roles \cup {None}, status \in Statuses \cup {None} :
                      update(q, u, role, status)
          \/ Check(q) \/ Save(q) \/ Rollback(q)
    \/ \E f \in Flaggers : SaveFlag(f) \/ \E u \in Users : ReadFlag(f, u)

Spec == Init /\ [][Next]_vars

-----------------------------------------------------------------------------
(* Properties *)

\* The tenant always has an owner, be it one that is still invited: the count
\* that a demotion or a removal relies on stays true until it is written, since
\* only the holder of the tenant lock changes a role.  The exception is
\* setPlatformOperator, whose save may put back an earlier role.
OwnerRemains == TypeOK /\ (Owners # {} \/ "flag" \in lost)

\* A tenant that can be managed stays so: no sequence of demotions, removals
\* and sign-ins takes the last active owner, or the last active administrator,
\* unless a write went over a row that had changed since it was read (a claim
\* between the read and the write of the same row, or the flag).
AccessStays ==
    [][lost' = {} =>
         /\ ActiveOwners # {} => ActiveOwners' # {}
         /\ ActiveAdministrators # {} => ActiveAdministrators' # {}]_vars

\* The subject that claimed a membership keeps it until it is removed: neither
\* another sign-in with the same address nor a change by an administrator takes
\* it over, unless by such a write.
IdentityStands ==
    [][\A u \in Users :
          (rows[u].id # None /\ rows'[u].id # rows[u].id) =>
             rows'[u] = NoRow \/ lost' # {}]_vars

=============================================================================
