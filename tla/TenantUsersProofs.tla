-------------------------- MODULE TenantUsersProofs --------------------------
(***************************************************************************)
(* A tenant keeps an owner, keeps someone who can manage it, and a claimed *)
(* membership stays with its subject, for any number of users, subjects,   *)
(* requests and operator flags.                                            *)
(***************************************************************************)
EXTENDS TenantUsers, TLAPS, FiniteSetTheorems

\* Zenon is tried first; arithmetic and most of the sequences are left to SMT.
USE ZenonT(15), SMTT(30)

\* Somebody other than u is an owner, an active owner, an active administrator.
OtherOwner(u) == \E v \in Users \ {u} : rows[v].role = "owner"
OtherActiveOwner(u) ==
    \E v \in Users \ {u} : rows[v].role = "owner" /\ rows[v].status = "active"
OtherAdministrator(u) ==
    \E v \in Users \ {u} : isAdministrator(rows[v].role) /\ rows[v].status = "active"

\* What the holder of the tenant lock knows: the role of its row, and once it
\* has counted, that another remains for each access it is about to take.
TxFacts(t) ==
    /\ "flag" \notin lost => rows[t.user].role = t.copy.role
    /\ t.pc = "save" =>
         /\ losesOwner(t) /\ "flag" \notin lost => OtherOwner(t.user)
         /\ losesActiveOwnerAccess(t) /\ lost = {} => OtherActiveOwner(t.user)
         /\ losesAdministratorAccess(t) /\ lost = {} => OtherAdministrator(t.user)

\* One request holds the lock.
OneHolder == \A p, q \in Requests : tx[p] # NoTx /\ tx[q] # NoTx => p = q

UsersInv ==
    /\ TypeOK
    /\ OneHolder
    /\ \A q \in Requests : tx[q] # NoTx => TxFacts(tx[q])
    /\ Owners # {} \/ "flag" \in lost

-----------------------------------------------------------------------------
(* What the steps rest on *)

\* A count above one leaves another user.
LEMMA AnotherRemains ==
    ASSUME NEW S \in SUBSET Users, NEW u, Cardinality(S) > 1
    PROVE  S \ {u} # {}
<1>1. IsFiniteSet(S)
  BY UsersAssumption, FS_Subset
<1>2. CASE u \in S
  <2>1. Cardinality(S \ {u}) = Cardinality(S) - 1
    BY <1>1, <1>2, FS_RemoveElement
  <2>2. Cardinality(S) \in Nat
    BY <1>1, FS_CardinalityType
  <2>3. Cardinality(S \ {u}) # 0
    BY <2>1, <2>2
  <2> QED
    BY <2>3, FS_EmptySet
<1>3. CASE u \notin S
  <2>1. S \ {u} = S
    BY <1>3
  <2> QED
    BY <2>1, FS_EmptySet
<1> QED
  BY <1>2, <1>3

\* A request that runs has a record of its own, and no other runs.
LEMMA TxRecord ==
    ASSUME TypeOK, NEW q \in Requests, tx[q] # NoTx
    PROVE  /\ tx[q] \in Tx
           /\ tx[q].user \in Users /\ tx[q].copy \in Row
  BY DEF TypeOK, Tx

\* A row that is there is no NoRow.
LEMMA NoRowIsNone ==
    /\ NoRow.role = None /\ NoRow.status = None /\ NoRow.id = None
    /\ None \notin Roles /\ None \notin Statuses /\ None \notin Identities
    /\ NoRow \notin Row
  BY UsersAssumption DEF NoRow, Roles, Statuses, Row

\* A step that takes no role and no access from anyone, or that the
\* properties except.
Keeps ==
    \/ "flag" \in lost'
    \/ /\ lost' = lost
       /\ \A v \in Users :
             /\ rows[v].role # None => rows'[v].role = rows[v].role
             /\ rows[v].status = "active" => rows'[v].status = "active"

\* Such a step keeps what a request knows.
LEMMA KeepsFacts ==
    ASSUME TypeOK, Keeps, NEW t \in Tx, TxFacts(t)
    PROVE  TxFacts(t)'
<1>1. CASE "flag" \in lost'
  BY <1>1 DEF TxFacts
<1>2. CASE "flag" \notin lost'
  <2>1. /\ lost' = lost
        /\ \A v \in Users :
              /\ rows[v].role # None => rows'[v].role = rows[v].role
              /\ rows[v].status = "active" => rows'[v].status = "active"
    BY <1>2 DEF Keeps
  <2>2. t.user \in Users /\ t.copy.role # None
    BY NoRowIsNone DEF Tx, Row
  <2>3. rows'[t.user].role = t.copy.role
    BY <1>2, <2>1, <2>2 DEF TxFacts
  <2>4. \A u : OtherOwner(u) => OtherOwner(u)'
    BY <2>1, NoRowIsNone DEF OtherOwner, Roles
  <2>5. \A u : OtherActiveOwner(u) => OtherActiveOwner(u)'
    BY <2>1, NoRowIsNone DEF OtherActiveOwner, Roles
  <2>6. \A u : OtherAdministrator(u) => OtherAdministrator(u)'
    BY <2>1, NoRowIsNone DEF OtherAdministrator, isAdministrator, Roles
  <2>7. /\ t.pc = "save" /\ losesOwner(t) => OtherOwner(t.user)'
        /\ t.pc = "save" /\ losesActiveOwnerAccess(t) /\ lost = {} => OtherActiveOwner(t.user)'
        /\ t.pc = "save" /\ losesAdministratorAccess(t) /\ lost = {} => OtherAdministrator(t.user)'
    BY <1>2, <2>1, <2>4, <2>5, <2>6 DEF TxFacts
  <2> QED
    BY <2>1, <2>3, <2>7 DEF TxFacts, losesOwner, losesActiveOwnerAccess, losesAdministratorAccess
<1> QED
  BY <1>1, <1>2

\* It leaves the tenant an owner too.
LEMMA KeepsOwner ==
    ASSUME Keeps, Owners # {} \/ "flag" \in lost
    PROVE  Owners' # {} \/ "flag" \in lost'
  BY NoRowIsNone DEF Keeps, Owners, Roles

\* It also keeps what AccessStays asks for.
LEMMA KeepsAccess ==
    ASSUME Keeps, lost' = {}
    PROVE  /\ ActiveOwners # {} => ActiveOwners' # {}
           /\ ActiveAdministrators # {} => ActiveAdministrators' # {}
<1>1. \A v \in Users :
         /\ rows[v].role # None => rows'[v].role = rows[v].role
         /\ rows[v].status = "active" => rows'[v].status = "active"
  BY DEF Keeps
<1>2. ActiveOwners # {} => ActiveOwners' # {}
  BY <1>1, NoRowIsNone DEF ActiveOwners, Owners, Roles
<1>3. ActiveAdministrators # {} => ActiveAdministrators' # {}
  BY <1>1, NoRowIsNone DEF ActiveAdministrators, isAdministrator, Roles
<1> QED
  BY <1>2, <1>3

-----------------------------------------------------------------------------
(* What each kind of step does *)

\* An invitation adds a row.
LEMMA InviteStep ==
    ASSUME TypeOK, NEW u \in Users, NEW role \in Roles, invite(u, role)
    PROVE  TypeOK' /\ Keeps /\ tx' = tx
<1>1. [role |-> role, status |-> "invited", id |-> None] \in Row
  BY DEF Row, Statuses
<1>2. TypeOK'
  BY <1>1 DEF TypeOK, invite
<1>3. rows[u].role = None /\ rows[u].status = None
  BY NoRowIsNone DEF invite
<1>4. \A v \in Users : v # u => rows'[v] = rows[v]
  BY DEF TypeOK, invite
<1>5. Keeps
  BY <1>3, <1>4, NoRowIsNone DEF Keeps, invite, Statuses
<1> QED
  BY <1>2, <1>5 DEF invite

\* A claim makes an invitation active and changes no role.
LEMMA ClaimStep ==
    ASSUME TypeOK, NEW k \in Identities, claimInvited(k)
    PROVE  TypeOK' /\ Keeps /\ tx' = tx
<1>1. login[k] \in Users
  BY DEF TypeOK, claimInvited
<1>2. CASE Claimable(login[k]) /\ ~Taken(k, login[k])
  <2>1. rows' = [rows EXCEPT ![login[k]].status = "active", ![login[k]].id = k]
    BY <1>2 DEF claimInvited
  <2>2. rows[login[k]] \in Row
    BY <1>1, <1>2, NoRowIsNone DEF TypeOK, Claimable, Statuses
  <2>3. rows'[login[k]] = [rows[login[k]] EXCEPT !.status = "active", !.id = k]
    BY <1>1, <2>1 DEF TypeOK
  <2>4. /\ rows'[login[k]] \in Row
        /\ rows'[login[k]].role = rows[login[k]].role
        /\ rows'[login[k]].status = "active"
    BY <2>2, <2>3 DEF Row, Statuses
  <2>5. \A v \in Users : v # login[k] => rows'[v] = rows[v]
    BY <2>1 DEF TypeOK
  <2>6. rows' \in [Users -> Row \cup {NoRow}]
    BY <1>1, <2>1, <2>4, <2>5 DEF TypeOK
  <2>7. TypeOK'
    BY <2>6 DEF TypeOK, claimInvited
  <2> QED
    BY <2>4, <2>5, <2>7 DEF Keeps, claimInvited
<1>3. CASE ~(Claimable(login[k]) /\ ~Taken(k, login[k]))
  <2>1. rows' = rows
    BY <1>3 DEF claimInvited
  <2> QED
    BY <2>1 DEF TypeOK, Keeps, claimInvited
<1> QED
  BY <1>2, <1>3

\* Looking up an invitation writes no row.
LEMMA FindStep ==
    ASSUME TypeOK, NEW k \in Identities, NEW u \in Users, FindInvite(k, u)
    PROVE  TypeOK' /\ Keeps /\ tx' = tx
  BY DEF TypeOK, Keeps, FindInvite

\* Nor does reading one for the operator flag.
LEMMA ReadFlagStep ==
    ASSUME TypeOK, NEW f \in Flaggers, NEW u \in Users, ReadFlag(f, u)
    PROVE  TypeOK' /\ Keeps /\ tx' = tx
<1>1. rows[u] \in Row
  BY DEF TypeOK, ReadFlag
<1>2. [user |-> u, copy |-> rows[u]] \in Flag
  BY <1>1 DEF Flag
<1>3. TypeOK'
  BY <1>2 DEF TypeOK, ReadFlag
<1> QED
  BY <1>3 DEF Keeps, ReadFlag

\* The flag's save changes nothing, or goes over a row that had changed.
LEMMA SaveFlagStep ==
    ASSUME TypeOK, NEW f \in Flaggers, SaveFlag(f)
    PROVE  TypeOK' /\ Keeps /\ tx' = tx
<1>1. flag[f].user \in Users /\ flag[f].copy \in Row
  BY DEF TypeOK, SaveFlag, Flag
<1>2. /\ flag' \in [Flaggers -> Flag \cup {NoFlag}]
      /\ tx' = tx /\ login' = login
  BY DEF TypeOK, SaveFlag
<1>3. CASE Taken(flag[f].copy.id, flag[f].user)
  <2>1. rows' = rows /\ lost' = lost
    BY <1>3 DEF SaveFlag
  <2> QED
    BY <1>2, <2>1 DEF Keeps, TypeOK
<1>4. CASE ~Taken(flag[f].copy.id, flag[f].user)
  <2>1. /\ rows' = [rows EXCEPT ![flag[f].user] = flag[f].copy]
        /\ lost' = IF rows[flag[f].user] = flag[f].copy THEN lost ELSE lost \cup {"flag"}
    BY <1>4 DEF SaveFlag
  <2>2. TypeOK'
    BY <1>1, <1>2, <2>1 DEF TypeOK
  <2>3. CASE rows[flag[f].user] = flag[f].copy
    <3>1. \A v \in Users : rows'[v] = rows[v]
      BY <1>1, <2>1, <2>3 DEF TypeOK
    <3> QED
      BY <1>2, <2>1, <2>2, <2>3, <3>1 DEF Keeps
  <2>4. CASE rows[flag[f].user] # flag[f].copy
    BY <1>2, <2>1, <2>2, <2>4 DEF Keeps
  <2> QED
    BY <2>3, <2>4
<1> QED
  BY <1>3, <1>4

\* A request that gets the tenant lock reads its row: no other runs.
LEMMA BeginStep ==
    ASSUME UsersInv, NEW q \in Requests, NEW kind \in {"update", "delete"}, NEW u \in Users,
           NEW role \in Roles \cup {None}, NEW status \in Statuses \cup {None},
           Begin(q, kind, u, role, status)
    PROVE  UsersInv' /\ Keeps
<1>1. rows[u] \in Row
  BY DEF UsersInv, TypeOK, Begin
<1> DEFINE t == [pc |-> "check", kind |-> kind, user |-> u,
                 role |-> role, status |-> status, copy |-> rows[u]]
<1>2. PICK n \in Tx : n = t
  BY <1>1 DEF Tx
<1>3. tx' = [tx EXCEPT ![q] = n]
  BY <1>2 DEF Begin
<1>4. n.pc = "check" /\ n.user = u /\ n.copy = rows[u]
  BY <1>2
<1> HIDE DEF t
<1>5. \A p \in Requests : tx[p] = NoTx
  BY DEF Begin, Unlocked
<1>6. tx'[q] = n /\ \A p \in Requests : p # q => tx'[p] = NoTx
  BY <1>3, <1>5 DEF UsersInv, TypeOK
<1>7. /\ rows' = rows /\ lost' = lost
      /\ login' = login /\ flag' = flag
  BY DEF Begin
<1>8. TypeOK'
  BY <1>3, <1>7 DEF UsersInv, TypeOK
<1>9. OneHolder'
  BY <1>6 DEF OneHolder
<1>10. TxFacts(n)'
  BY <1>4, <1>7 DEF TxFacts
<1>11. Keeps
  BY <1>7 DEF Keeps
<1>12. Owners' # {} \/ "flag" \in lost'
  BY <1>11, KeepsOwner DEF UsersInv
<1> QED
  BY <1>6, <1>8, <1>9, <1>10, <1>11, <1>12 DEF UsersInv

\* A request that ends without a write leaves no holder.
LEMMA EndsStep ==
    ASSUME UsersInv, NEW q \in Requests, tx[q] # NoTx,
           tx' = [tx EXCEPT ![q] = NoTx]
    PROVE  /\ tx' \in [Requests -> Tx \cup {NoTx}]
           /\ \A p \in Requests : tx'[p] = NoTx
<1>1. \A p \in Requests : p # q => tx[p] = NoTx
  BY DEF UsersInv, OneHolder
<1>2. tx \in [Requests -> Tx \cup {NoTx}]
  BY DEF UsersInv, TypeOK
<1> QED
  BY <1>1, <1>2

\* What the counts find.
LEMMA CountStep ==
    ASSUME TypeOK, NEW t \in Tx,
           losesOwner(t) => Cardinality(Owners) > 1,
           losesActiveOwnerAccess(t) => Cardinality(ActiveOwners) > 1,
           losesAdministratorAccess(t) => Cardinality(ActiveAdministrators) > 1
    PROVE  /\ losesOwner(t) => OtherOwner(t.user)
           /\ losesActiveOwnerAccess(t) => OtherActiveOwner(t.user)
           /\ losesAdministratorAccess(t) => OtherAdministrator(t.user)
<1>1. /\ Owners \in SUBSET Users /\ ActiveOwners \in SUBSET Users
      /\ ActiveAdministrators \in SUBSET Users
  BY DEF Owners, ActiveOwners, ActiveAdministrators
<1>2. losesOwner(t) => Owners \ {t.user} # {}
  BY <1>1, AnotherRemains
<1>3. losesActiveOwnerAccess(t) => ActiveOwners \ {t.user} # {}
  BY <1>1, AnotherRemains
<1>4. losesAdministratorAccess(t) => ActiveAdministrators \ {t.user} # {}
  BY <1>1, AnotherRemains
<1>5. losesOwner(t) => OtherOwner(t.user)
  BY <1>2 DEF Owners, OtherOwner
<1>6. losesActiveOwnerAccess(t) => OtherActiveOwner(t.user)
  BY <1>3 DEF Owners, ActiveOwners, OtherActiveOwner
<1>7. losesAdministratorAccess(t) => OtherAdministrator(t.user)
  BY <1>4 DEF ActiveAdministrators, OtherAdministrator
<1> QED
  BY <1>5, <1>6, <1>7

\* A request that ends without a write keeps everything.
LEMMA QuietEnd ==
    ASSUME UsersInv, NEW q \in Requests, tx[q] # NoTx,
           tx' = [tx EXCEPT ![q] = NoTx],
           rows' = rows, lost' = lost, login' = login, flag' = flag
    PROVE  UsersInv' /\ Keeps
<1>1. /\ tx' \in [Requests -> Tx \cup {NoTx}]
      /\ \A p \in Requests : tx'[p] = NoTx
  BY EndsStep
<1>2. TypeOK' /\ OneHolder'
  BY <1>1 DEF UsersInv, TypeOK, OneHolder
<1>3. Keeps
  BY DEF Keeps
<1>4. Owners' # {} \/ "flag" \in lost'
  BY <1>3, KeepsOwner DEF UsersInv
<1> QED
  BY <1>1, <1>2, <1>3, <1>4 DEF UsersInv

\* The holder counts, or is refused.
LEMMA CheckStep ==
    ASSUME UsersInv, NEW q \in Requests, Check(q)
    PROVE  UsersInv' /\ Keeps
<1> DEFINE allowed == /\ losesOwner(tx[q]) => Cardinality(Owners) > 1
                      /\ losesActiveOwnerAccess(tx[q]) => Cardinality(ActiveOwners) > 1
                      /\ losesAdministratorAccess(tx[q]) => Cardinality(ActiveAdministrators) > 1
<1>1. /\ rows' = rows /\ lost' = lost /\ login' = login /\ flag' = flag
      /\ tx[q].pc = "check"
      /\ tx' = [tx EXCEPT ![q] = IF allowed THEN [tx[q] EXCEPT !.pc = "save"] ELSE NoTx]
  BY DEF Check
<1>2. tx[q] # NoTx
  BY <1>1 DEF NoTx
<1>3. tx[q] \in Tx
  BY <1>2, TxRecord DEF UsersInv
<1>4. CASE ~allowed
  <2>1. tx' = [tx EXCEPT ![q] = NoTx]
    BY <1>1, <1>4
  <2> HIDE DEF allowed
  <2> QED
    BY <1>1, <1>2, <2>1, QuietEnd
<1>5. CASE allowed
  <2>1. PICK n : n = [tx[q] EXCEPT !.pc = "save"]
    OBVIOUS
  <2>2. /\ n \in Tx /\ n.pc = "save" /\ n.kind = tx[q].kind /\ n.user = tx[q].user
        /\ n.role = tx[q].role /\ n.status = tx[q].status /\ n.copy = tx[q].copy
    BY <1>3, <2>1 DEF Tx
  <2>3. tx' = [tx EXCEPT ![q] = n]
    BY <1>1, <1>5, <2>1
  <2>4. /\ losesOwner(n) <=> losesOwner(tx[q])
        /\ losesActiveOwnerAccess(n) <=> losesActiveOwnerAccess(tx[q])
        /\ losesAdministratorAccess(n) <=> losesAdministratorAccess(tx[q])
    BY <2>2 DEF losesOwner, losesActiveOwnerAccess, losesAdministratorAccess
  <2>5. /\ losesOwner(n) => OtherOwner(n.user)
        /\ losesActiveOwnerAccess(n) => OtherActiveOwner(n.user)
        /\ losesAdministratorAccess(n) => OtherAdministrator(n.user)
    BY <1>5, <2>2, <2>4, CountStep DEF UsersInv
  <2>6. TxFacts(tx[q])
    BY <1>2 DEF UsersInv
  <2>7. TxFacts(n)
    BY <2>2, <2>5, <2>6 DEF TxFacts
  <2>8. Keeps
    BY <1>1 DEF Keeps
  <2>9. TxFacts(n)'
    BY <2>2, <2>7, <2>8, KeepsFacts DEF UsersInv
  <2>10. tx'[q] = n /\ \A p \in Requests : p # q => tx'[p] = NoTx
    BY <1>2, <2>3 DEF UsersInv, TypeOK, OneHolder
  <2>11. TypeOK'
    BY <1>1, <2>2, <2>3 DEF UsersInv, TypeOK
  <2>12. OneHolder'
    BY <2>10 DEF OneHolder
  <2>13. Owners' # {} \/ "flag" \in lost'
    BY <2>8, KeepsOwner DEF UsersInv
  <2> QED
    BY <2>8, <2>9, <2>10, <2>11, <2>12, <2>13 DEF UsersInv
<1> QED
  BY <1>4, <1>5

\* What the holder writes.
New(t) == IF t.kind = "delete" THEN NoRow ELSE Updated(t)

\* The fields of what it writes.
LEMMA NewRow ==
    ASSUME NEW t \in Tx
    PROVE  /\ New(t) \in Row \cup {NoRow}
           /\ ~losesOwner(t) /\ t.copy.role = "owner" => New(t).role = "owner"
           /\ t.copy.status = "active" /\ t.copy.role = "owner" /\ ~losesActiveOwnerAccess(t)
                => New(t).role = "owner" /\ New(t).status = "active"
           /\ t.copy.status = "active" /\ isAdministrator(t.copy.role)
              /\ ~losesAdministratorAccess(t)
                => isAdministrator(New(t).role) /\ New(t).status = "active"
           /\ New(t) # NoRow => New(t).id = t.copy.id
<1>1. t.kind # "delete" => New(t) \in Row
  BY DEF New, Updated, Tx, Row
<1>2. t.kind = "delete" => New(t) = NoRow
  BY DEF New
<1>3. t.kind # "delete" =>
         /\ New(t).role = IF t.role = None THEN t.copy.role ELSE t.role
         /\ New(t).status = IF t.status = None THEN t.copy.status ELSE t.status
         /\ New(t).id = t.copy.id
  BY DEF New, Updated
<1> QED
  BY <1>1, <1>2, <1>3 DEF losesOwner, losesActiveOwnerAccess, losesAdministratorAccess, isAdministrator

\* The holder's write leaves an owner and, unless it goes over a newer row,
\* takes no access away and moves no identity.
LEMMA SaveStep ==
    ASSUME UsersInv, NEW q \in Requests, Save(q)
    PROVE  /\ UsersInv'
           /\ lost' = {} =>
                /\ ActiveOwners # {} => ActiveOwners' # {}
                /\ ActiveAdministrators # {} => ActiveAdministrators' # {}
                /\ \A u \in Users : rows'[u].id # rows[u].id => rows'[u] = NoRow
<1>1. PICK t : t = tx[q]
  OBVIOUS
<1>2. tx[q] # NoTx
  BY DEF Save, NoTx
<1>3. /\ t \in Tx /\ t.pc = "save" /\ t.user \in Users /\ t.copy \in Row
      /\ TxFacts(t)
  BY <1>1, <1>2, TxRecord DEF UsersInv, Save
<1>4. /\ tx' = [tx EXCEPT ![q] = NoTx]
      /\ login' = login /\ flag' = flag
  BY DEF Save
<1>5. CASE Taken(New(t).id, t.user)
  <2>1. rows' = rows /\ lost' = lost
    BY <1>1, <1>5 DEF Save, New
  <2>2. UsersInv' /\ Keeps
    BY <1>2, <1>4, <2>1, QuietEnd
  <2> QED
    BY <2>1, <2>2, KeepsAccess
<1>6. CASE ~Taken(New(t).id, t.user)
  <2>1. /\ rows' = [rows EXCEPT ![t.user] = New(t)]
        /\ lost' = IF rows[t.user] = t.copy THEN lost ELSE lost \cup {"tx"}
    BY <1>1, <1>6 DEF Save, New
  <2>2. /\ rows'[t.user] = New(t)
        /\ \A v \in Users : v # t.user => rows'[v] = rows[v]
        /\ rows' \in [Users -> Row \cup {NoRow}]
    BY <1>3, <2>1, NewRow DEF UsersInv, TypeOK
  <2>3. /\ tx' \in [Requests -> Tx \cup {NoTx}]
        /\ \A p \in Requests : tx'[p] = NoTx
    BY <1>2, <1>4, EndsStep
  <2>4. TypeOK' /\ OneHolder'
    BY <1>4, <2>1, <2>2, <2>3 DEF UsersInv, TypeOK, OneHolder
  <2>5. ASSUME "flag" \notin lost'
        PROVE  Owners' # {}
    <3>1. "flag" \notin lost
      BY <2>1, <2>5
    <3>2. PICK w \in Users : rows[w].role = "owner"
      BY <3>1 DEF UsersInv, Owners
    <3>3. CASE w # t.user
      BY <2>2, <3>2, <3>3 DEF Owners
    <3>4. CASE w = t.user /\ ~losesOwner(t)
      <4>1. t.copy.role = "owner"
        BY <1>3, <3>1, <3>2, <3>4 DEF TxFacts
      <4> QED
        BY <1>3, <2>2, <3>4, <4>1, NewRow DEF Owners
    <3>5. CASE losesOwner(t)
      <4>1. OtherOwner(t.user)
        BY <1>3, <3>1, <3>5 DEF TxFacts
      <4> QED
        BY <2>2, <4>1 DEF Owners, OtherOwner
    <3> QED
      BY <3>3, <3>4, <3>5
  <2>6. UsersInv'
    BY <2>3, <2>4, <2>5 DEF UsersInv
  <2>7. ASSUME lost' = {}
        PROVE  /\ ActiveOwners # {} => ActiveOwners' # {}
               /\ ActiveAdministrators # {} => ActiveAdministrators' # {}
               /\ \A u \in Users : rows'[u].id # rows[u].id => rows'[u] = NoRow
    <3>1. lost = {} /\ rows[t.user] = t.copy
      BY <2>1, <2>7
    <3>2. ASSUME NEW w \in Users, rows[w].role = "owner", rows[w].status = "active"
          PROVE  ActiveOwners' # {}
      <4>1. CASE w # t.user
        BY <2>2, <3>2, <4>1 DEF ActiveOwners, Owners
      <4>2. CASE w = t.user /\ ~losesActiveOwnerAccess(t)
        <5>1. New(t).role = "owner" /\ New(t).status = "active"
          BY <1>3, <3>1, <3>2, <4>2, NewRow
        <5> QED
          BY <1>3, <2>2, <5>1 DEF ActiveOwners, Owners
      <4>3. CASE losesActiveOwnerAccess(t)
        <5>1. OtherActiveOwner(t.user)
          BY <1>3, <3>1, <4>3 DEF TxFacts
        <5> QED
          BY <2>2, <5>1 DEF ActiveOwners, Owners, OtherActiveOwner
      <4> QED
        BY <4>1, <4>2, <4>3
    <3>3. ASSUME NEW w \in Users, isAdministrator(rows[w].role), rows[w].status = "active"
          PROVE  ActiveAdministrators' # {}
      <4>1. CASE w # t.user
        BY <2>2, <3>3, <4>1 DEF ActiveAdministrators, isAdministrator
      <4>2. CASE w = t.user /\ ~losesAdministratorAccess(t)
        <5>1. isAdministrator(New(t).role) /\ New(t).status = "active"
          BY <1>3, <3>1, <3>3, <4>2, NewRow
        <5> QED
          BY <1>3, <2>2, <5>1 DEF ActiveAdministrators, isAdministrator
      <4>3. CASE losesAdministratorAccess(t)
        <5>1. OtherAdministrator(t.user)
          BY <1>3, <3>1, <4>3 DEF TxFacts
        <5> QED
          BY <2>2, <5>1 DEF ActiveAdministrators, OtherAdministrator, isAdministrator
      <4> QED
        BY <4>1, <4>2, <4>3
    <3>4. \A u \in Users : rows'[u].id # rows[u].id => rows'[u] = NoRow
      BY <1>3, <2>2, <3>1, NewRow
    <3> QED
      BY <3>2, <3>3, <3>4 DEF ActiveOwners, Owners, ActiveAdministrators
  <2> QED
    BY <2>6, <2>7
<1> QED
  BY <1>5, <1>6

-----------------------------------------------------------------------------
(* The theorems *)

\* A step outside the transactions that keeps the rows' access keeps UsersInv.
LEMMA OutsideStep ==
    ASSUME UsersInv, TypeOK', Keeps, tx' = tx
    PROVE  UsersInv'
<1>1. \A q \in Requests : tx[q] # NoTx => tx[q] \in Tx /\ TxFacts(tx[q])
  BY TxRecord DEF UsersInv
<1>2. ASSUME NEW q \in Requests, tx'[q] # NoTx
      PROVE  TxFacts(tx[q])'
  <2>1. PICK t : t = tx[q]
    OBVIOUS
  <2>2. t \in Tx /\ TxFacts(t)
    BY <1>1, <1>2, <2>1
  <2>3. TxFacts(t)'
    BY <2>2, KeepsFacts DEF UsersInv
  <2> QED
    BY <2>1, <2>3
<1>3. Owners' # {} \/ "flag" \in lost'
  BY KeepsOwner DEF UsersInv
<1>4. OneHolder'
  BY DEF UsersInv, OneHolder
<1> QED
  BY <1>2, <1>3, <1>4 DEF UsersInv

\* What AccessStays and IdentityStands say of a step.
AccessStep ==
    lost' = {} =>
      /\ ActiveOwners # {} => ActiveOwners' # {}
      /\ ActiveAdministrators # {} => ActiveAdministrators' # {}
IdentityStep ==
    \A u \in Users :
       (rows[u].id # None /\ rows'[u].id # rows[u].id) =>
          rows'[u] = NoRow \/ lost' # {}

\* Neither invitations nor claims nor the flag move an identity.
LEMMA IdentityOutside ==
    ASSUME TypeOK,
           \/ \E u \in Users, role \in Roles : invite(u, role)
           \/ \E k \in Identities : claimInvited(k)
           \/ \E f \in Flaggers : SaveFlag(f)
    PROVE  IdentityStep
<1>1. ASSUME NEW u \in Users, NEW role \in Roles, invite(u, role)
      PROVE  IdentityStep
  BY <1>1, NoRowIsNone DEF TypeOK, invite, IdentityStep
<1>2. ASSUME NEW k \in Identities, claimInvited(k)
      PROVE  IdentityStep
  <2>1. rows[login[k]].id = None \/ rows' = rows
    BY <1>2 DEF claimInvited, Claimable
  <2>2. \A v \in Users : v # login[k] => rows'[v] = rows[v]
    BY <1>2 DEF TypeOK, claimInvited
  <2> QED
    BY <2>1, <2>2 DEF IdentityStep
<1>3. ASSUME NEW f \in Flaggers, SaveFlag(f)
      PROVE  IdentityStep
  <2>1. flag[f].user \in Users
    BY <1>3 DEF TypeOK, SaveFlag, Flag
  <2>2. \/ lost' # {}
        \/ rows' = rows
        \/ rows' = [rows EXCEPT ![flag[f].user] = rows[flag[f].user]]
    BY <1>3 DEF SaveFlag
  <2>3. lost' # {} \/ \A v \in Users : rows'[v] = rows[v]
    BY <2>1, <2>2 DEF TypeOK
  <2> QED
    BY <2>3 DEF IdentityStep
<1> QED
  BY <1>1, <1>2, <1>3

\* Every step keeps UsersInv, the access and the identities.
LEMMA UsersStep ==
    ASSUME UsersInv, [Next]_vars
    PROVE  UsersInv' /\ AccessStep /\ IdentityStep
<1>0. TypeOK
  BY DEF UsersInv
<1>1. ASSUME NEW u \in Users, NEW role \in Roles, invite(u, role)
      PROVE  UsersInv' /\ AccessStep /\ IdentityStep
  BY <1>0, <1>1, InviteStep, OutsideStep, KeepsAccess, IdentityOutside DEF AccessStep
<1>2. ASSUME NEW k \in Identities, claimInvited(k)
      PROVE  UsersInv' /\ AccessStep /\ IdentityStep
  BY <1>0, <1>2, ClaimStep, OutsideStep, KeepsAccess, IdentityOutside DEF AccessStep
<1>3. ASSUME NEW k \in Identities, NEW u \in Users, FindInvite(k, u)
      PROVE  UsersInv' /\ AccessStep /\ IdentityStep
  <2>1. IdentityStep
    BY <1>3 DEF FindInvite, IdentityStep
  <2> QED
    BY <1>0, <1>3, <2>1, FindStep, OutsideStep, KeepsAccess DEF AccessStep
<1>4. ASSUME NEW q \in Requests, NEW kind \in {"update", "delete"}, NEW u \in Users,
             NEW role \in Roles \cup {None}, NEW status \in Statuses \cup {None},
             Begin(q, kind, u, role, status)
      PROVE  UsersInv' /\ AccessStep /\ IdentityStep
  <2>1. IdentityStep
    BY <1>4 DEF Begin, IdentityStep
  <2> QED
    BY <1>4, <2>1, BeginStep, KeepsAccess DEF AccessStep
<1>5. ASSUME NEW q \in Requests, Check(q)
      PROVE  UsersInv' /\ AccessStep /\ IdentityStep
  <2>1. IdentityStep
    BY <1>5 DEF Check, IdentityStep
  <2> QED
    BY <1>5, <2>1, CheckStep, KeepsAccess DEF AccessStep
<1>6. ASSUME NEW q \in Requests, Save(q)
      PROVE  UsersInv' /\ AccessStep /\ IdentityStep
  BY <1>6, SaveStep DEF AccessStep, IdentityStep
<1>7. ASSUME NEW q \in Requests, Rollback(q)
      PROVE  UsersInv' /\ AccessStep /\ IdentityStep
  <2>1. UsersInv' /\ Keeps
    BY <1>7, QuietEnd DEF Rollback
  <2>2. IdentityStep
    BY <1>7 DEF Rollback, IdentityStep
  <2> QED
    BY <2>1, <2>2, KeepsAccess DEF AccessStep
<1>8. ASSUME NEW f \in Flaggers, SaveFlag(f)
      PROVE  UsersInv' /\ AccessStep /\ IdentityStep
  BY <1>0, <1>8, SaveFlagStep, OutsideStep, KeepsAccess, IdentityOutside DEF AccessStep
<1>9. ASSUME NEW f \in Flaggers, NEW u \in Users, ReadFlag(f, u)
      PROVE  UsersInv' /\ AccessStep /\ IdentityStep
  <2>1. IdentityStep
    BY <1>9 DEF ReadFlag, IdentityStep
  <2> QED
    BY <1>0, <1>9, <2>1, ReadFlagStep, OutsideStep, KeepsAccess DEF AccessStep
<1>10. CASE UNCHANGED vars
  <2>1. TypeOK' /\ Keeps /\ tx' = tx
    BY <1>0, <1>10 DEF vars, TypeOK, Keeps
  <2>2. IdentityStep
    BY <1>10 DEF vars, IdentityStep
  <2> QED
    BY <2>1, <2>2, OutsideStep, KeepsAccess DEF AccessStep
<1>11. ASSUME NEW q \in Requests, NEW u \in Users, delete(q, u)
       PROVE  UsersInv' /\ AccessStep /\ IdentityStep
  BY <1>4, <1>11 DEF delete
<1>12. ASSUME NEW q \in Requests, NEW u \in Users, NEW role \in Roles \cup {None},
              NEW status \in Statuses \cup {None}, update(q, u, role, status)
       PROVE  UsersInv' /\ AccessStep /\ IdentityStep
  BY <1>4, <1>12 DEF update
<1> QED
  BY <1>1, <1>2, <1>3, <1>5, <1>6, <1>7, <1>8, <1>9, <1>10, <1>11, <1>12 DEF Next

\* A tenant starts with the owner it was created with.
LEMMA UsersInit == Init => UsersInv
<1> SUFFICES ASSUME Init PROVE UsersInv
  OBVIOUS
<1>1. PICK u \in Users :
         rows = [v \in Users |->
                   IF v = u THEN [role |-> "owner", status |-> "invited", id |-> None]
                   ELSE NoRow]
  BY DEF Init
<1>2. [role |-> "owner", status |-> "invited", id |-> None] \in Row
  BY DEF Row, Roles, Statuses
<1>3. TypeOK
  BY <1>1, <1>2 DEF Init, TypeOK
<1>4. rows[u].role = "owner"
  BY <1>1
<1> QED
  BY <1>3, <1>4 DEF Init, UsersInv, OneHolder, Owners

\* The tenant always has an owner, with any number of concurrent requests:
\* every role is changed by the holder of the tenant lock, whose count of
\* owners is still true when it writes.
THEOREM AlwaysAnOwner == Spec => []OwnerRemains
<1>1. UsersInv /\ [Next]_vars => UsersInv'
  BY UsersStep
<1>2. UsersInv => OwnerRemains
  BY DEF UsersInv, OwnerRemains
<1> QED
  BY UsersInit, <1>1, <1>2, PTL DEF Spec

\* No demotion, removal or disabling takes the last active owner or the last
\* active administrator, unless it goes over a row that changed since it was
\* read.
THEOREM AccessNeverLost == Spec => AccessStays
<1>1. UsersInv /\ [Next]_vars => UsersInv'
  BY UsersStep
<1>2. UsersInv /\ [Next]_vars =>
        [lost' = {} =>
           /\ ActiveOwners # {} => ActiveOwners' # {}
           /\ ActiveAdministrators # {} => ActiveAdministrators' # {}]_vars
  BY UsersStep DEF AccessStep
<1> QED
  BY UsersInit, <1>1, <1>2, PTL DEF Spec, AccessStays

\* A claimed membership stays with its subject until it is removed, unless a
\* write goes over a row that changed since it was read.
THEOREM ClaimsStand == Spec => IdentityStands
<1>1. UsersInv /\ [Next]_vars => UsersInv'
  BY UsersStep
<1>2. UsersInv /\ [Next]_vars =>
        [\A u \in Users :
            (rows[u].id # None /\ rows'[u].id # rows[u].id) =>
               rows'[u] = NoRow \/ lost' # {}]_vars
  BY UsersStep DEF IdentityStep
<1> QED
  BY UsersInit, <1>1, <1>2, PTL DEF Spec, IdentityStands

=============================================================================
