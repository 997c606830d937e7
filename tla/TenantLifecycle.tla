-------------------------- MODULE TenantLifecycle ---------------------------
(***************************************************************************)
(* The status of a tenant, the tenant.status-change jobs that carry a      *)
(* change of it to the tenant's OAuth clients, connectors and connections, *)
(* and the requests that change a client (TenantService.updateStatus,      *)
(* TenantStatusChangeWorker, OAuthClientService).                          *)
(***************************************************************************)
EXTENDS StateMapping

CONSTANTS
    Clients,      \* OAuth clients of the tenant
    Requests,     \* concurrent requests for a change of status
    MAX_CHANGES   \* bound: changes of status

VARIABLES
    status,       \* of the tenant
    change,       \* a request: the status it has read and the one it writes
    jobs,         \* the outstanding jobs, and the writes each has yet to make
    changes,      \* changes so far; it numbers the jobs
    client,       \* revoked_at and revoked_reason
    edit,         \* the clients that a PATCH or a rotation holds in memory
    revoking,     \* the clients that a revocation has found in use
    closed        \* which of the tenant's connectors and connections were closed

vars == <<status, change, jobs, changes, client, edit, revoking, closed>>

\* The approval flow has two more statuses; updateStatus leaves them alone.
Statuses == {"active", "suspended", "deactivated"}

ALLOWED_STATUS_TRANSITIONS(s) ==
    CASE s = "active"    -> {"suspended", "deactivated"}
      [] s = "suspended" -> {"active", "deactivated"}
      [] OTHER           -> {"active"}

\* A client is in use, revoked for cause, or revoked with the tenant.
ClientStates == {"active", "revoked", "tenant_deactivation"}

Init ==
    /\ status = "active"
    /\ change = [q \in Requests |-> None]
    /\ jobs = {}
    /\ changes = 0
    /\ client = [c \in Clients |-> "active"]
    /\ edit = {}
    /\ revoking = {}
    /\ closed = {}

-----------------------------------------------------------------------------
(* PATCH tenants/:id/status *)

\* The tenant is read without a lock, and the transition is checked.
ReadStatus(q, to) ==
    /\ change[q] = None
    /\ to \in ALLOWED_STATUS_TRANSITIONS(status)
    /\ change' = [change EXCEPT ![q] = <<status, to>>]
    /\ UNCHANGED <<status, jobs, changes, client, edit, revoking, closed>>

Closable == {"connectors", "connections"}

\* What a job writes.  Only these two changes have a cascade.
Cascade(from, to) ==
    CASE to = "deactivated"                       -> {"revoke"} \cup Closable
      [] from = "deactivated" /\ to = "active"    -> {"restore"}
      [] OTHER                                    -> {}

\* The status and the job are written in one transaction.
WriteStatus(q) ==
    /\ change[q] # None
    /\ changes < MAX_CHANGES
    /\ LET from == change[q][1]
           to == change[q][2]
       IN  /\ status' = to
           /\ jobs' = jobs \cup {[id |-> changes, from |-> from, to |-> to,
                                  todo |-> Cascade(from, to)]}
    /\ changes' = changes + 1
    /\ change' = [change EXCEPT ![q] = None]
    /\ UNCHANGED <<client, edit, revoking, closed>>

-----------------------------------------------------------------------------
(* The worker.  Two jobs may run at once, a failed one comes back later, and *)
(* the writes of one job are independent transactions.                       *)

revokeAllForTenant ==
    client' = [c \in Clients |-> IF client[c] = "active" THEN "tenant_deactivation" ELSE client[c]]

restoreAllForTenant ==
    client' = [c \in Clients |-> IF client[c] = "tenant_deactivation" THEN "active" ELSE client[c]]

\* deactivateAllForTenant of the connectors, abandonAllForTenant of the
\* connections.  Nothing opens them again by itself.
closeAllForTenant(resource) == closed' = closed \cup {resource}

Handle(j) ==
    \E write \in j.todo :
        /\ \/ write = "revoke" /\ revokeAllForTenant /\ UNCHANGED closed
           \/ write = "restore" /\ restoreAllForTenant /\ UNCHANGED closed
           \/ write \in Closable /\ closeAllForTenant(write) /\ UNCHANGED client
        /\ jobs' = (jobs \ {j}) \cup {[j EXCEPT !.todo = @ \ {write}]}
        /\ UNCHANGED <<status, change, changes, edit, revoking>>

Finish(j) ==
    /\ j.todo = {}
    /\ jobs' = jobs \ {j}
    /\ UNCHANGED <<status, change, changes, client, edit, revoking, closed>>

\* A write failed: the job runs again from the start.
Retry(j) ==
    /\ jobs' = (jobs \ {j}) \cup {[j EXCEPT !.todo = Cascade(j.from, j.to)]}
    /\ UNCHANGED <<status, change, changes, client, edit, revoking, closed>>

-----------------------------------------------------------------------------
(* Requests for one client.  While the tenant is not active they come from   *)
(* the administrators of the platform.                                       *)

\* A client that is revoked already is left as it is, its reason included.
revokeClient(c) ==
    /\ client[c] = "active"
    /\ revoking' = revoking \cup {c}
    /\ UNCHANGED <<status, change, jobs, changes, client, edit, closed>>

\* The write clears the reason, whatever became of the client since.
revoke(c) ==
    /\ c \in revoking
    /\ client' = [client EXCEPT ![c] = "revoked"]
    /\ revoking' = revoking \ {c}
    /\ UNCHANGED <<status, change, jobs, changes, edit, closed>>

reactivateClient(c) ==
    /\ client' = [client EXCEPT ![c] = "active"]
    /\ UNCHANGED <<status, change, jobs, changes, edit, revoking, closed>>

\* update and rotateSecret read a client in use, and save all of it later.
ReadClient(c) ==
    /\ client[c] = "active"
    /\ edit' = edit \cup {c}
    /\ UNCHANGED <<status, change, jobs, changes, client, revoking, closed>>

SaveClient(c) ==
    /\ c \in edit
    /\ client' = [client EXCEPT ![c] = "active"]
    /\ edit' = edit \ {c}
    /\ UNCHANGED <<status, change, jobs, changes, revoking, closed>>

-----------------------------------------------------------------------------

Next ==
    \/ \E q \in Requests : WriteStatus(q) \/ \E to \in Statuses : ReadStatus(q, to)
    \/ \E j \in jobs : Handle(j) \/ Finish(j) \/ Retry(j)
    \/ \E c \in Clients : \/ revokeClient(c) \/ revoke(c) \/ reactivateClient(c)
                          \/ ReadClient(c) \/ SaveClient(c)

Spec == Init /\ [][Next]_vars

-----------------------------------------------------------------------------
(* Properties *)

\* "Reactivating a previously-deactivated tenant restores only the OAuth
\* clients this worker revoked (tagged TENANT_DEACTIVATION)": once the jobs of
\* all the changes of an active tenant's status are done, none of its clients
\* is still revoked because the tenant was deactivated.
ReactivationRestores ==
    status = "active" /\ jobs = {} =>
        \A c \in Clients : client[c] # "tenant_deactivation"

=============================================================================
