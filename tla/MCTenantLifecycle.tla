------------------------- MODULE MCTenantLifecycle --------------------------
(***************************************************************************)
(* TLC instance of TenantLifecycle: one client, two requests at a time, and *)
(* two changes of status: a deactivation that is taken back.               *)
(***************************************************************************)
EXTENDS TenantLifecycle

CONSTANTS c1, q1, q2

=============================================================================
