--------------------------- MODULE MCRegistration ---------------------------
(***************************************************************************)
(* TLC instance of Registration: two definitions that share their schema   *)
(* and their own artifact.                                                 *)
(***************************************************************************)
EXTENDS Registration, TLC

CONSTANTS d1, d2

=============================================================================
