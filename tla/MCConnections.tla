--------------------------- MODULE MCConnections ----------------------------
(***************************************************************************)
(* TLC instance of Connections: one connection of any kind, and one        *)
(* reusable invitation.                                                    *)
(***************************************************************************)
EXTENDS Connections, TLC

CONSTANT x1

=============================================================================
