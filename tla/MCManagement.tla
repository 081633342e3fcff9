---------------------------- MODULE MCManagement ----------------------------
(* Small instances of the management sessions for TLC. *)
EXTENDS WFManagement

MCFds == 1 .. 3
MCLevels == {0, 1}
=============================================================================
