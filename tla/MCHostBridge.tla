---------------------------- MODULE MCHostBridge ----------------------------
(***************************************************************************)
(* An instance of HostBridge for TLC.                                      *)
(***************************************************************************)
EXTENDS HostBridge

\* Done, failed, and failed with a status that is not negative.
MCStatuses == {0, 1, -1}
=============================================================================
