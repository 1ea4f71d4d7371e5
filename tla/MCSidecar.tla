----------------------------- MODULE MCSidecar -----------------------------
(***************************************************************************)
(* An instance of Sidecar for TLC: one interval, the versions and          *)
(* validators of MCConditionalGet, and a host that answers announcements.  *)
(***************************************************************************)
EXTENDS Sidecar

MCTagOf == [v \in 0 .. MaxVersion |-> (v * 2) % 5]
MCStampOf == [v \in 0 .. MaxVersion |-> 10 + v]
=============================================================================
