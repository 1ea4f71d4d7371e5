-------------------------- MODULE MCConditionalGet --------------------------
(***************************************************************************)
(* An instance of ConditionalGet for TLC.                                  *)
(***************************************************************************)
EXTENDS ConditionalGet

\* Tags in no order; stamps that no tag equals.
MCTagOf == [v \in Versions |-> (v * 2) % 5]
MCStampOf == [v \in Versions |-> 10 + v]
=============================================================================
