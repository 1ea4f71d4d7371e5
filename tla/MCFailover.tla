----------------------------- MODULE MCFailover -----------------------------
(***************************************************************************)
(* Instances of Failover for TLC.                                          *)
(***************************************************************************)
EXTENDS Failover

\* No address, one, two, an address twice, and three.
MCAddrLists == {<< >>, <<1>>, <<1, 2>>, <<1, 1>>, <<1, 2, 3>>}
=============================================================================
