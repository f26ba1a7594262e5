---------------------------- MODULE MCCanDiscovery ----------------------------
(***************************************************************************)
(* Three nodes on the bus, each with a LoRa twin.  The mapping lacks node  *)
(* n3 and the twin t2, so that n1, n2 and t1 can be entered.               *)
(***************************************************************************)
EXTENDS CanDiscovery, TLC

CONSTANTS n1, n2, n3, t1, t2, t3

MCNodes == {n1, n2, n3}
MCTwins == {t1, t2, t3}
MCTwin  == (n1 :> t1) @@ (n2 :> t2) @@ (n3 :> t3)
MCKnown == {n1, n2, t1, t3}
=============================================================================
