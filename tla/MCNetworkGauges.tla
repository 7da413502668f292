-------------------------- MODULE MCNetworkGauges --------------------------
(* Values for NetworkGauges that TLC can enumerate. *)
EXTENDS NetworkGauges

AllGroups == DOMAIN Structure
TwoNames == {"a", "b"}
=============================================================================
