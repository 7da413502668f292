---------------------------- MODULE MCNodeSweep ----------------------------
(***************************************************************************)
(* NodeSweep with two nodes and two goroutines: lists with one node, with  *)
(* both, and with two entries of the same node.                            *)
(***************************************************************************)
EXTENDS NodeSweep, TLC

CONSTANTS n1, n2, t1, t2

Heavy == [weight |-> 2, slot |-> FALSE]
Light == [weight |-> 1, slot |-> TRUE]
Unweighed == [weight |-> Nil, slot |-> TRUE]

FewLists ==
    { t1 :> [id |-> n1, offers |-> {Heavy, Light}, port |-> TRUE],
      t1 :> [id |-> n1, offers |-> {Light}, port |-> TRUE]
          @@ t2 :> [id |-> n2, offers |-> {Heavy, Unweighed}, port |-> FALSE],
      t1 :> [id |-> n2, offers |-> {Heavy}, port |-> TRUE]
          @@ t2 :> [id |-> n2, offers |-> {Light}, port |-> TRUE],
      t2 :> [id |-> n2, offers |-> {}, port |-> TRUE] }
=============================================================================
