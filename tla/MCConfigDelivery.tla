-------------------------- MODULE MCConfigDelivery --------------------------
(* Small instances of ConfigDelivery: one node, to which every edit applies.*)
EXTENDS ConfigDelivery

CONSTANT TheNode

MCNode == {TheNode}
MCEditNode == [e \in Edit |-> TheNode]
=============================================================================
