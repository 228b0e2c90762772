-------------------------- MODULE MCMaintainFleet --------------------------
(* Instances of MaintainFleet for TLC. *)
EXTENDS MaintainFleet

Row(mode, slots) == [mode |-> mode, slots |-> slots]

\* fleet-nodes.yaml as --nodes-init writes it, all three nodes enabled.
Template == <<Row("local", 1), Row("gh", 2), Row("compute", 2)>>
GhNodes  == {2}

\* Reruns with the same nodes and with others, and one run with both remote nodes.
Reruns == {<<{2}, {2}>>, <<{3}, {3}>>, <<{1, 2}, {1, 3}>>, <<{2, 3}>>}

\* 1.2.1 and 1.2.10
Longer == {<<1, 2>>}
============================================================================
