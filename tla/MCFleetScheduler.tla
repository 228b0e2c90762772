------------------------- MODULE MCFleetScheduler --------------------------
(* Instances of FleetScheduler for TLC. *)
EXTENDS FleetScheduler

\* Nodes with unrelated names.
OwnNameOnly == {<<s, s>> : s \in RemoteSlots}

\* The second remote node's name begins with the first one's: miao1, miao10.
LongerName == OwnNameOnly \cup {<<NLocal + 2, NLocal + 1>>}

\* The first remote node is called "l", the second one "lab": the names of the
\* local slots, local#1 ..., begin with the first one's too.
ShortName == LongerName \cup {<<s, NLocal + 1>> : s \in LocalSlots}
============================================================================
