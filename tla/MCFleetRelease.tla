-------------------------- MODULE MCFleetRelease ---------------------------
(* Instances of FleetRelease for TLC. *)
EXTENDS FleetRelease, TLC

CONSTANTS v1, v2, pkgs, phone, node

TwoBuilds == {1, 2}
Machines  == Permutations({phone, node})
============================================================================
