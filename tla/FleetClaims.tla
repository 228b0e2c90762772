---------------------------- MODULE FleetClaims ----------------------------
(***************************************************************************)
(* What the fleet scheduler promises about its work, with no word of how   *)
(* it finds a machine for it: every version is open, held by a slot, or    *)
(* closed.  A slot holds one version at a time, a version is held by one   *)
(* slot at a time, only a held version is closed, and a closed version is  *)
(* never taken up again.                                                   *)
(***************************************************************************)
CONSTANTS Items,     \* the versions to be produced
          Holders    \* the slots that produce them

VARIABLES open,      \* versions waiting for a slot
          held,      \* set of <<slot, version>> pairs at work
          closed     \* versions settled for this run

claimVars == <<open, held, closed>>

ClaimInit ==
    /\ open \in SUBSET Items
    /\ closed = Items \ open
    /\ held = {}

Claim(s, v) ==
    /\ v \in open
    /\ \A h \in held : h[1] # s
    /\ open' = open \ {v}
    /\ held' = held \cup {<<s, v>>}
    /\ UNCHANGED closed

\* The slot hands the version back, to be tried again.
Release(s, v) ==
    /\ <<s, v>> \in held
    /\ held' = held \ {<<s, v>>}
    /\ open' = open \cup {v}
    /\ UNCHANGED closed

\* The slot settles the version: published, or given up.
Close(s, v) ==
    /\ <<s, v>> \in held
    /\ held' = held \ {<<s, v>>}
    /\ closed' = closed \cup {v}
    /\ UNCHANGED open

ClaimNext ==
    \E s \in Holders, v \in Items : Claim(s, v) \/ Release(s, v) \/ Close(s, v)

ClaimSpec == ClaimInit /\ [][ClaimNext]_claimVars
============================================================================
