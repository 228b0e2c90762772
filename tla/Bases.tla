------------------------------- MODULE Bases -------------------------------
(***************************************************************************)
(* What download_bun may answer, as far as the pipeline can tell the       *)
(* answers apart: the series of the release, 1.3 or 1.4, and the series    *)
(* that the version string in the file tells, 0 if none is found.          *)
(***************************************************************************)
NoBase == [series |-> 0, told |-> 0]

\* A section graph gets a base of the series that fits, which the file tells
\* too; for a trailer graph the reuse of <cache>/bun may give any.
BasesFor(end) ==
    IF end = "section" THEN {[series |-> 4, told |-> 4]}
    ELSE {b \in [series: {3, 4}, told: {0, 3, 4}] : b.told \in {0, b.series}}
============================================================================
