---------------------------- MODULE FleetRelease ----------------------------
(***************************************************************************)
(* tools/fleet-push.py: what its runs leave on the GitHub release.  A run  *)
(* reads the asset list, packs and uploads every version that has no asset *)
(* yet, and merges the sha of what it finished into SHA256SUMS.txt.  Two   *)
(* machines may run it on one release ("--seed" installs it on a second    *)
(* one), a run may die anywhere and be started again, and a version may be *)
(* packed several times in a run.                                          *)
(*                                                                         *)
(* FleetScheduler says who packs which version when; here a job is its     *)
(* output, its upload and its verdict.  An output is named by a number:    *)
(* two nodes with different tools pack a version into different bytes.     *)
(***************************************************************************)
EXTENDS Integers

CONSTANTS Vers,      \* versions with a package on the release
          Builds,    \* outputs a version can be packed into
          Others,    \* lines of SHA256SUMS.txt that are not about *-upx.xz
          Pushers    \* machines that run fleet-push.py on this release

None == 0

ASSUME ReleaseAssumption ==
    /\ Builds \subseteq Nat \ {None}
    /\ Vers \cap Others = {}

Shas  == Builds \cup {None}
Lines == Vers \cup Others

VARIABLES
    assets,    \* the output under the name of each version on the release
    sums,      \* SHA256SUMS.txt of the release: the sha on each line
    pc,        \* where each run is: idle (no run), work, sums, merge
    vst,       \* v.state, with the job's progress while it is in flight
    out,       \* R/out.xz of the version's job
    sha,       \* v.sha_node
    existing,  \* the lines update_checksums() has read
    faults     \* what has gone wrong so far

runVars == <<pc, vst, out, sha, existing>>
vars    == <<assets, sums, pc, vst, out, sha, existing, faults>>

\* "output":  an output went astray, or a job that had uploaded was not believed
\* "stale":   SHA256SUMS.txt was written from a copy that was not current
\* "short":   a run died, was forced to end, or could not write SHA256SUMS.txt
Faults == {"output", "stale", "short"}

Blank(x) == [v \in Vers |-> x]

Init ==
    /\ assets \in [Vers -> Shas]
    /\ sums \in [Lines -> Shas]
    /\ \A v \in Vers : sums[v] = assets[v]
    /\ \A n \in Others : sums[n] # None
    /\ pc = [p \in Pushers |-> "idle"]
    /\ vst = [p \in Pushers |-> Blank("todo")]
    /\ out = [p \in Pushers |-> Blank(None)]
    /\ sha = [p \in Pushers |-> Blank(None)]
    /\ existing = [p \in Pushers |-> [n \in Lines |-> None]]
    /\ faults = {}

Go(p, from, to) == pc[p] = from /\ pc' = [pc EXCEPT ![p] = to]

\* The process is gone, and with it everything it knew.
Exit(p) ==
    /\ pc' = [pc EXCEPT ![p] = "idle"]
    /\ vst' = [vst EXCEPT ![p] = Blank("todo")]
    /\ out' = [out EXCEPT ![p] = Blank(None)]
    /\ sha' = [sha EXCEPT ![p] = Blank(None)]
    /\ existing' = [existing EXCEPT ![p] = [n \in Lines |-> None]]
Step(p, v, from, to) ==
    /\ pc[p] = "work" /\ vst[p][v] \in from
    /\ vst' = [vst EXCEPT ![p][v] = to]

\* mutant: the state that class Ver lists and no code handles
UploadWait(v) == IF assets[v] # None THEN "pre" ELSE "upload-wait"
\* pre_existing: the release has the asset of this version.
Discovered(v) == IF assets[v] # None THEN "pre" ELSE "todo"

\* discover_release(): a version table from the asset list, nothing else is
\* remembered from an earlier run.
Discover(p) ==
    /\ Go(p, "idle", "work")
    /\ vst' = [vst EXCEPT ![p] = [v \in Vers |-> Discovered(v)]]
    /\ UNCHANGED <<assets, sums, out, sha, existing, faults>>

\* The job has written out.xz and said "#SHA".  A line that the reader cuts
\* in two is lost, and v.sha_node stays what an earlier attempt made it.
Pack(p, v) ==
    \E b \in Builds :
        /\ Step(p, v, {"todo"}, "packed")
        /\ out' = [out EXCEPT ![p][v] = b]
        /\ \/ sha' = [sha EXCEPT ![p][v] = b] /\ UNCHANGED faults
           \/ sha' = sha /\ faults' = faults \cup {"output"}
        /\ UNCHANGED <<assets, sums, pc, existing>>

\* upl.py posts out.xz under the asset's name; the release refuses a name it
\* has already.
UploadNamed(p, v) ==
    /\ Step(p, v, {"packed"}, "uploaded")
    /\ assets[v] = None
    /\ assets' = [assets EXCEPT ![v] = out[p][v]]
    /\ UNCHANGED <<sums, pc, out, sha, existing, faults>>

\* Without python3, or when upl.py fails: "gh release upload $TAG $R/out.xz"
\* replaces an asset that is called out.xz whatever the version.
UploadAsOutXz(p, v) ==
    /\ Step(p, v, {"packed"}, "uploaded")
    /\ faults' = faults \cup {"output"}
    /\ UNCHANGED <<assets, sums, pc, out, sha, existing>>

\* poll(): the job ended with 0 and the version has a sha.
Done(p, v) ==
    /\ Step(p, v, {"uploaded"}, "done")
    /\ sha[p][v] # None
    /\ out' = [out EXCEPT ![p][v] = None]
    /\ UNCHANGED <<assets, sums, pc, sha, existing, faults>>

\* poll(): any other end of the job, before or after its upload: the version
\* is queued again or given up.
NotDone(p, v) ==
    \E again \in {"todo", "failed"} :
        /\ Step(p, v, {"todo", "packed", "uploaded"}, again)
        /\ faults' = IF vst[p][v] = "uploaded" THEN faults \cup {"output"} ELSE faults
        /\ out' = [out EXCEPT ![p][v] = None]
        /\ UNCHANGED <<assets, sums, pc, sha, existing>>

\* The main loop is left when every job is over; the second Ctrl-C kills them.
Leave(p) ==
    /\ Go(p, "work", "sums")
    /\ faults' = IF \E v \in Vers : vst[p][v] \in {"packed", "uploaded"}
                 THEN faults \cup {"short"} ELSE faults
    /\ UNCHANGED <<assets, sums, vst, out, sha, existing>>

\* mutant: v.state is not looked at
AnySha(p) == {v \in Vers : sha[p][v] # None}
\* The versions whose sha update_checksums() may list.
Finished(p) == {v \in Vers : vst[p][v] = "done" /\ sha[p][v] # None}

\* A line that is there is kept as it is, whatever this run has packed.
New(p, lines) == {v \in Finished(p) : lines[v] = None}

\* update_checksums() reads SHA256SUMS.txt.  When the download fails, for
\* whatever reason, it goes on with no lines at all.
ReadSums(p) ==
    \E read \in {sums, [n \in Lines |-> None]} :
        /\ New(p, read) # {}
        /\ Go(p, "sums", "merge")
        /\ existing' = [existing EXCEPT ![p] = read]
        /\ UNCHANGED <<assets, sums, vst, out, sha, faults>>

NothingToList(p) ==
    /\ pc[p] = "sums"
    /\ New(p, sums) = {}
    /\ Exit(p)
    /\ UNCHANGED <<assets, sums, faults>>

\* mutant: only the new lines are written
NewLines(p) == [n \in Lines |-> IF n \in New(p, existing[p]) THEN sha[p][n] ELSE None]
Merged(p) == [n \in Lines |-> IF n \in New(p, existing[p]) THEN sha[p][n] ELSE existing[p][n]]

\* The merged file replaces what the release has by now.
WriteSums(p) ==
    /\ pc[p] = "merge"
    /\ sums' = Merged(p)
    /\ faults' = IF sums # existing[p] THEN faults \cup {"stale"} ELSE faults
    /\ Exit(p)
    /\ UNCHANGED assets

\* gh release upload --clobber deletes the file it replaces before it uploads:
\* one that fails, or is killed, in between leaves a release without it.
Unwritten == sums' \in {sums, [n \in Lines |-> None]}

WriteFails(p) ==
    /\ pc[p] = "merge"
    /\ faults' = faults \cup {"short"}
    /\ Unwritten
    /\ Exit(p)
    /\ UNCHANGED assets

Crash(p) ==
    /\ pc[p] # "idle"
    /\ Exit(p)
    /\ faults' = faults \cup {"short"}
    /\ IF pc[p] = "merge" THEN Unwritten ELSE UNCHANGED sums
    /\ UNCHANGED assets

Next ==
    \E p \in Pushers :
        \/ Discover(p) \/ Leave(p) \/ ReadSums(p) \/ NothingToList(p)
        \/ WriteSums(p) \/ WriteFails(p) \/ Crash(p)
        \/ \E v \in Vers : \/ Pack(p, v) \/ UploadNamed(p, v) \/ UploadAsOutXz(p, v)
                           \/ Done(p, v) \/ NotDone(p, v)

Spec == Init /\ [][Next]_vars

----------------------------------------------------------------------------
(* Properties *)

\* The range of every variable.
TypeOK ==
    /\ assets \in [Vers -> Shas]
    /\ sums \in [Lines -> Nat]
    /\ pc \in [Pushers -> {"idle", "work", "sums", "merge"}]
    /\ vst \in [Pushers -> [Vers -> {"pre", "todo", "packed", "uploaded", "done", "failed"}]]
    /\ out \in [Pushers -> [Vers -> Shas]]
    /\ sha \in [Pushers -> [Vers -> Shas]]
    /\ existing \in [Pushers -> [Lines -> Nat]]
    /\ faults \in SUBSET Faults

\* SHA256SUMS.txt is what a user checks a download against: as long as every
\* output goes where the code means it to go, and whatever else happens (two
\* runs at once, runs that die, downloads and uploads that fail), a line about
\* a version is the sha of the asset the release has under its name.
ListedIsPublished ==
    "output" \notin faults =>
        \A v \in Vers : sums[v] # None => sums[v] = assets[v]

\* When nothing at all has gone wrong, no asset is left without its line once
\* the runs are over, and the lines of the others are still there.
NothingUnlisted ==
    faults = {} /\ (\A p \in Pushers : pc[p] = "idle") =>
        /\ \A v \in Vers : assets[v] # None => sums[v] # None
        /\ \A n \in Others : sums[n] # None

\* release_crosscheck: a version that is DONE has its asset on the release.
DoneIsOnRelease ==
    \A p \in Pushers, v \in Vers : vst[p][v] = "done" => assets[v] # None
============================================================================
