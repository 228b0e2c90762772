--------------------------- MODULE MaintainFleet ---------------------------
(***************************************************************************)
(* tools/maintain.sh --upload, family compressed: the orchestrator         *)
(* (upload_fleet), the two scripts it runs on the nodes (fleet-run.sh,     *)
(* upx-job.sh) and the journal, over several runs with the same tag.       *)
(*                                                                         *)
(* A node is the number of its row in fleet-nodes.yaml, a version its      *)
(* position in VERSIONS_ARR.  A file is absent ("none"), truncated         *)
(* ("part") or complete ("whole").                                         *)
(***************************************************************************)
EXTENDS Integers, Sequences, FiniteSets

CONSTANTS
    Rows,       \* the rows of fleet-nodes.yaml: [mode, slots], in file order
    Plans,      \* bound: sequences of runs, each the nodes it uses (enabled, in --nodes)
    NVers,      \* how many versions are to be produced
    Related,    \* <<v, w>>: the tmux session name of v is a prefix of w's
    Attempts,   \* --attempts
    Tooled      \* the nodes that have fleet-push.py from the start

Nodes == DOMAIN Rows
Vers  == 1..NVers
Keys  == Nodes \X Vers      \* the keys "node|version" of RUNNING and ATTEMPT
NoKey == <<0, 0>>
Files == {"none", "part", "whole"}

ASSUME MaintainAssumption ==
    /\ Rows \in Seq([mode: {"local", "gh", "compute"}, slots: Nat \ {0}]) /\ Rows # <<>>
    /\ \A plan \in Plans : plan \in Seq((SUBSET Nodes) \ {{}})
    /\ NVers \in Nat \ {0}
    /\ Related \subseteq Vers \X Vers
    /\ Attempts \in Nat \ {0}
    /\ Tooled \subseteq Nodes

Mode(n) == Rows[n].mode

\* $user@$host, the target of every scp: the names are left over from the loop
\* that read the rows, so they are those of the last row, whatever the node.
ScpHost == Len(Rows)

VARIABLES
    \* the orchestrator
    pc,         \* where upload_fleet stands
    runs,       \* the runs to come
    assign,     \* ASSIGN, as a set of keys
    due,        \* nodes still to be dispatched
    left,       \* keys the loop at hand has still to visit
    cur,        \* the key whose handler runs
    running,    \* RUNNING: the keys whose entry is not empty
    attempt,    \* ATTEMPT
    progress,   \* progress
    journal,    \* artifacts/fleet-state.json
    \* the make machine and GitHub
    copy,       \* the output in packing/fleet/ while it waits for its upload
    release,    \* the versions whose asset is on the release
    gone,       \* history: those a --clobber took off it and nothing put back
    \* the nodes
    tool,       \* nodes that have fleet-push.py
    inbox,      \* [node -> versions whose package is in inbox/]
    out,        \* [key -> out/<asset>]
    marks,      \* [key -> the markers <tag>.<version>.{done,failed} in state/]
    fleet,      \* [node -> the tmux session that runs fleet-run.sh]
    job,        \* [key -> the tmux session that runs upx-job.sh]
    \* history
    starts,     \* [node -> sessions of fleet-run.sh this run started]
    stale       \* [key -> the job was started beside a .done marker]

loopVars == <<assign, due, left, cur, running, attempt, progress>>
hereVars == <<copy, release, gone>>
nodeVars == <<tool, inbox, out, marks, fleet, job>>
histVars == <<starts, stale>>
vars == <<pc, runs, loopVars, journal, hereVars, nodeVars, histVars>>

NoFleet == [at |-> "none", vers |-> {}]

Init ==
    /\ pc = "idle" /\ runs \in Plans
    /\ assign = {} /\ due = {} /\ left = {} /\ cur = NoKey
    /\ running = {} /\ attempt = [k \in Keys |-> 0]
    /\ progress = FALSE
    /\ journal = [k \in Keys |-> "none"]
    /\ copy = "none" /\ release = {} /\ gone = {}
    /\ tool = Tooled
    /\ inbox = [n \in Nodes |-> {}]
    /\ out = [k \in Keys |-> "none"]
    /\ marks = [k \in Keys |-> {}]
    /\ fleet = [n \in Nodes |-> NoFleet]
    /\ job = [k \in Keys |-> "none"]
    /\ starts = [n \in Nodes |-> 0]
    /\ stale = [k \in Keys |-> FALSE]

Of(n) == {v \in Vers : <<n, v>> \in assign}
Mark(k, ms) == marks' = [marks EXCEPT ![k] = ms]
Journal(ks, s) == journal' = [k \in Keys |-> IF k \in ks THEN s ELSE journal[k]]

\* journal_set, then RUNNING[$key]=""
Settle(k, s) == Journal({k}, s) /\ running' = running \ {k}

\* An asset comes to the release.
Put(v) == release' = release \cup {v} /\ gone' = gone \ {v}

OnceMore(k) == attempt[k] <= Attempts
MayRetry(k) == attempt[k] < Attempts

-----------------------------------------------------------------------------
(* Sessions.  tmux new-session comes after tmux kill-session -t NAME, which *)
(* takes NAME for a prefix when no session has it for a name and one only   *)
(* begins with it.                                                          *)

Live(n) == {v \in Vers : job[<<n, v>>] # "none"}

Killed(n, v) ==
    LET longer == {w \in Live(n) : <<v, w>> \in Related}
    IN  IF v \notin Live(n) /\ Cardinality(longer) = 1 THEN longer ELSE {}

StartJob(k) ==
    /\ job' = [j \in Keys |-> IF j = k THEN "new"
                              ELSE IF j[1] = k[1] /\ j[2] \in Killed(k[1], k[2]) THEN "none"
                              ELSE job[j]]
    /\ stale' = [stale EXCEPT ![k] = "done" \in marks[k]]
    /\ UNCHANGED <<fleet, starts>>

StartFleet(n) ==
    /\ fleet' = [fleet EXCEPT ![n] = [at |-> "push", vers |-> Of(n)]]
    /\ starts' = [starts EXCEPT ![n] = @ + 1]
    /\ UNCHANGED <<job, stale>>

-----------------------------------------------------------------------------
(* One run: plan and dispatch. *)

Before(n, pick) == Cardinality({m \in pick : m < n})

\* The versions go round the nodes in turn; every pair becomes "pending",
\* whatever the journal says of it.
Begin ==
    /\ pc = "idle" /\ runs # <<>>
    /\ LET pick == Head(runs)
       IN  assign' = {k \in Keys : /\ k[1] \in pick
                                  /\ (k[2] - 1) % Cardinality(pick) = Before(k[1], pick)}
    /\ due' = {n \in Head(runs) : \E v \in Vers : <<n, v>> \in assign'}
    /\ Journal(assign', "pending")
    /\ runs' = Tail(runs) /\ pc' = "dispatch"
    /\ UNCHANGED <<left, cur, running, attempt, progress, hereVars, nodeVars, histVars>>

Turn(n, mode) == /\ pc = "dispatch" /\ n \in due /\ Mode(n) = mode
                 /\ \A m \in due : n <= m

\* mode local: fleet-push.py runs in the foreground and puts versions on the
\* release; it exits 0 if it had any version to work on, done or not.
LocalUpload(n, v) ==
    /\ Turn(n, "local") /\ v \in Of(n) /\ v \notin release
    /\ Put(v)
    /\ UNCHANGED <<pc, runs, loopVars, journal, copy, nodeVars, histVars>>

LocalExit(n) ==
    /\ Turn(n, "local")
    /\ \E s \in {"done", "failed"} : Journal({<<n, v>> : v \in Of(n)}, s)
    /\ due' = due \ {n}
    /\ UNCHANGED <<pc, runs, assign, left, cur, running, attempt, progress,
                   hereVars, nodeVars, histVars>>

\* mode gh: fleet-push.py is copied, to ScpHost, and fleet-run.sh installed.
Equip(n) ==
    /\ Turn(n, "gh") /\ Mode(ScpHost) # "local"
    /\ tool' = tool \cup {ScpHost}
    /\ pc' = "launch_fleet"
    /\ UNCHANGED <<runs, loopVars, journal, hereVars, inbox, out, marks, fleet, job, histVars>>

LaunchFleet(n) ==
    /\ pc = "launch_fleet" /\ Mode(n) = "gh" /\ n \in due /\ \A m \in due : n <= m
    /\ StartFleet(n)
    /\ running' = running \cup {<<n, v>> : v \in Of(n)}
    /\ attempt' = [k \in Keys |-> IF k[1] = n /\ k[2] \in Of(n) THEN 1 ELSE attempt[k]]
    /\ due' = due \ {n} /\ pc' = "dispatch"
    /\ UNCHANGED <<runs, assign, left, cur, progress, journal, hereVars,
                   tool, inbox, out, marks>>

\* mode compute: upx-job.sh is installed; packages are shipped by the loop.
Prepare(n) ==
    /\ Turn(n, "compute")
    /\ due' = due \ {n}
    /\ UNCHANGED <<pc, runs, assign, left, cur, running, attempt, progress, journal,
                   hereVars, nodeVars, histVars>>

-----------------------------------------------------------------------------
(* One pass of the loop, first half: the markers of every running key. *)

NewPass == pc' = "poll" /\ left' = running /\ progress' = FALSE

Enter ==
    /\ pc = "dispatch" /\ due = {}
    /\ NewPass
    /\ UNCHANGED <<runs, assign, due, cur, running, attempt, journal, hereVars,
                   nodeVars, histVars>>

Seen(k) == pc = "poll" /\ k \in left /\ left' = left \ {k}

\* No marker, or the ssh that lists them failed (|| true).
StillRunning(k, answer) ==
    /\ Seen(k) /\ (answer => marks[k] = {})
    /\ progress' = TRUE
    /\ UNCHANGED <<pc, runs, assign, due, cur, running, attempt, journal, hereVars,
                   nodeVars, histVars>>

NodeUploaded(k) ==
    /\ Seen(k) /\ "done" \in marks[k] /\ Mode(k[1]) # "compute"
    /\ Settle(k, "done")
    /\ UNCHANGED <<pc, runs, assign, due, cur, attempt, progress, hereVars,
                   nodeVars, histVars>>

Exhausted(k) ==
    /\ Seen(k) /\ marks[k] = {"failed"} /\ ~MayRetry(k)
    /\ Settle(k, "failed")
    /\ UNCHANGED <<pc, runs, assign, due, cur, attempt, progress, hereVars,
                   nodeVars, histVars>>

\* Done on a compute node, or failed with attempts left: a handler of several
\* remote steps begins.
Handle(k) ==
    /\ Seen(k) /\ cur' = k
    /\ \/ "done" \in marks[k] /\ Mode(k[1]) = "compute" /\ pc' = "pull"
       \/ marks[k] = {"failed"} /\ MayRetry(k) /\ pc' = "clear"
    /\ UNCHANGED <<runs, assign, due, running, attempt, progress, journal, hereVars,
                   nodeVars, histVars>>

\* scp of the output.  (Then a line in SHA256SUMS.txt, unless the asset has
\* one: nothing here reads its sum.)
Pull ==
    /\ pc = "pull" /\ Mode(ScpHost) # "local"
    /\ out[<<ScpHost, cur[2]>>] # "none"
    /\ copy' = out[<<ScpHost, cur[2]>>]
    /\ pc' = "publish"
    /\ UNCHANGED <<runs, loopVars, journal, release, gone, nodeVars, histVars>>

\* gh release upload --clobber deletes an asset of that name and then uploads;
\* it may fail at either.
Unpublish ==
    /\ pc = "publish"
    /\ release' = release \ {cur[2]} /\ gone' = gone \cup (release \cap {cur[2]})
    /\ pc' = "upload"
    /\ UNCHANGED <<runs, loopVars, journal, copy, nodeVars, histVars>>

Publish ==
    /\ pc = "upload" /\ cur[2] \notin release
    /\ Put(cur[2]) /\ copy' = "none"
    /\ pc' = "tidy"
    /\ UNCHANGED <<runs, loopVars, journal, nodeVars, histVars>>

Tidy ==
    /\ pc = "tidy"
    /\ out' = [out EXCEPT ![cur] = "none"]
    /\ Settle(cur, "done")
    /\ cur' = NoKey /\ pc' = "poll"
    /\ UNCHANGED <<runs, assign, due, left, attempt, progress, hereVars,
                   tool, inbox, marks, fleet, job, histVars>>

ClearMarks ==
    /\ pc = "clear"
    /\ Mark(cur, {})
    /\ pc' = "restart"
    /\ UNCHANGED <<runs, loopVars, journal, hereVars, tool, inbox, out, fleet, job, histVars>>

Uncounted(k) == attempt' = attempt
Count(k) == attempt' = [attempt EXCEPT ![k] = @ + 1]

\* A gh node is restarted with all its versions.  progress is left alone.
Restart ==
    /\ pc = "restart"
    /\ IF Mode(cur[1]) = "compute" THEN StartJob(cur) ELSE StartFleet(cur[1])
    /\ Count(cur)
    /\ cur' = NoKey /\ pc' = "poll"
    /\ UNCHANGED <<runs, assign, due, left, running, progress, journal, hereVars,
                   tool, inbox, out, marks>>

-----------------------------------------------------------------------------
(* Second half: compute nodes with a free slot get versions that do not run. *)

Fill ==
    /\ pc = "poll" /\ left = {}
    /\ left' = {k \in assign : Mode(k[1]) = "compute"} /\ pc' = "fill"
    /\ UNCHANGED <<runs, assign, due, cur, running, attempt, progress, journal,
                   hereVars, nodeVars, histVars>>

First(k) == /\ pc = "fill" /\ k \in left /\ left' = left \ {k}
            /\ \A j \in left : k[1] < j[1] \/ (k[1] = j[1] /\ k[2] <= j[2])

Full(n) == Cardinality({k \in running : k[1] = n}) >= Rows[n].slots

PassBy(k) ==
    /\ First(k) /\ (Full(k[1]) \/ k \in running)
    /\ UNCHANGED <<pc, runs, assign, due, cur, running, attempt, progress, journal,
                   hereVars, nodeVars, histVars>>

Announce(k) ==
    /\ First(k) /\ ~Full(k[1]) /\ k \notin running
    /\ Journal({k}, "running")
    /\ cur' = k /\ pc' = "ship"
    /\ UNCHANGED <<runs, assign, due, running, attempt, progress, hereVars,
                   nodeVars, histVars>>

Ship ==
    /\ pc = "ship" /\ Mode(ScpHost) # "local"
    /\ inbox' = [inbox EXCEPT ![ScpHost] = @ \cup {cur[2]}]
    /\ pc' = "launch"
    /\ UNCHANGED <<runs, loopVars, journal, hereVars, tool, out, marks, fleet, job, histVars>>

Launch ==
    /\ pc = "launch"
    /\ StartJob(cur)
    /\ running' = running \cup {cur} /\ attempt' = [attempt EXCEPT ![cur] = 1]
    /\ progress' = TRUE
    /\ cur' = NoKey /\ pc' = "fill"
    /\ UNCHANGED <<runs, assign, due, left, journal, hereVars,
                   tool, inbox, out, marks>>

PassEnd == pc = "fill" /\ left = {}

Again ==
    /\ PassEnd /\ progress
    /\ NewPass
    /\ UNCHANGED <<runs, assign, due, cur, running, attempt, journal, hereVars,
                   nodeVars, histVars>>

\* The tables of the process go with it.
Leaves(to) ==
    /\ pc' = to /\ assign' = {} /\ due' = {} /\ left' = {} /\ cur' = NoKey
    /\ running' = {} /\ attempt' = [k \in Keys |-> 0] /\ progress' = FALSE
    /\ starts' = [n \in Nodes |-> 0]
    /\ copy' = "none"
    /\ UNCHANGED <<runs, journal, release, gone, nodeVars, stale>>

Ends == Leaves("idle")

OnlyComplete == PassEnd /\ ~progress /\ Ends

\* Nothing in progress ("fleet run complete"), or beyond TIMEOUT_SEC.
Finish == PassEnd /\ Ends

\* set -e: a remote command fails, and the run ends where it stands; or a signal.
Abort == pc # "idle" /\ Ends

\* Where the run waits for a command: fleet-push.py in the foreground, ssh, scp
\* or gh.  None has a timeout and ssh no keepalive, so one may never return; the
\* run then does nothing more, and TIMEOUT_SEC, compared after a pass, is never
\* looked at.
Waits ==
    \/ pc = "dispatch" /\ due # {}
    \/ pc = "poll" /\ left # {}
    \/ pc \in {"launch_fleet", "pull", "publish", "upload", "tidy", "clear", "restart",
              "ship", "launch"}

Hang == Waits /\ Leaves("hung")

-----------------------------------------------------------------------------
(* fleet-run.sh on a gh node. *)

FleetUpload(n, v) ==
    /\ fleet[n].at = "push" /\ v \in fleet[n].vers
    /\ n \in tool /\ v \notin release
    /\ Put(v)
    /\ UNCHANGED <<pc, runs, loopVars, journal, copy, nodeVars, histVars>>

FleetPushEnds(n) ==
    /\ fleet[n].at = "push"
    /\ fleet' = [fleet EXCEPT ![n].at = "mark"]
    /\ UNCHANGED <<pc, runs, loopVars, journal, hereVars, tool, inbox, out, marks, job, histVars>>

\* The list of assets may not come (2>/dev/null).
TrustAll(v) == {"done", "failed"}
Verdicts(v) == IF v \in release THEN {"done", "failed"} ELSE {"failed"}

\* One turn of for v in $VERS.
FleetMark(n, v) ==
    /\ fleet[n].at = "mark" /\ v \in fleet[n].vers /\ \A w \in fleet[n].vers : v <= w
    /\ \E m \in Verdicts(v) : Mark(<<n, v>>, marks[<<n, v>>] \cup {m})
    /\ fleet' = [fleet EXCEPT ![n] = IF fleet[n].vers = {v} THEN NoFleet
                                     ELSE [at |-> "mark", vers |-> fleet[n].vers \ {v}]]
    /\ UNCHANGED <<pc, runs, loopVars, journal, hereVars, tool, inbox, out, job, histVars>>

(* upx-job.sh on a compute node.  The package is unpacked and packed ("new"), *)
(* then written to out/ ("xz"); the marker comes last.                      *)

MarksFirst(k) ==
    /\ job[k] = "new" /\ k[2] \in inbox[k[1]]
    /\ job' = [job EXCEPT ![k] = "xz"] /\ out' = [out EXCEPT ![k] = "part"]
    /\ Mark(k, marks[k] \cup {"done"})
    /\ UNCHANGED <<pc, runs, loopVars, journal, hereVars, tool, inbox, fleet, histVars>>

JobWrites(k) ==
    /\ job[k] = "new" /\ k[2] \in inbox[k[1]]
    /\ job' = [job EXCEPT ![k] = "xz"] /\ out' = [out EXCEPT ![k] = "part"]
    /\ UNCHANGED <<pc, runs, loopVars, journal, hereVars, tool, inbox, marks, fleet, histVars>>

JobDone(k) ==
    /\ job[k] = "xz"
    /\ job' = [job EXCEPT ![k] = "none"] /\ out' = [out EXCEPT ![k] = "whole"]
    /\ Mark(k, marks[k] \cup {"done"})
    /\ UNCHANGED <<pc, runs, loopVars, journal, hereVars, tool, inbox, fleet, histVars>>

JobFails(k) ==
    /\ job[k] \in {"new", "xz"}
    /\ job' = [job EXCEPT ![k] = "none"] /\ Mark(k, marks[k] \cup {"failed"})
    /\ UNCHANGED <<pc, runs, loopVars, journal, hereVars, tool, inbox, out, fleet, histVars>>

\* Termux is killed or the phone restarts: its sessions are gone, no marker.
NodeDies(n) ==
    /\ fleet[n] # NoFleet \/ Live(n) # {}
    /\ fleet' = [fleet EXCEPT ![n] = NoFleet]
    /\ job' = [k \in Keys |-> IF k[1] = n THEN "none" ELSE job[k]]
    /\ UNCHANGED <<pc, runs, loopVars, journal, hereVars, tool, inbox, out, marks, histVars>>

-----------------------------------------------------------------------------
Handler == Pull \/ Unpublish \/ Publish \/ Tidy \/ ClearMarks \/ Restart \/ Ship \/ Launch
Dispatch(n) == LocalExit(n) \/ Equip(n) \/ LaunchFleet(n) \/ Prepare(n)
Visit(k) == \/ \E answer \in BOOLEAN : StillRunning(k, answer)
            \/ NodeUploaded(k) \/ Exhausted(k) \/ Handle(k) \/ PassBy(k) \/ Announce(k)
Loop == Enter \/ Fill \/ Again \/ Finish
FleetStep(n) == FleetPushEnds(n) \/ \E v \in Vers : FleetUpload(n, v) \/ FleetMark(n, v)
JobStep(k) == JobWrites(k) \/ JobDone(k) \/ JobFails(k)

Run == Loop \/ Handler \/ (\E n \in Nodes : Dispatch(n)) \/ \E k \in Keys : Visit(k)

Next ==
    \/ Begin \/ Run \/ Hang \/ Abort
    \/ \E n \in Nodes, v \in Vers : LocalUpload(n, v)
    \/ \E n \in Nodes : FleetStep(n) \/ NodeDies(n)
    \/ \E k \in Keys : JobStep(k)

Spec == Init /\ [][Next]_vars

\* A started run goes on as long as its commands return, done or failed.  Each
\* pass sleeps POLL_SEC, so one that comes to its end again and again is beyond
\* TIMEOUT_SEC.  Nothing makes the operator interrupt a run that hangs.
FairSpec == Spec /\ WF_vars(Run \/ (pc # "hung" /\ Abort)) /\ SF_vars(Finish)
-----------------------------------------------------------------------------
(* Properties. *)

Content == {"pending", "running", "done", "failed", "none"}

TypeOK ==
    /\ pc \in {"idle", "dispatch", "launch_fleet", "poll", "pull", "publish", "upload",
               "tidy", "clear", "restart", "fill", "ship", "launch", "hung"}
    /\ runs \in Seq((SUBSET Nodes) \ {{}})
    /\ assign \subseteq Keys /\ due \subseteq Nodes /\ left \subseteq assign
    /\ cur \in Keys \cup {NoKey} /\ running \subseteq assign
    /\ attempt \in [Keys -> 0..Attempts]
    /\ progress \in BOOLEAN
    /\ journal \in [Keys -> Content]
    /\ copy \in Files /\ release \subseteq Vers /\ gone \subseteq Vers
    /\ tool \subseteq Nodes
    /\ inbox \in [Nodes -> SUBSET Vers]
    /\ out \in [Keys -> Files]
    /\ marks \in [Keys -> SUBSET {"done", "failed"}]
    /\ fleet \in [Nodes -> [at: {"none", "push", "mark"}, vers: SUBSET Vers]]
    /\ job \in [Keys -> {"none", "new", "xz"}]
    /\ starts \in [Nodes -> Nat]
    /\ stale \in [Keys -> BOOLEAN]

\* What the journal calls done on a remote node has its asset on the release,
\* although the markers it was read from may be of any earlier run, session or
\* attempt; only the upload of a later run that replaced it and failed half-way
\* leaves the release without it.  (A local node has no such claim: see LocalExit.)
DoneIsReleased ==
    \A k \in Keys : journal[k] = "done" /\ Mode(k[1]) # "local" => k[2] \in release \cup gone

\* A gh node is restarted as a whole for each version that failed, but the
\* attempts of its versions bound the sessions of one run.
StartsBounded ==
    \A n \in Nodes : Mode(n) = "gh" =>
        starts[n] <= IF Of(n) = {} THEN 0 ELSE 1 + (Attempts - 1) * Cardinality(Of(n))

\* Within a run the verdict on a version of a gh or local node is final: no
\* later marker and no restart of its node changes it.
VerdictStays ==
    [][\A k \in Keys :
          Mode(k[1]) # "compute" /\ journal[k] \in {"done", "failed"} /\ runs' = runs
            => journal'[k] = journal[k]]_vars

\* A truncated output is copied, and then published, only on the word of a
\* marker that was there before the job was started, or from another node.
TruncatedOnlyIfStale ==
    [][pc = "pull" /\ pc' = "publish" /\ copy' = "part"
         => stale[cur] \/ cur[1] # ScpHost]_vars

\* A run ends, however its commands and the sessions on its nodes fail or die,
\* unless a command that it waits for never returns.
EndsUnlessHung == (pc # "idle") ~> (pc \in {"idle", "hung"})

=============================================================================
