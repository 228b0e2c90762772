-------------------------- MODULE FleetScheduler ---------------------------
(***************************************************************************)
(* tools/fleet-push.py: the scheduler that packs opencode versions on      *)
(* local slots and remote nodes.  Four kinds of actor share its state:     *)
(*                                                                         *)
(*   the main thread    poll finished jobs, then walk the slots, probe     *)
(*                      their node and hand the idle ones a version        *)
(*   a job per slot     a shell pipeline, the reader thread that turns its *)
(*                      '#' lines into fields of the version, and the      *)
(*                      writer thread that feeds a remote job its package  *)
(*   the prefetcher     background download of missing packages            *)
(*   the operator       SIGINT/SIGTERM/SIGHUP, handled ON the main thread  *)
(*                      between any two of its steps                       *)
(*                                                                         *)
(* Versions are numbered in the order of the f.vers dict, slots in the     *)
(* order of f.slots: local#1 .. local#k, then the remote nodes, whose one  *)
(* slot has the node's name.  Progress percentages, the screen and the log *)
(* are left out.                                                           *)
(***************************************************************************)
EXTENDS Integers

CONSTANTS NVers,       \* number of versions in f.vers
          NLocal,      \* o.slots
          NRemote,     \* remote nodes of FLEET_NODES
          Attempts,    \* o.attempts
          FailLimit,   \* NODE_FAIL_LIMIT
          StartsWith,  \* <<t, s>>: the name of slot t starts with that of s
          Inbox,       \* --source inbox: every package is on this machine
          SplitLines,  \* the reader may cut a '#' line at a read boundary
          Errors,      \* the kinds of "#E" line a step may end with
          MaxSignals   \* how many signals the operator sends

Vers        == 1..NVers
LocalSlots  == 1..NLocal
RemoteSlots == (NLocal + 1)..(NLocal + NRemote)
Slots       == 1..(NLocal + NRemote)

ASSUME FleetAssumption ==
    /\ NVers \in Nat /\ NRemote \in Nat
    /\ NLocal \in Nat \ {0}
    /\ Attempts \in Nat \ {0}
    /\ FailLimit \in Nat \ {0}
    /\ MaxSignals \in 0..3
    /\ StartsWith \in SUBSET (Slots \X RemoteSlots)
    /\ \A s \in RemoteSlots : <<s, s>> \in StartsWith
    /\ Inbox \in BOOLEAN /\ SplitLines \in BOOLEAN
    /\ Errors \subseteq {"transient", "untar", "fatal"}

NoVer   == 0      \* slot not in slot_job
NoNode  == -1     \* v.node is None
Local   == 0      \* v.node == "local"

NodeIsSlotName(s) == s   \* mutant: "local#1" is not cut at the '#'
NodeOf(s) == IF s \in LocalSlots THEN Local ELSE s

\* Counters saturate just past the last value the code can tell apart.
AttemptCap == Attempts + 1

VARIABLES
    pc,         \* where the main thread is
    pollTodo,   \* jobs poll() has still to look at
    scanTodo,   \* slots this pass has still to visit
    slots,      \* f.slots
    slotJob,    \* f.slot_job
    job,        \* sched.jobs with the state of each process
    vstate,     \* v.state
    vnode,      \* v.node
    attempt,    \* v.attempt
    verr,       \* v.err, and whether this attempt wrote it
    sha,        \* v.sha_node, and whether this attempt wrote it
    pushed,     \* v.push_pct >= 100
    pkg,        \* versions whose v.pkg file is on this machine
    health,     \* f.health with its age: "unknown" once HEALTH_TTL is over
    fails,      \* f.health_fails
    sigs        \* signals so far: 1 = stopped, 2 = force

verVars    == <<vstate, vnode, attempt, verr, sha, pushed>>
healthVars == <<health, fails, slots>>
loopVars   == <<pc, pollTodo, scanTodo>>
vars == <<pc, pollTodo, scanTodo, slots, slotJob, job, vstate, vnode, attempt,
          verr, sha, pushed, pkg, health, fails, sigs>>

Finished   == {"ok", "bad"}   \* job.done is set, with rc = 0 or not
InFlight   == {"push", "compute"}
Terminal   == {"done", "failed", "skipped"}
Stopped    == sigs >= 1
Forced     == sigs >= 2
Alive      == pc \notin {"ended", "aborted"}
Jobs       == {p \in Slots \X Vers : job[p[1]][p[2]] # "none"}

Init ==
    /\ pc = "top"
    /\ pollTodo = {} /\ scanTodo = {}
    /\ slots = Slots
    /\ slotJob = [s \in Slots |-> NoVer]
    /\ job = [s \in Slots |-> [v \in Vers |-> "none"]]
    \* "done": the release holds the asset already; "skipped": no package source
    /\ vstate \in [Vers -> {"pending", "done", "skipped"}]
    /\ vnode = [v \in Vers |-> NoNode]
    /\ attempt = [v \in Vers |-> 0]
    /\ verr = [v \in Vers |-> "none"]
    /\ sha = [v \in Vers |-> "none"]
    /\ pushed = [v \in Vers |-> FALSE]
    /\ pkg \in SUBSET Vers
    /\ Inbox => pkg = Vers
    /\ health = [n \in RemoteSlots |-> "unknown"]
    /\ fails = [n \in RemoteSlots |-> 0]
    /\ sigs = 0

----------------------------------------------------------------------------
(* The main loop: its condition, and Scheduler.poll(). *)

LeaveAtOnce == Stopped   \* mutant: jobs still running are not waited for
MayLeave == Stopped /\ Jobs = {}

LoopTop ==
    /\ pc = "top"
    /\ ~MayLeave
    /\ pc' = "poll"
    /\ pollTodo' = Jobs
    /\ UNCHANGED <<scanTodo, slotJob, job, verVars, pkg, healthVars, sigs>>

LoopLeave ==
    /\ pc = "top"
    /\ MayLeave
    /\ pc' = "cleanup"
    /\ UNCHANGED <<pollTodo, scanTodo, slotJob, job, verVars, pkg, healthVars, sigs>>

PollUnfinished(s, v) ==
    /\ pc = "poll"
    /\ <<s, v>> \in pollTodo
    /\ job[s][v] \notin Finished
    /\ pollTodo' = pollTodo \ {<<s, v>>}
    /\ UNCHANGED <<pc, scanTodo, slotJob, job, verVars, pkg, healthVars, sigs>>

KeepSlotJob(s) == UNCHANGED slotJob   \* mutant: slot_job.pop() forgotten
FreeSlot(s) == slotJob' = [slotJob EXCEPT ![s] = NoVer]

\* The job leaves sched.jobs and its slot leaves slot_job.
Reap(s, v) ==
    /\ pc = "poll"
    /\ <<s, v>> \in pollTodo
    /\ job[s][v] \in Finished
    /\ pollTodo' = pollTodo \ {<<s, v>>}
    /\ FreeSlot(s)
    /\ job' = [job EXCEPT ![s][v] = "none"]
    /\ UNCHANGED <<pc, scanTodo, attempt, sha, pushed, pkg, healthVars, sigs>>

\* A remote job that failed before its package was across.
PushBroken(s, v) == vstate[v] = "push" /\ job[s][v] = "bad" /\ ~pushed[v]

AnyError(v) == verr[v] # "none"   \* mutant: every error is final
\* _classify_err(v.err): CantPack, NotCompressible, 404, "not found", all read
\* off the stderr of a tool ("fatal").  Its patterns "e untar" and "e no-elf"
\* match nothing: _on_line stores the text after "#E ", here "untar".
Deterministic(v) == verr[v] \in {"fatal", "stalefatal"}

Succeeded(s, v) == job[s][v] = "ok" /\ sha[v] # "none"

OneMoreAttempt(v) == attempt[v] > Attempts   \* mutant
OutOfAttempts(v) == attempt[v] >= Attempts

KeepNode(v) == UNCHANGED vnode   \* mutant: v.node = None forgotten
Unassign(v) == vnode' = [vnode EXCEPT ![v] = NoNode]

\* Neither the attempts nor the error are looked at on this path.
RequeuePush(s, v) ==
    /\ Reap(s, v)
    /\ PushBroken(s, v)
    /\ vstate' = [vstate EXCEPT ![v] = "pending"]
    /\ Unassign(v)
    /\ UNCHANGED verr

\* v.node is kept.
Complete(s, v) ==
    /\ Reap(s, v)
    /\ ~PushBroken(s, v) /\ Succeeded(s, v)
    /\ vstate' = [vstate EXCEPT ![v] = "done"]
    /\ UNCHANGED <<vnode, verr>>

GiveUp(s, v) ==
    /\ Reap(s, v)
    /\ ~PushBroken(s, v) /\ ~Succeeded(s, v)
    /\ Deterministic(v) \/ OutOfAttempts(v)
    /\ vstate' = [vstate EXCEPT ![v] = "failed"]
    /\ UNCHANGED <<vnode, verr>>

\* An empty v.err becomes "rc=<n>", which no pattern matches.
Retry(s, v) ==
    /\ Reap(s, v)
    /\ ~PushBroken(s, v) /\ ~Succeeded(s, v)
    /\ ~Deterministic(v) /\ ~OutOfAttempts(v)
    /\ vstate' = [vstate EXCEPT ![v] = "pending"]
    /\ Unassign(v)
    /\ verr' = [verr EXCEPT ![v] = "transient"]

NonePending == \A v \in Vers : vstate[v] # "pending"   \* mutant
AllTerminal == \A v \in Vers : vstate[v] \in Terminal

PollEnd ==
    /\ pc = "poll" /\ pollTodo = {}
    /\ pc' = IF AllTerminal THEN "cleanup" ELSE IF Stopped THEN "top" ELSE "scan"
    /\ scanTodo' = IF pc' = "scan" THEN slots ELSE {}
    /\ UNCHANGED <<pollTodo, slotJob, job, verVars, pkg, healthVars, sigs>>

----------------------------------------------------------------------------
(* The walk over a snapshot of f.slots.  Stopped is not looked at again    *)
(* before the walk is over.                                                *)

\* The walk has come to slot s.
Visiting(s) ==
    /\ pc = "scan"
    /\ s \in scanTodo
    /\ \A t \in scanTodo : s <= t

PassBy(s) == scanTodo' = scanTodo \ {s}

SkipBusy(s) ==
    /\ Visiting(s)
    /\ slotJob[s] # NoVer
    /\ PassBy(s)
    /\ UNCHANGED <<pc, pollTodo, slotJob, job, verVars, pkg, healthVars, sigs>>

\* health_ok() without a probe: quarantined, or known to be down.
Quarantined(n) == fails[n] >= FailLimit

SkipUnhealthy(s) ==
    /\ Visiting(s)
    /\ slotJob[s] = NoVer
    /\ s \in RemoteSlots
    /\ Quarantined(s) \/ health[s] = "down"
    /\ PassBy(s)
    /\ UNCHANGED <<pc, pollTodo, slotJob, job, verVars, pkg, healthVars, sigs>>

PrefixReversed(n) == {s \in slots : <<n, s>> \in StartsWith}   \* mutant
\* Slots taken off f.slots when node n is quarantined: s.startswith(n).
SlotsOfNode(n) == {s \in slots : <<s, n>> \in StartsWith}

ProbeFails(s) ==
    /\ Visiting(s)
    /\ slotJob[s] = NoVer
    /\ s \in RemoteSlots
    /\ ~Quarantined(s) /\ health[s] = "unknown"
    /\ health' = [health EXCEPT ![s] = "down"]
    /\ fails' = [fails EXCEPT ![s] = @ + 1]
    /\ slots' = IF fails'[s] >= FailLimit THEN slots \ SlotsOfNode(s) ELSE slots
    /\ PassBy(s)
    /\ UNCHANGED <<pc, pollTodo, slotJob, job, verVars, pkg, sigs>>

\* mutant: any fresh answer of a node counts as a good one
HealthKnown(s) ==
    \/ s \in LocalSlots /\ UNCHANGED healthVars
    \/ s \in RemoteSlots /\ health[s] # "unknown" /\ UNCHANGED healthVars

\* health_ok() returns True: the local node, a fresh answer, or a new probe.
HealthOk(s) ==
    \/ s \in LocalSlots /\ UNCHANGED healthVars
    \/ /\ s \in RemoteSlots
       /\ ~Quarantined(s) /\ health[s] = "up"
       /\ UNCHANGED healthVars
    \/ /\ s \in RemoteSlots
       /\ ~Quarantined(s) /\ health[s] = "unknown"
       /\ health' = [health EXCEPT ![s] = "up"]
       /\ fails' = [fails EXCEPT ![s] = 0]
       /\ UNCHANGED slots

NotOnANode(v) == vnode[v] = NoNode   \* mutant: the state is not looked at
NotStarted(v) == vstate[v] \in {"pending", "push"}   \* mutant: nor is the node
Waiting(v) == vstate[v] = "pending" /\ vnode[v] = NoNode

NextPending(v) == Waiting(v) /\ \A w \in Vers : Waiting(w) => v <= w

NothingPending(s) ==
    /\ Visiting(s)
    /\ slotJob[s] = NoVer
    /\ HealthOk(s)
    /\ \A v \in Vers : ~Waiting(v)
    /\ PassBy(s)
    /\ UNCHANGED <<pc, pollTodo, slotJob, job, verVars, pkg, sigs>>

\* assign() up to the entry in sched.jobs, whose process does not exist yet.
Assign(s, v) ==
    /\ Visiting(s)
    /\ slotJob[s] = NoVer
    /\ HealthOk(s)
    /\ NextPending(v)
    /\ pc' = "start"
    /\ vnode' = [vnode EXCEPT ![v] = NodeOf(s)]
    /\ vstate' = [vstate EXCEPT ![v] = IF s \in RemoteSlots THEN "push" ELSE "compute"]
    /\ attempt' = [attempt EXCEPT ![v] = IF @ < AttemptCap THEN @ + 1 ELSE @]
    /\ pushed' = [pushed EXCEPT ![v] = FALSE]
    /\ verr' = [verr EXCEPT ![v] = IF @ = "fatal" THEN "stalefatal" ELSE @]
    /\ sha' = [sha EXCEPT ![v] = IF @ = "fresh" THEN "stale" ELSE @]
    /\ slotJob' = [slotJob EXCEPT ![s] = v]
    /\ job' = [job EXCEPT ![s][v] = "new"]
    /\ PassBy(s)
    /\ UNCHANGED <<pollTodo, pkg, sigs>>

\* PtyJob.start().  _push_writer takes the size of the package before its
\* try block: without the file the thread dies and never closes stdin.
StartJob(s, v) ==
    /\ pc = "start"
    /\ job[s][v] = "new"
    /\ job' = [job EXCEPT ![s][v] =
                  IF s \in RemoteSlots /\ v \notin pkg THEN "stuck" ELSE "running"]
    /\ pc' = "scan"
    /\ UNCHANGED <<pollTodo, scanTodo, slotJob, verVars, pkg, healthVars, sigs>>

ScanEnd ==
    /\ pc = "scan" /\ scanTodo = {}
    /\ pc' = "top"
    /\ UNCHANGED <<pollTodo, scanTodo, slotJob, job, verVars, pkg, healthVars, sigs>>

----------------------------------------------------------------------------
(* Jobs: the shell pipeline seen through the reader and writer threads.    *)

\* The writer has sent the last chunk and closed stdin.
PushDone(s, v) ==
    /\ Alive
    /\ s \in RemoteSlots /\ job[s][v] = "running" /\ ~pushed[v]
    /\ pushed' = [pushed EXCEPT ![v] = TRUE]
    /\ UNCHANGED <<loopVars, slotJob, job, vstate, vnode, attempt, verr, sha,
                   pkg, healthVars, sigs>>

ShaLine(v) == sha' = [sha EXCEPT ![v] = "fresh"]

\* Unpacked, compressed, "#SHA" printed.  A local job has fetched a missing
\* package into v.pkg itself.
Pack(s, v) ==
    /\ Alive
    /\ job[s][v] = "running"
    /\ s \in RemoteSlots => pushed[v]
    /\ job' = [job EXCEPT ![s][v] = "packed"]
    /\ \/ ShaLine(v)
       \/ SplitLines /\ UNCHANGED sha
    /\ pkg' = pkg \cup {v}
    /\ UNCHANGED <<loopVars, slotJob, vstate, vnode, attempt, verr, pushed,
                   healthVars, sigs>>

Upload(s, v) ==
    /\ Alive
    /\ job[s][v] = "packed"
    /\ job' = [job EXCEPT ![s][v] = "ok"]
    /\ UNCHANGED <<loopVars, slotJob, verVars, pkg, healthVars, sigs>>

\* The pipeline says "#E ..." and exits.  Before the output is packed any step
\* may fail: fetch and upx for good or for now, the unpacking because the
\* package is cut short or holds no ELF; afterwards only the upload, for now.
\* A remote pipeline says nothing before its stdin is closed.
FailStep(s, v) ==
    /\ Alive
    /\ s \in RemoteSlots => pushed[v]
    /\ \E e \in Errors :
          /\ job[s][v] = "running" \/ (job[s][v] = "packed" /\ e = "transient")
          /\ verr' = [verr EXCEPT ![v] = e]
    /\ job' = [job EXCEPT ![s][v] = "bad"]
    /\ \/ UNCHANGED pkg
       \/ s \in LocalSlots /\ pkg' = pkg \cup {v}   \* a partial fetch stays there
    /\ UNCHANGED <<loopVars, slotJob, vstate, vnode, attempt, sha, pushed,
                   healthVars, sigs>>

\* The process ends without a word, or its "#E" line is lost: connection
\* dropped, killed from outside.
FailSilently(s, v) ==
    /\ Alive
    /\ job[s][v] \in {"running", "packed", "stuck"}
    /\ job' = [job EXCEPT ![s][v] = "bad"]
    /\ UNCHANGED <<loopVars, slotJob, verVars, pkg, healthVars, sigs>>

----------------------------------------------------------------------------
(* The prefetch thread, the clock and the operator. *)

Prefetch(v) ==
    /\ Alive
    /\ v \notin pkg
    /\ pkg' = pkg \cup {v}
    /\ UNCHANGED <<loopVars, slotJob, job, verVars, healthVars, sigs>>

HealthExpires(n) ==
    /\ Alive
    /\ health[n] # "unknown"
    /\ health' = [health EXCEPT ![n] = "unknown"]
    /\ UNCHANGED <<loopVars, slotJob, job, verVars, pkg, fails, slots, sigs>>

\* PtyJob.kill() on every entry of sched.jobs: nothing to do for one whose
\* process has not been created or is over.
Killed == [s \in Slots |-> [v \in Vers |->
              IF job[s][v] \in {"running", "stuck", "packed"} THEN "bad" ELSE job[s][v]]]

FirstSignal ==
    /\ Alive /\ sigs = 0 /\ sigs < MaxSignals
    /\ sigs' = 1
    /\ UNCHANGED <<loopVars, slotJob, job, verVars, pkg, healthVars>>

\* Kill the jobs, then take _PREFETCH_REG_LOCK: the handler runs on the main
\* thread, which cannot give the lock back if it holds it ("cleanup").
SecondSignal ==
    /\ Alive /\ sigs = 1 /\ sigs < MaxSignals
    /\ sigs' = 2
    /\ job' = Killed
    /\ pc' = IF pc = "cleanup" THEN "wedged" ELSE pc
    /\ UNCHANGED <<pollTodo, scanTodo, slotJob, verVars, pkg, healthVars>>

\* os._exit(130): the loops are gone, the processes of the jobs stay.
ThirdSignal ==
    /\ Alive /\ sigs = 2 /\ sigs < MaxSignals
    /\ sigs' = 3
    /\ pc' = "aborted"
    /\ pollTodo' = {} /\ scanTodo' = {}
    /\ UNCHANGED <<slotJob, job, verVars, pkg, healthVars>>

\* After the loop: the prefetch children are terminated under the registry
\* lock, then whatever is left in sched.jobs if the operator insisted.
Cleanup ==
    /\ pc = "cleanup"
    /\ pc' = "ended"
    /\ job' = IF Forced THEN Killed ELSE job
    /\ UNCHANGED <<pollTodo, scanTodo, slotJob, verVars, pkg, healthVars, sigs>>

Over == ~Alive /\ UNCHANGED vars
----------------------------------------------------------------------------
Poll(s, v) ==
    \/ PollUnfinished(s, v) \/ RequeuePush(s, v) \/ Complete(s, v)
    \/ GiveUp(s, v) \/ Retry(s, v)

Visit(s) ==
    \/ SkipBusy(s) \/ SkipUnhealthy(s) \/ ProbeFails(s) \/ NothingPending(s)
    \/ \E v \in Vers : Assign(s, v)

MainThread ==
    \/ LoopTop \/ LoopLeave \/ PollEnd \/ ScanEnd \/ Cleanup
    \/ \E s \in Slots : Visit(s)
    \/ \E s \in Slots, v \in Vers : Poll(s, v) \/ StartJob(s, v)

JobStep(s, v) ==
    \/ PushDone(s, v) \/ Pack(s, v) \/ Upload(s, v)
    \/ FailStep(s, v) \/ FailSilently(s, v)

Operator == FirstSignal \/ SecondSignal \/ ThirdSignal

Next ==
    \/ MainThread
    \/ \E s \in Slots, v \in Vers : JobStep(s, v)
    \/ \E v \in Vers : Prefetch(v)
    \/ \E n \in RemoteSlots : HealthExpires(n)
    \/ Operator
    \/ Over

Spec == Init /\ [][Next]_vars

\* The main thread and the clock go on, and a process that has its input
\* runs to its end.  Nothing is promised of a job whose stdin stays open, of
\* the network, or of the operator.
Fairness ==
    /\ WF_vars(MainThread)
    /\ \A s \in Slots, v \in Vers :
          WF_vars(job[s][v] # "stuck" /\ JobStep(s, v))
    /\ \A n \in RemoteSlots : WF_vars(HealthExpires(n))

FairSpec == Spec /\ Fairness

----------------------------------------------------------------------------
(* Properties *)

\* The range of every variable (class Ver, Fleet.__init__, Scheduler.__init__).
TypeOK ==
    /\ pc \in {"top", "poll", "scan", "start", "cleanup", "ended", "wedged", "aborted"}
    /\ pollTodo \in SUBSET (Slots \X Vers)
    /\ scanTodo \in SUBSET Slots
    /\ slots \in SUBSET Slots
    /\ slotJob \in [Slots -> Vers \cup {NoVer}]
    /\ job \in [Slots -> [Vers -> {"none", "new", "running", "stuck", "packed"} \cup Finished]]
    /\ vstate \in [Vers -> {"pending"} \cup InFlight \cup Terminal]
    /\ vnode \in [Vers -> {NoNode, Local} \cup RemoteSlots]
    /\ attempt \in [Vers -> 0..AttemptCap]
    /\ verr \in [Vers -> {"none", "transient", "untar", "fatal", "stalefatal"}]
    /\ sha \in [Vers -> {"none", "fresh", "stale"}]
    /\ pushed \in [Vers -> BOOLEAN]
    /\ pkg \in SUBSET Vers
    /\ health \in [RemoteSlots -> {"unknown", "up", "down"}]
    /\ fails \in [RemoteSlots -> 0..FailLimit]
    /\ sigs \in 0..MaxSignals

\* sched.jobs and f.slot_job are two books of the same work, written at
\* different places: they always agree, so a slot that looks idle is idle.
BooksAgree ==
    \A s \in Slots, v \in Vers : job[s][v] # "none" <=> slotJob[s] = v

\* No version is worked on by two slots at once (two uploads of one asset),
\* and the version's own state and node say where it is.
OneSlotPerVersion ==
    \A v \in Vers :
        /\ \A s, t \in Slots : slotJob[s] = v /\ slotJob[t] = v => s = t
        /\ vstate[v] \in InFlight <=> \E s \in Slots : slotJob[s] = v
        /\ \A s \in Slots : slotJob[s] = v => vnode[v] = NodeOf(s)

\* Once the main loop is left, by completion or by a stop, no job is left
\* behind that the reports and the checksum update would not know of.
NothingLeftBehind == pc \in {"cleanup", "wedged", "ended"} => Jobs = {}

\* A slot leaves f.slots only because some remote node with which its name
\* starts (:368) has been unreachable FailLimit times in a row.  A local slot
\* is no exception: a node called "l" takes every "local#i" with it.
LostOnlyToQuarantine ==
    \A s \in Slots \ slots :
        \E n \in RemoteSlots : <<s, n>> \in StartsWith /\ Quarantined(n)

\* NODE_FAIL_LIMIT: what a slot loses it loses to the failures of its own node.
LostToItsOwnNode == \A s \in Slots \ slots : s \in RemoteSlots /\ Quarantined(s)

\* A node that is quarantined, or whose last answer still counts and was a
\* refusal, is given no job: neither by a walk that has its slot in the
\* snapshot from before nor by a later one.
NoJobForDeadNode ==
    [][\A s \in RemoteSlots :
          (fails[s] >= FailLimit \/ health[s] = "down") /\ slotJob[s] = NoVer
              => slotJob'[s] = NoVer]_vars

\* Past the attempts limit only a push that broke sends a version back.
OnlyPushesOutlastTheLimit ==
    [][\A v \in Vers :
          (/\ attempt[v] >= Attempts
           /\ vstate[v] \in InFlight /\ vstate'[v] = "pending")
              => vstate[v] = "push" /\ ~pushed[v]]_vars

\* --attempts, "尝试 {v.attempt}/{o.attempts}": no version is tried more often
\* than the operator allowed.
AttemptsBounded == \A v \in Vers : attempt[v] <= Attempts

\* A version is given up with attempts left only for a deterministic error
\* of its last attempt.
GiveUpJustified ==
    \A v \in Vers :
        vstate[v] = "failed" /\ attempt[v] < Attempts => verr[v] = "fatal"

\* update_checksums lists the sha "of the asset this run has added": the sha of
\* a finished version is the one its last attempt, the one that uploaded, said.
DoneShaFresh ==
    \A v \in Vers : vstate[v] = "done" /\ attempt[v] > 0 => sha[v] = "fresh"

\* Every job that was started comes to its end and gives its slot back.
JobsEnd ==
    \A s \in Slots : (slotJob[s] # NoVer) ~> (slotJob[s] = NoVer)

\* The run ends: every version is settled or the operator's stop is obeyed.
RunEnds == <>(pc = "ended")

\* A run nobody interrupts settles every version.
AllSettled ==
    pc = "ended" /\ ~Stopped =>
        \A v \in Vers : vstate[v] \in {"done", "failed", "skipped"}

\* The scheduler keeps the promises of FleetClaims.
Claims == INSTANCE FleetClaims WITH
    Items   <- Vers,
    Holders <- Slots,
    open    <- {v \in Vers : vstate[v] = "pending"},
    held    <- {p \in Slots \X Vers : slotJob[p[1]] = p[2]},
    closed  <- {v \in Vers : vstate[v] \in Terminal}

ImplementsClaims == Claims!ClaimSpec
============================================================================
