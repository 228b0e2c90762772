---------------------------- MODULE PluginManager ----------------------------
(***************************************************************************)
(* tools/plugin-manager.sh: plugins cloned, built and registered in the    *)
(* user's configuration, with a snapshot taken before each change and put  *)
(* back when the change fails.  The script runs under "set -e", which the  *)
(* shell suspends in the condition of an "if": the rollback of a failed    *)
(* command goes on where the rollback command itself would have stopped,   *)
(* except where it calls die, which ends the whole script.                 *)
(*                                                                         *)
(* One command runs at a time; it may be killed after any step.  What a    *)
(* plugin's tree contains is told apart by the upstream revision it comes  *)
(* from.                                                                   *)
(***************************************************************************)
EXTENDS Integers

CONSTANTS Plugins,
          Behind,     \* <<n, m>>: the name of m begins with that of n and "-"
          MaxRev,     \* revisions of the upstream repositories
          MaxTime,    \* snapshots are named by the second they are taken in
          MaxCommands \* how many commands are run

ASSUME PluginAssumption ==
    /\ Behind \subseteq {p \in Plugins \X Plugins : p[1] # p[2]}
    /\ MaxRev \in Nat \ {0}
    /\ MaxTime \in Nat /\ MaxCommands \in Nat

Revs == 1..MaxRev
None == 0
Files == Revs \cup {None}

\* local-plugins/<name>: repo, package, package/dist/index.js, index.js
Trees == {t \in [dir: BOOLEAN, repo: Files, pkg: Files, dist: BOOLEAN, entry: Files] :
             /\ t.dist => t.pkg # None
             /\ t.repo # None \/ t.pkg # None \/ t.entry # None => t.dir}
Gone  == [dir |-> FALSE, repo |-> None, pkg |-> None, dist |-> FALSE, entry |-> None]
Empty == [Gone EXCEPT !.dir = TRUE]

Archives == [name: Plugins, time: 0..MaxTime, tree: Trees, whole: BOOLEAN]

\* Ways to name a plugin in the list: its index.js, its bare name or the path
\* of its dist, the packaged plugin's index.js.
Entries == {"own", "old", "system"}
Installers == {"install", "update"}
Commands   == Installers \cup {"patch-apply", "rollback", "migrate"}
Places == {"snap", "wipe", "clone", "pull", "apply", "strip", "copy", "build", "config",
           "record", "unroll", "extract", "entry", "relist", "rerecord", "auto", "rewrite"}

VARIABLES
    tree,      \* the directory of each plugin
    snaps,     \* plugin-snapshots/
    cfg,       \* opencode.json: "ok", or "bad" when it is not valid JSON
    listed,    \* entries about each plugin in its "plugin" list
    state,     \* last_action, last_status of each plugin
    now,       \* the clock
    count,     \* commands run so far
    op,        \* the command that runs, "none" between commands
    who,       \* its plugin
    at,        \* its next step
    arc,       \* its snapshot, if any: {} or {archive}
    before,    \* the plugin's tree when the command began
    trouble    \* what went wrong in it that has no error path of its own

files   == <<tree, snaps, cfg, listed, state>>
command == <<count, op, who, arc, before>>
vars == <<tree, snaps, cfg, listed, state, now, count, op, who, at,
          arc, before, trouble>>

Init ==
    /\ tree = [n \in Plugins |-> Gone]
    /\ snaps = {}
    /\ cfg = "ok"
    /\ listed \in [Plugins -> {{}, {"old"}, {"system"}}]
    /\ state = [n \in Plugins |-> <<"none", "none">>]
    /\ now = 0 /\ count = 0
    /\ op = "none" /\ who \in Plugins /\ at = "snap"
    /\ arc = {} /\ before = Gone /\ trouble = {}

\* Building blocks: where the command is and goes, what it changes.
At(p)   == op # "none" /\ at = p
Goto(p) == at' = p /\ UNCHANGED <<now, count, op, who, before>>
Stop    == op' = "none" /\ at' = "snap" /\ UNCHANGED <<now, count, who, before>>
Quiet   == UNCHANGED trouble
Trouble(x) == trouble' = trouble \cup {x}
SetTree(t) == tree' = [tree EXCEPT ![who] = t]
SetState(action, status) == state' = [state EXCEPT ![who] = <<action, status>>]
This == tree[who]

----------------------------------------------------------------------------
(* Commands begin.  Checks that end one at once are guards. *)

Begin(c, n, p) ==
    /\ op = "none" /\ count < MaxCommands
    /\ count' = count + 1
    /\ op' = c /\ who' = n /\ at' = p
    /\ before' = tree[n]
    /\ trouble' = {}
    /\ UNCHANGED <<files, now>>

Install(n) == Begin("install", n, "snap") /\ arc' = {}

Update(n) ==
    /\ tree[n].repo # None
    /\ Begin("update", n, "snap") /\ arc' = {}

PatchApply(n) ==
    /\ tree[n].repo # None
    /\ Begin("patch-apply", n, "snap") /\ arc' = {}

AnyArchive(n, all) == all   \* mutant: find without -name
Matching(n, all) == {a \in all : a.name = n \/ <<n, a.name>> \in Behind}
\* find | sort -r | head: a longer name comes after the digits of a date, so
\* its snapshots come first; of one plugin's snapshots the latest.
After(n, b, a) == \/ b.name = a.name /\ b.time > a.time
                  \/ b.name # n /\ a.name = n
Latest(n, all) ==
    {a \in Matching(n, all) : \A b \in Matching(n, all) : ~After(n, b, a)}

\* Without a file name the latest snapshot, else the one that is named.
Rollback(n) ==
    \E a \in Latest(n, snaps) \cup {b \in snaps : b.name = n} :
        /\ Begin("rollback", n, "unroll")
        /\ arc' = {a}

\* The packaged plugin is there and the list has something to migrate.
Migrate(n) ==
    /\ cfg = "ok" /\ listed[n] # {}
    /\ Begin("migrate", n, "rewrite") /\ arc' = {}

----------------------------------------------------------------------------
(* The steps of install, update and patch-apply. *)

\* snapshot_plugin(), which overwrites a snapshot of the same second, then
\* snapshot_latest(), which may find one although none was taken.
AfterSnap == CASE op = "install" -> "wipe" [] op = "update" -> "pull" [] OTHER -> "apply"

Archive(whole) ==
    snaps' = {a \in snaps : ~(a.name = who /\ a.time = now)}
             \cup {[name |-> who, time |-> now, tree |-> This, whole |-> whole]}

Snapshot ==
    /\ At("snap")
    /\ IF This.dir THEN Archive(TRUE) ELSE UNCHANGED snaps
    /\ IF Latest(who, snaps') = {} THEN arc' = {} ELSE \E a \in Latest(who, snaps') : arc' = {a}
    /\ Goto(AfterSnap) /\ Quiet
    /\ UNCHANGED <<tree, cfg, listed, state>>

\* tar fails: what it has written stays there as the latest snapshot.
SnapshotFails ==
    /\ At("snap") /\ This.dir
    /\ Archive(FALSE)
    /\ Stop /\ Trouble("tar")
    /\ UNCHANGED <<tree, cfg, listed, state, arc>>

Wipe ==
    /\ At("wipe")
    /\ SetTree(Empty)
    /\ Goto("clone") /\ Quiet
    /\ UNCHANGED <<snaps, cfg, listed, state, arc>>

Clone ==
    /\ At("clone")
    /\ \E r \in Revs : SetTree([This EXCEPT !.repo = r])
    /\ Goto("copy") /\ Quiet
    /\ UNCHANGED <<snaps, cfg, listed, state, arc>>

\* git fetch and git pull --ff-only
Pull ==
    /\ At("pull")
    /\ \E r \in Revs : r >= This.repo /\ SetTree([This EXCEPT !.repo = r])
    /\ Goto("strip") /\ Quiet
    /\ UNCHANGED <<snaps, cfg, listed, state, arc>>

\* git apply; when it fails the command ends there.
Apply ==
    /\ At("apply")
    /\ Goto("strip") \/ Stop
    /\ Quiet
    /\ UNCHANGED <<files, arc>>

SourcesOnly == SetTree([This EXCEPT !.pkg = None])   \* mutant
Stripped == SetTree([This EXCEPT !.pkg = None, !.dist = FALSE])

\* rm -rf package
Strip ==
    /\ At("strip")
    /\ Stripped
    /\ Goto("copy") /\ Quiet
    /\ UNCHANGED <<snaps, cfg, listed, state, arc>>

\* cp -a repo package; the repository may hold a built dist.
Copy ==
    /\ At("copy")
    /\ \E shipped \in BOOLEAN : SetTree([This EXCEPT !.pkg = This.repo, !.dist = shipped])
    /\ Goto("build") /\ Quiet
    /\ UNCHANGED <<snaps, cfg, listed, state, arc>>

\* "set -e" ends the command, whichever it is: no rollback, no record.
CopyFails ==
    /\ At("copy")
    /\ Stop /\ Trouble("copy")
    /\ UNCHANGED <<files, arc>>

\* build_plugin() ends with ensure_root_entry().
NoRootEntry == SetTree([This EXCEPT !.dist = TRUE])   \* mutant
Built == SetTree([This EXCEPT !.dist = TRUE, !.entry = This.pkg])

Build ==
    /\ At("build")
    /\ Built
    /\ Goto("config") /\ Quiet
    /\ UNCHANGED <<snaps, cfg, listed, state, arc>>

\* ensure_file_plugin_config(): fails when opencode.json cannot be read.
List ==
    /\ cfg = "ok"
    /\ listed' = [listed EXCEPT ![who] = (@ \ {"old"}) \cup {"own"}]
    /\ UNCHANGED cfg

Config ==
    /\ At("config")
    /\ List
    /\ IF op = "patch-apply" THEN Stop ELSE Goto("record")
    /\ Quiet
    /\ UNCHANGED <<tree, snaps, state, arc>>

Record ==
    /\ At("record")
    /\ SetState(op, "ok")
    /\ Stop /\ Quiet
    /\ UNCHANGED <<tree, snaps, cfg, listed, arc>>

\* mutant: the failure is recorded and nothing else
RecordOnly == Stop /\ SetState(op, "error")
\* A step with an error path fails: install and update record it and roll
\* back if they have a snapshot; patch-apply just ends.
Recover ==
    \/ /\ op = "patch-apply"
       /\ Stop /\ UNCHANGED state
    \/ /\ op \in Installers /\ arc # {}
       /\ SetState(op, "error")
       /\ Goto("unroll")
    \/ /\ op \in Installers /\ arc = {}
       /\ SetState("auto_rollback", "warn")   \* on top of the "error"
       /\ Stop

StepFails ==
    /\ \/ At("clone") /\ UNCHANGED tree
       \/ At("pull") /\ UNCHANGED tree
       \/ At("build") /\ \E d \in {This.dist, TRUE} : SetTree([This EXCEPT !.dist = d])
       \/ At("config") /\ cfg = "bad" /\ UNCHANGED tree
    /\ Recover /\ Quiet
    /\ UNCHANGED <<snaps, cfg, listed, arc>>

----------------------------------------------------------------------------
(* cmd_rollback(), of its own or for a failed install or update. *)

AutoRollback == op # "rollback"
TheArc == CHOOSE a \in arc : TRUE

NotWiped == UNCHANGED tree   \* mutant: the archive is unpacked over what is there
Wiped == SetTree(Gone)

Unroll ==
    /\ At("unroll")
    /\ Wiped
    /\ Goto("extract") /\ Quiet
    /\ UNCHANGED <<snaps, cfg, listed, state, arc>>

\* What tar leaves of a tree t unpacked over the files of another.
Overlaid(old, t) ==
    [dir   |-> TRUE,
     repo  |-> IF t.repo = None THEN old.repo ELSE t.repo,
     pkg   |-> IF t.pkg = None THEN old.pkg ELSE t.pkg,
     dist  |-> t.dist \/ old.dist,
     entry |-> IF t.entry = None THEN old.entry ELSE t.entry]
Unpacked(t) == tree' = [tree EXCEPT ![TheArc.name] = Overlaid(@, t)]

\* The archive holds the directory of the plugin it was taken of.
Extract ==
    /\ At("extract") /\ TheArc.whole
    /\ Unpacked(TheArc.tree)
    /\ Goto("entry") /\ Quiet
    /\ UNCHANGED <<snaps, cfg, listed, state, arc>>

\* tar stops on the way: some of the files are back.  The rollback of a failed
\* command goes on.
ExtractFails ==
    /\ At("extract")
    /\ LET t == TheArc.tree IN
       \E repo \in {None, t.repo}, entry \in {None, t.entry} :
           Unpacked([Empty EXCEPT !.repo = repo, !.entry = entry])
    /\ Trouble("tar")
    /\ IF AutoRollback THEN Goto("entry") ELSE Stop
    /\ UNCHANGED <<snaps, cfg, listed, state, arc>>

\* ensure_root_entry().  Without a dist the command stops; the rollback of a
\* failed command stops only if there is no entry either (die).
RootEntry ==
    /\ At("entry")
    /\ \/ This.dist /\ SetTree([This EXCEPT !.entry = This.pkg]) /\ Goto("relist")
       \/ ~This.dist /\ AutoRollback /\ This.entry # None /\ UNCHANGED tree /\ Goto("relist")
       \/ ~This.dist /\ (~AutoRollback \/ This.entry = None) /\ UNCHANGED tree /\ Stop
    /\ Quiet
    /\ UNCHANGED <<snaps, cfg, listed, state, arc>>

Relist ==
    /\ At("relist")
    /\ \/ List /\ Goto("rerecord")
       \/ cfg = "bad" /\ UNCHANGED <<cfg, listed>> /\ IF AutoRollback THEN Goto("rerecord") ELSE Stop
    /\ Quiet
    /\ UNCHANGED <<tree, snaps, state, arc>>

Rerecord ==
    /\ At("rerecord")
    /\ SetState("rollback", "ok")
    /\ IF AutoRollback THEN Goto("auto") ELSE Stop
    /\ Quiet
    /\ UNCHANGED <<tree, snaps, cfg, listed, arc>>

\* "rollback_applied", then die with the error of the command.
RecordAuto ==
    /\ At("auto")
    /\ SetState("auto_rollback", "ok")
    /\ Stop /\ Quiet
    /\ UNCHANGED <<tree, snaps, cfg, listed, arc>>

\* cmd_migrate_installed(): every other entry gives way to the packaged one.
Rewrite ==
    /\ At("rewrite")
    /\ listed' = [listed EXCEPT ![who] = {"system"}]
    /\ SetState("migrate", "ok")
    /\ Stop /\ Quiet
    /\ UNCHANGED <<tree, snaps, cfg, arc>>

----------------------------------------------------------------------------
(* Whatever the script does not see coming. *)

\* Killed between two steps, or while it rewrites a JSON file in place: a cut
\* opencode.json is "bad", a cut state file is taken for an empty one.
Crash ==
    /\ op # "none"
    /\ Stop /\ Trouble("crash")
    /\ \/ UNCHANGED <<cfg, listed, state>>
       \/ /\ at \in {"config", "relist", "rewrite"} /\ cfg = "ok"
          /\ cfg' = "bad" /\ listed' = [n \in Plugins |-> {}]
          /\ UNCHANGED state
       \/ /\ at \in {"record", "rerecord", "auto"}
          /\ state' = [n \in Plugins |-> <<"none", "none">>]
          /\ UNCHANGED <<cfg, listed>>
    /\ UNCHANGED <<tree, snaps, arc>>

Over == op = "none" /\ count = MaxCommands /\ UNCHANGED vars

Tick ==
    /\ now < MaxTime
    /\ now' = now + 1
    /\ UNCHANGED <<files, command, at, trouble>>

Next ==
    \/ \E n \in Plugins :
          Install(n) \/ Update(n) \/ PatchApply(n) \/ Rollback(n) \/ Migrate(n)
    \/ Snapshot \/ SnapshotFails \/ Wipe \/ Clone \/ Pull \/ Apply \/ Strip
    \/ Copy \/ CopyFails \/ Build \/ Config \/ Record \/ StepFails
    \/ Unroll \/ Extract \/ ExtractFails \/ RootEntry \/ Relist \/ Rerecord
    \/ RecordAuto \/ Rewrite \/ Crash \/ Tick \/ Over

Spec == Init /\ [][Next]_vars

----------------------------------------------------------------------------
(* Properties *)

\* The range of every variable; a command has at most one snapshot.
TypeOK ==
    /\ tree \in [Plugins -> Trees]
    /\ snaps \in SUBSET Archives
    /\ cfg \in {"ok", "bad"}
    /\ listed \in [Plugins -> SUBSET Entries]
    /\ state \in [Plugins -> {"none", "install", "update", "rollback", "auto_rollback", "migrate"}
                             \X {"none", "ok", "error", "warn"}]
    /\ now \in 0..MaxTime /\ count \in 0..MaxCommands
    /\ op \in Commands \cup {"none"} /\ who \in Plugins /\ at \in Places
    /\ arc \in SUBSET Archives /\ \A a, b \in arc : a = b
    /\ before \in Trees
    /\ trouble \in SUBSET {"tar", "copy", "crash"}

\* A command that says ok leaves a plugin that can be loaded: its entry file is
\* there and, if opencode.json can be read at all, the file is listed.
OkMeansUsable ==
    [][\A n \in Plugins :
          state'[n] # state[n] /\ state'[n][2] = "ok" /\ state'[n][1] # "migrate" =>
              /\ tree'[n].entry # None
              /\ cfg' = "ok" => "own" \in listed'[n]]_vars

\* An install or update that fails where it has an error path costs the user
\* nothing: a plugin that had an entry file before still has one.
FailureKeepsPlugin ==
    [][(/\ op \in Installers /\ op' = "none" /\ trouble' = {}
        /\ before.entry # None)
            => tree'[who].entry # None]_vars

\* "rollback_applied": the plugin is what it was when the command began, its
\* entry file made anew from the package it had.
RollbackRestores ==
    [][at = "auto" /\ at' # "auto" /\ trouble' = {} /\ before.dir =>
          tree'[who] = [before EXCEPT !.entry = IF before.dist THEN before.pkg ELSE @]]_vars

\* A command about one plugin leaves the directory, the snapshots, the entries
\* and the record of every other plugin alone.
OthersUntouched ==
    [][\A n \in Plugins \ {who'} :
          /\ tree'[n] = tree[n]
          /\ {a \in snaps' : a.name = n} = {a \in snaps : a.name = n}
          /\ cfg' = cfg => listed'[n] = listed[n]
          /\ state'[n] = state[n] \/ "crash" \in trouble']_vars
============================================================================
