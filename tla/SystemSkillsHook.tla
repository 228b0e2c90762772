-------------------------- MODULE SystemSkillsHook --------------------------
(***************************************************************************)
(* scripts/hooks/run-system-skills.sh: what the packages run after an      *)
(* install or upgrade and before a removal.  For every manifest of a       *)
(* system skill it tests whether the plugin may run on this core, calls    *)
(* the plugin manager if the network is allowed, runs the self-check,      *)
(* leaves a marker that makes the next call skip the manifest, and notes   *)
(* the outcome in a registry.                                              *)
(*                                                                         *)
(* Calls follow one another (the package manager holds a lock).  Between   *)
(* them the core and the block list change.  A call may die at any step:   *)
(* it is killed, or a write fails under "set -e".                          *)
(***************************************************************************)
EXTENDS Integers

CONSTANTS Manifests,
          Plugins, Id,       \* plugin_id of each manifest
          Keys, Key, NoKey,  \* idempotency_key of each manifest, "" is NoKey
          Events, Listens,   \* events of each manifest, {} for all
          Min, Max,          \* minimum and maximum core version, 0 is ""
          Barred,            \* blocked_core_versions of each manifest
          AutoInstall, AutoUpdate,
          Blocklists,        \* what blocklist.json may hold
          Unreadable, Torn,  \* a block list, a registry that is not valid JSON
          Misshapen,         \* a block list whose JSON has not the expected shape
          MaxCore, MaxCalls

\* Core versions are numbered in their order; 0 is "0.0.0", which stands for
\* a core whose version cannot be read.
Cores == 0..MaxCore

\* Closed(b) are the plugins and cores that a list the code can read blocks.
IsBlocklist(b) == b \in {Unreadable, Misshapen} \/ b \subseteq Plugins \X Cores
Closed(b) == IF b \in {Unreadable, Misshapen} THEN {} ELSE b

ASSUME HookAssumption ==
    /\ Id \in [Manifests -> Plugins]
    /\ NoKey \notin Keys /\ Key \in [Manifests -> Keys \cup {NoKey}]
    /\ {"post_install", "post_upgrade"} \subseteq Events
    /\ Listens \in [Manifests -> SUBSET Events]
    /\ Min \in [Manifests -> Cores] /\ Max \in [Manifests -> Cores]
    /\ Barred \in [Manifests -> SUBSET Cores]
    /\ AutoInstall \subseteq Manifests /\ AutoUpdate \subseteq Manifests
    /\ MaxCore \in Nat \ {0} /\ MaxCalls \in Nat
    /\ Manifests # {}
    /\ \A b \in Blocklists : IsBlocklist(b)

Statuses == {"blocked_min_version", "blocked_max_version", "blocked_manifest_list",
             "blocked_global_blocklist", "blocklist_error", "warn_no_plugin_manager",
             "skipped_idempotent", "failed", "warn", "ok"}
Items == [status: Statuses, event: Events, core: Cores, key: Keys \cup {NoKey}]
Absent == [status |-> "absent"]   \* the registry has no item for the plugin
Registries == [Plugins -> Items \cup {Absent}]
Places == {"idle", "next", "gate", "act", "selfcheck", "close", "mark", "report"}

VARIABLES
    core,       \* the version of the core that is installed, 0 for none
    blocklist,  \* blocklist.json
    markers,    \* REG_DIR: <<key, event, core>> of each .done file
    registry,   \* system-skills-registry.json
    installed,  \* the plugins that the plugin manager has installed
    calls,      \* calls so far
    event, strict, network,  \* EVENT, STRICT_MODE, ENABLE_NETWORK of the call
    at,         \* its next step
    todo,       \* manifests it has not come to yet
    cur,        \* the manifest it works on
    cver,       \* the version it read from the core for that manifest
    warned,     \* PROCESS_WARNED
    outcome,    \* the status it is about to note
    abort,      \* whether process_manifest returns 1 after that
    code,       \* its exit status
    \* history
    harmed,     \* a command run for the current manifest has failed
    troubled,   \* some manifest of the call was refused or went wrong
    broken,     \* the call has died
    completed   \* <<manifest, event, core>> gone through without a failure

files == <<core, blocklist, markers, registry, installed>>
given == <<calls, event, strict, network>>
work  == <<at, todo, cur, cver, warned, outcome, abort, code>>
past  == <<harmed, troubled, broken, completed>>
vars  == <<files, given, work, past>>

Init ==
    /\ core = 0 /\ blocklist = {} /\ markers = {} /\ installed = {}
    /\ registry = [p \in Plugins |-> Absent]
    /\ calls = 0 /\ event = "post_install" /\ strict = FALSE /\ network = FALSE
    /\ at = "idle" /\ todo = {} /\ cur \in Manifests /\ cver = 0
    /\ warned = FALSE /\ outcome = "ok" /\ abort = FALSE /\ code = 0
    /\ harmed = FALSE /\ troubled = FALSE /\ broken = FALSE /\ completed = {}

----------------------------------------------------------------------------
(* Between two calls. *)

\* The package manager installs, upgrades, downgrades or removes the core.
ChangeCore(c) ==
    /\ at = "idle" /\ c # core
    /\ core' = c
    /\ UNCHANGED <<blocklist, markers, registry, installed, given, work, past>>

\* blocklist.json comes with the package or is edited by hand, perhaps wrongly.
ChangeBlocklist(b) ==
    /\ at = "idle" /\ b # blocklist
    /\ blocklist' = b
    /\ UNCHANGED <<core, markers, registry, installed, given, work, past>>

Called(e, s, n) ==
    /\ at = "idle" /\ calls < MaxCalls /\ calls' = calls + 1
    /\ event' = e /\ strict' = s /\ network' = n
    /\ harmed' = FALSE /\ broken' = FALSE
    /\ UNCHANGED <<files, cur, cver, warned, outcome, abort, completed>>

Call(e, s, n) ==
    /\ Called(e, s, n)
    /\ at' = "next" /\ todo' = Manifests /\ code' = 0 /\ troubled' = FALSE

\* The directories of the markers and the registry cannot be made.
CallFails(e, s, n) ==
    /\ Called(e, s, n)
    /\ todo' = {} /\ code' = (IF s THEN 1 ELSE 0) /\ troubled' = TRUE
    /\ UNCHANGED at

----------------------------------------------------------------------------
(* process_manifest() *)

KeepsWarning == warned   \* mutant: PROCESS_WARNED is set once, before the loop
NoWarning == FALSE

\* The order of find is any order.  opencode --version may fail or be empty.
Read(m) ==
    /\ at = "next" /\ m \in todo
    /\ todo' = todo \ {m} /\ cur' = m
    /\ warned' = NoWarning /\ harmed' = FALSE
    /\ cver' \in {core, 0}
    /\ at' = IF Listens[m] = {} \/ event \in Listens[m] THEN "gate" ELSE "next"
    /\ UNCHANGED <<files, given, outcome, abort, code, troubled, broken, completed>>

\* The manifest is not valid JSON or has no plugin_id.
Misread(m) ==
    /\ at = "next" /\ m \in todo
    /\ todo' = todo \ {m} /\ cur' = m
    /\ warned' = FALSE /\ harmed' = FALSE /\ troubled' = TRUE
    /\ at' = (IF strict THEN "idle" ELSE "next")
    /\ code' = (IF strict THEN 1 ELSE 0)
    /\ UNCHANGED <<files, given, cver, outcome, abort, broken, completed>>

\* update_registry comes next; then process_manifest returns 1 if stop holds.
Note(status, stop) == at' = "report" /\ outcome' = status /\ abort' = stop

UnreadablePasses ==   \* mutant: any status but 0 of the test means not blocked
    IF <<Id[cur], cver>> \in Closed(blocklist) THEN "blocked_global_blocklist" ELSE "admitted"
\* Only json.load() is in the try block (2).  On a list of another shape the loop
\* raises, and Python's own status for that, 1, is the one for "not blocked".
GlobalVerdict ==
    CASE blocklist = Unreadable -> "blocklist_error"
      [] <<Id[cur], cver>> \in Closed(blocklist) -> "blocked_global_blocklist"
      [] OTHER -> "admitted"

\* The gates in the order of the code; the first that closes gives the status.
TooOld == Min[cur] # 0 /\ cver < Min[cur]
TooNew == Max[cur] # 0 /\ cver > Max[cur]
Verdict ==
    CASE TooOld -> "blocked_min_version"
      [] ~TooOld /\ TooNew -> "blocked_max_version"
      [] ~TooOld /\ ~TooNew /\ cver \in Barred[cur] -> "blocked_manifest_list"
      [] OTHER -> GlobalVerdict

AnyCore == <<Key[cur], event, 0>>   \* mutant: the marker's name without the core
Marker == <<Key[cur], event, cver>>
Marked == Key[cur] # NoKey /\ Marker \in markers

Refuse ==
    /\ at = "gate" /\ Verdict # "admitted"
    /\ Note(Verdict, strict) /\ troubled' = TRUE
    /\ UNCHANGED <<files, given, todo, cur, cver, warned, code, harmed, broken, completed>>

\* plugin-manager.sh is not there or not executable.
NoManager ==
    /\ at = "gate" /\ Verdict = "admitted"
    /\ Note("warn_no_plugin_manager", strict) /\ troubled' = TRUE
    /\ UNCHANGED <<files, given, todo, cur, cver, warned, code, harmed, broken, completed>>

Skip ==
    /\ at = "gate" /\ Verdict = "admitted" /\ Marked
    /\ Note("skipped_idempotent", FALSE)
    /\ UNCHANGED <<files, given, todo, cur, cver, warned, code, past>>

Admit ==
    /\ at = "gate" /\ Verdict = "admitted" /\ ~Marked
    /\ at' = "act"
    /\ UNCHANGED <<files, given, todo, cur, cver, warned, outcome, abort, code, past>>

\* run_or_warn of a command that fails.
WarnsOnly(there) ==   \* mutant: a failure is only warned of when strict, too
    /\ warned' = TRUE /\ harmed' = TRUE /\ troubled' = TRUE
    /\ at' = there /\ UNCHANGED <<outcome, abort>>
RunOrWarnFails(there) ==
    /\ warned' = TRUE /\ harmed' = TRUE /\ troubled' = TRUE
    /\ IF strict THEN Note("failed", TRUE) ELSE at' = there /\ UNCHANGED <<outcome, abort>>

Installs == event = "post_install" /\ cur \in AutoInstall
Updates  == event = "post_upgrade" /\ cur \in AutoUpdate

NothingToRun ==
    /\ at = "act" /\ ~(network /\ (Installs \/ Updates))
    /\ at' = "selfcheck"
    /\ UNCHANGED <<files, given, todo, cur, cver, warned, outcome, abort, code, past>>

\* plugin-manager.sh install, or update, which needs the plugin's repository.
ManagerRuns ==
    /\ at = "act" /\ network /\ (Installs \/ Updates)
    /\ Updates => Id[cur] \in installed
    /\ installed' = installed \cup {Id[cur]} /\ at' = "selfcheck"
    /\ UNCHANGED <<core, blocklist, markers, registry, given, todo, cur, cver, warned,
                   outcome, abort, code, past>>

\* A command that fails may have removed the plugin.
ManagerFails ==
    /\ at = "act" /\ network /\ (Installs \/ Updates)
    /\ RunOrWarnFails("selfcheck")
    /\ installed' \in {installed, installed \ {Id[cur]}}
    /\ UNCHANGED <<core, blocklist, markers, registry, given, todo, cur, cver, code,
                   broken, completed>>

SelfcheckRuns ==
    /\ at = "selfcheck" /\ at' = "close"
    /\ UNCHANGED <<files, given, todo, cur, cver, warned, outcome, abort, code, past>>

SelfcheckFails ==
    /\ at = "selfcheck" /\ RunOrWarnFails("close")
    /\ UNCHANGED <<files, given, todo, cur, cver, code, broken, completed>>

Close ==
    /\ at = "close"
    /\ IF warned THEN Note("warn", FALSE) ELSE at' = "mark" /\ UNCHANGED <<outcome, abort>>
    /\ UNCHANGED <<files, given, todo, cur, cver, warned, code, past>>

NoTouch ==   \* mutant: no marker where the network was not allowed
    markers' = markers \cup (IF Key[cur] = NoKey \/ ~network THEN {} ELSE {Marker})
Touch == markers' = markers \cup (IF Key[cur] = NoKey THEN {} ELSE {Marker})

Mark ==
    /\ at = "mark" /\ Touch
    /\ Note("ok", FALSE)
    /\ completed' = completed \cup (IF harmed THEN {} ELSE {<<cur, event, cver>>})
    /\ UNCHANGED <<core, blocklist, registry, installed, given, todo, cur, cver, warned,
                   code, harmed, troubled, broken>>

----------------------------------------------------------------------------
(* update_registry() and the end of a call. *)

Swapped ==   \* mutant: two of the ten arguments change places
    [status |-> event, event |-> outcome, core |-> cver, key |-> Key[cur]]
Item == [status |-> outcome, event |-> event, core |-> cver, key |-> Key[cur]]
\* A registry that is not valid JSON is begun anew.
Update ==
    registry' = [p \in Plugins |-> IF p = Id[cur] THEN Item
                                   ELSE IF registry = Torn THEN Absent ELSE registry[p]]

Report ==
    /\ at = "report" /\ Update
    /\ at' = (IF abort THEN "idle" ELSE "next")
    /\ code' = (IF abort THEN 1 ELSE 0)
    /\ UNCHANGED <<core, blocklist, markers, installed, given, todo, cur, cver, warned,
                   outcome, abort, past>>

\* Killed, or ended by set -e because a log line, a marker or the registry
\* could not be written.  open(path, "w") empties the registry before json.dump.
Die ==
    /\ at # "idle" /\ at' = "idle" /\ code' = 1 /\ broken' = TRUE
    /\ \/ UNCHANGED registry
       \/ at = "report" /\ registry' = Torn
    /\ UNCHANGED <<core, blocklist, markers, installed, given, todo, cur, cver, warned,
                   outcome, abort, harmed, troubled, completed>>

Finish ==
    /\ at = "next" /\ todo = {}
    /\ at' = "idle"
    /\ UNCHANGED <<files, given, todo, cur, cver, warned, outcome, abort, code, past>>

Next ==
    \/ \E c \in Cores : ChangeCore(c)
    \/ \E b \in Blocklists : ChangeBlocklist(b)
    \/ \E e \in Events, s, n \in BOOLEAN : Call(e, s, n) \/ CallFails(e, s, n)
    \/ \E m \in Manifests : Read(m) \/ Misread(m)
    \/ Refuse \/ NoManager \/ Skip \/ Admit
    \/ NothingToRun \/ ManagerRuns \/ ManagerFails
    \/ SelfcheckRuns \/ SelfcheckFails
    \/ Close \/ Mark \/ Report \/ Die \/ Finish

Spec == Init /\ [][Next]_vars

----------------------------------------------------------------------------
(* Properties. *)

\* No two manifests share an idempotency key; nothing in the code enforces it.
KeysDiffer == \A m, n \in Manifests : Key[m] = Key[n] /\ Key[m] # NoKey => m = n

FlagsOK ==
    /\ strict \in BOOLEAN /\ network \in BOOLEAN /\ warned \in BOOLEAN /\ abort \in BOOLEAN
    /\ harmed \in BOOLEAN /\ troubled \in BOOLEAN /\ broken \in BOOLEAN
FilesOK ==
    /\ core \in Cores /\ IsBlocklist(blocklist)
    /\ markers \subseteq Keys \X Events \X Cores
    /\ (registry = Torn \/ registry \in Registries) /\ installed \subseteq Plugins
    /\ completed \subseteq Manifests \X Events \X Cores
WorkOK ==
    /\ calls \in Nat /\ event \in Events /\ at \in Places /\ code \in {0, 1}
    /\ todo \subseteq Manifests /\ cur \in Manifests /\ cver \in Cores /\ outcome \in Statuses

\* The variables have their types.
TypeOK == FlagsOK /\ FilesOK /\ WorkOK

Admitted == at \in {"act", "selfcheck", "close", "mark"}

\* A plugin with a minimum core version is acted upon only on a core that its
\* manifest and the block list allow, even when the version of the core or the
\* block list cannot be read (:203-244).  Without a minimum a core that does
\* not tell its version passes as 0.0.0, which no list names; and a block list
\* that is JSON of another shape closes nothing.
GateHolds ==
    Admitted /\ Min[cur] # 0 =>
        /\ core >= Min[cur] /\ (Max[cur] # 0 => core <= Max[cur])
        /\ core \notin Barred[cur]
        /\ blocklist # Unreadable /\ <<Id[cur], core>> \notin Closed(blocklist)

\* The status that goes to the registry is the manifest's own: ok exactly when
\* nothing failed for it, whatever failed for the manifests before it (:150, :292).
ReportsOwnActions ==
    at = "report" => /\ outcome = "ok" => ~harmed
                     /\ outcome \in {"warn", "failed"} => harmed

\* A manifest is skipped as done only if it was gone through without failure
\* at the same event of the same core, by this call or an earlier one that may
\* have been killed since (:253-261).
SkipsOnlyWhatWasDone ==
    at = "report" /\ outcome = "skipped_idempotent" => <<cur, event, cver>> \in completed

\* What the registry calls ok is not done again: its marker is there, also
\* after a kill between the two writes (:297-301).
OkHasMarker ==
    registry # Torn =>
        \A p \in Plugins :
            LET i == registry[p] IN
            i.status = "ok" /\ i.key # NoKey => <<i.key, i.event, i.core>> \in markers

\* A call that was not cut short exits with 1 exactly when it is strict and
\* something went wrong; otherwise it has come to every manifest.
ExitIsStrict ==
    at = "idle" /\ calls > 0 /\ ~broken =>
        /\ code = 1 <=> strict /\ troubled
        /\ code = 0 => todo = {}
=============================================================================
