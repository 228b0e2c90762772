------------------------ MODULE PluginManagerProofs -------------------------
(***************************************************************************)
(* Proofs about PluginManager: its type invariant together with what holds *)
(* of the plugin's tree at each step of a command (Stages), from which     *)
(* follows that a command that says ok leaves a usable plugin.             *)
(***************************************************************************)
EXTENDS PluginManager, TLAPS

USE DEF None, Revs, Files

\* What a command can rely on when it comes to a step.
Stages ==
    op # "none" =>
        LET t == tree[who]
            isListed == cfg = "ok" => "own" \in listed[who] IN
        /\ at = "snap" => op = "install" \/ (op \in {"update", "patch-apply"} /\ t.repo # None)
        /\ at \in {"wipe", "clone"} => op = "install"
        /\ at \in {"pull", "apply", "strip", "copy"} => t.repo # None
        /\ at = "build" => t.pkg # None
        /\ at = "record" => op \in Installers /\ isListed
        /\ at \in {"config", "record", "relist", "rerecord", "auto"} => t.entry # None
        /\ at \in {"rerecord", "auto"} => isListed
        /\ at = "clone" => t.dir
        /\ at \in {"pull", "apply", "strip", "copy", "build", "config"} => op \in Installers \cup {"patch-apply"}
        /\ at \in {"unroll", "extract"} => arc # {}

Inv == TypeOK /\ Stages

\* The trees a command starts from, and what tar leaves when it stops early.
LEMMA NewTrees ==
    /\ Gone \in Trees /\ Empty \in Trees
    /\ \A repo \in Files, entry \in Files :
          [Empty EXCEPT !.repo = repo, !.entry = entry] \in Trees
  BY DEF Trees, Gone, Empty

\* The fields of a tree.
LEMMA TreeFields ==
    ASSUME NEW t \in Trees
    PROVE  /\ t \in [dir: BOOLEAN, repo: Files, pkg: Files, dist: BOOLEAN, entry: Files]
           /\ t.dir \in BOOLEAN /\ t.repo \in Files /\ t.pkg \in Files
           /\ t.dist \in BOOLEAN /\ t.entry \in Files
           /\ t.dist => t.pkg # None
           /\ t.repo # None \/ t.pkg # None \/ t.entry # None => t.dir
  BY DEF Trees

\* The trees a step makes of a tree.
LEMMA TreeSteps ==
    ASSUME NEW t \in Trees
    PROVE  /\ \A r \in Revs : t.dir => [t EXCEPT !.repo = r] \in Trees
           /\ [t EXCEPT !.pkg = None, !.dist = FALSE] \in Trees
           /\ t.repo # None => \A d \in BOOLEAN : [t EXCEPT !.pkg = t.repo, !.dist = d] \in Trees
           /\ t.pkg # None => [t EXCEPT !.dist = TRUE] \in Trees
           /\ t.pkg # None => [t EXCEPT !.dist = TRUE, !.entry = t.pkg] \in Trees
           /\ t.dist => [t EXCEPT !.entry = t.pkg] \in Trees
<1>1. ASSUME NEW r \in Revs, t.dir
      PROVE  [t EXCEPT !.repo = r] \in Trees
  BY <1>1 DEF Trees
<1>2. [t EXCEPT !.pkg = None, !.dist = FALSE] \in Trees
  BY DEF Trees
<1>3. ASSUME t.repo # None, NEW d \in BOOLEAN
      PROVE  [t EXCEPT !.pkg = t.repo, !.dist = d] \in Trees
  BY <1>3 DEF Trees
<1>4. ASSUME t.pkg # None
      PROVE  [t EXCEPT !.dist = TRUE] \in Trees /\ [t EXCEPT !.dist = TRUE, !.entry = t.pkg] \in Trees
  BY <1>4 DEF Trees
<1>5. ASSUME t.dist
      PROVE  [t EXCEPT !.entry = t.pkg] \in Trees
  BY <1>5 DEF Trees
<1> QED BY <1>1, <1>2, <1>3, <1>4, <1>5

\* Unpacking a tree over another gives a tree.
LEMMA OverlaidTree ==
    ASSUME NEW t \in Trees, NEW old \in Trees
    PROVE  Overlaid(old, t) \in Trees
<1>1. Overlaid(old, t) \in [dir: BOOLEAN, repo: Files, pkg: Files, dist: BOOLEAN, entry: Files]
  BY TreeFields DEF Overlaid
<1>2. Overlaid(old, t).dist => Overlaid(old, t).pkg # None
  BY TreeFields DEF Overlaid
<1>3. Overlaid(old, t).dir
  BY DEF Overlaid
<1> QED BY <1>1, <1>2, <1>3 DEF Trees

\* An idle manager over any initial set of plugins satisfies the invariant.
LEMMA InitInv == Init => Inv
<1> SUFFICES ASSUME Init PROVE Inv
  OBVIOUS
<1>1. Stages
  BY DEF Init, Stages
<1>2. listed \in [Plugins -> SUBSET Entries]
  BY DEF Init, Entries
<1>3. /\ tree \in [Plugins -> Trees] /\ before \in Trees
      /\ snaps \in SUBSET Archives /\ arc \in SUBSET Archives /\ \A a, b \in arc : a = b
  BY NewTrees DEF Init
<1>4. state \in [Plugins -> {"none", "install", "update", "rollback", "auto_rollback", "migrate"}
                              \X {"none", "ok", "error", "warn"}]
  BY DEF Init
<1>5. now \in 0..MaxTime /\ count \in 0..MaxCommands
  BY PluginAssumption DEF Init
<1> QED BY <1>1, <1>2, <1>3, <1>4, <1>5 DEF Init, Inv, TypeOK, Places, Commands

\* The first step of each command.
LEMMA BeginInv ==
    ASSUME Inv, NEW n \in Plugins,
           Install(n) \/ Update(n) \/ PatchApply(n) \/ Rollback(n) \/ Migrate(n)
    PROVE  Inv'
<1> USE PluginAssumption DEF Inv, TypeOK, Begin, files, Places, Commands, Installers
<1>1. CASE Install(n)
  BY <1>1 DEF Install, Stages
<1>2. CASE Update(n)
  BY <1>2 DEF Update, Stages
<1>3. CASE PatchApply(n)
  BY <1>3 DEF PatchApply, Stages
<1>4. CASE Rollback(n)
  BY <1>4 DEF Rollback, Stages, Latest, Matching
<1>5. CASE Migrate(n)
  BY <1>5 DEF Migrate, Stages
<1> QED BY <1>1, <1>2, <1>3, <1>4, <1>5

\* An archive taken now is an archive, and what the command may choose from
\* are archives.
LEMMA ArchiveType ==
    ASSUME TypeOK, NEW whole \in BOOLEAN, Archive(whole)
    PROVE  snaps' \in SUBSET Archives
<1>1. [name |-> who, time |-> now, tree |-> This, whole |-> whole] \in Archives
  BY DEF TypeOK, Archives, This
<1> QED BY <1>1 DEF Archive, TypeOK

\* The steps of an install, an update or a patch keep the invariant.
LEMMA StepsInv ==
    ASSUME Inv,
           \/ Snapshot \/ SnapshotFails \/ Wipe \/ Clone \/ Pull \/ Apply \/ Strip
           \/ Copy \/ CopyFails \/ Build
    PROVE  Inv'
<1> USE PluginAssumption DEF Inv, TypeOK, At, Goto, Stop, Quiet, Trouble, SetTree, This,
        files, Places, Commands, Installers
<1>0. /\ tree[who] \in Trees
      /\ tree[who] \in [dir: BOOLEAN, repo: Files, pkg: Files, dist: BOOLEAN, entry: Files]
      /\ tree[who].dist => tree[who].pkg # None
      /\ tree[who].repo # None \/ tree[who].pkg # None \/ tree[who].entry # None => tree[who].dir
  BY TreeFields
<1>1. CASE Snapshot
  <2>1. snaps' \in SUBSET Archives
    BY <1>1, ArchiveType DEF Snapshot
  <2>2. arc' \in SUBSET Archives /\ \A a, b \in arc' : a = b
    BY <1>1, <2>1 DEF Snapshot, Latest, Matching
  <2>3. AfterSnap = CASE op = "install" -> "wipe" [] op = "update" -> "pull" [] OTHER -> "apply"
    BY DEF AfterSnap
  <2>4. CASE op = "install"
    BY <1>0, <1>1, <2>1, <2>2, <2>3, <2>4 DEF Snapshot, Stages
  <2>5. CASE op = "update"
    BY <1>0, <1>1, <2>1, <2>2, <2>3, <2>5 DEF Snapshot, Stages
  <2>6. CASE op = "patch-apply"
    BY <1>0, <1>1, <2>1, <2>2, <2>3, <2>6 DEF Snapshot, Stages
  <2> QED BY <1>1, <2>4, <2>5, <2>6 DEF Snapshot, Stages
<1>2. CASE SnapshotFails
  BY <1>2, ArchiveType DEF SnapshotFails, Stages
<1>3. CASE Wipe
  BY <1>3, NewTrees DEF Wipe, Stages, Empty, Gone
<1>4. CASE Clone
  <2>1. PICK r \in Revs : tree' = [tree EXCEPT ![who] = [tree[who] EXCEPT !.repo = r]]
    BY <1>4 DEF Clone
  <2>2. [tree[who] EXCEPT !.repo = r] \in Trees
    BY <1>4, <2>1, <1>0, TreeSteps, NewTrees DEF Clone, Stages
  <2>3. tree' \in [Plugins -> Trees] /\ tree'[who] = [tree[who] EXCEPT !.repo = r]
    BY <2>1, <2>2
  <2> QED BY <1>4, <2>3, <1>0 DEF Clone, Stages
<1>5. CASE Pull
  <2>1. PICK r \in Revs : tree' = [tree EXCEPT ![who] = [tree[who] EXCEPT !.repo = r]]
    BY <1>5 DEF Pull
  <2>2. [tree[who] EXCEPT !.repo = r] \in Trees
    BY <1>5, <2>1, <1>0, TreeSteps, NewTrees DEF Pull, Stages
  <2>3. tree' \in [Plugins -> Trees] /\ tree'[who] = [tree[who] EXCEPT !.repo = r]
    BY <2>1, <2>2
  <2> QED BY <1>5, <2>3, <1>0 DEF Pull, Stages
<1>6. CASE Apply
  BY <1>6 DEF Apply, Stages
<1>7. CASE Strip
  <2>1. tree' = [tree EXCEPT ![who] = [tree[who] EXCEPT !.pkg = None, !.dist = FALSE]]
    BY <1>7 DEF Strip, Stripped
  <2>2. [tree[who] EXCEPT !.pkg = None, !.dist = FALSE] \in Trees
    BY <1>7, <2>1, <1>0, TreeSteps, NewTrees DEF Strip, Stages
  <2>3. tree' \in [Plugins -> Trees] /\ tree'[who] = [tree[who] EXCEPT !.pkg = None, !.dist = FALSE]
    BY <2>1, <2>2
  <2> QED BY <1>7, <2>3, <1>0 DEF Strip, Stripped, Stages
<1>8. CASE Copy
  <2>1. PICK d \in BOOLEAN : tree' = [tree EXCEPT ![who] = [tree[who] EXCEPT !.pkg = tree[who].repo, !.dist = d]]
    BY <1>8 DEF Copy
  <2>2. [tree[who] EXCEPT !.pkg = tree[who].repo, !.dist = d] \in Trees
    BY <1>8, <2>1, <1>0, TreeSteps, NewTrees DEF Copy, Stages
  <2>3. tree' \in [Plugins -> Trees] /\ tree'[who] = [tree[who] EXCEPT !.pkg = tree[who].repo, !.dist = d]
    BY <2>1, <2>2
  <2> QED BY <1>8, <2>3, <1>0 DEF Copy, Stages
<1>9. CASE CopyFails
  BY <1>9 DEF CopyFails, Stages
<1>10. CASE Build
  <2>1. tree' = [tree EXCEPT ![who] = [tree[who] EXCEPT !.dist = TRUE, !.entry = tree[who].pkg]]
    BY <1>10 DEF Build, Built
  <2>2. [tree[who] EXCEPT !.dist = TRUE, !.entry = tree[who].pkg] \in Trees
    BY <1>10, <2>1, <1>0, TreeSteps, NewTrees DEF Build, Stages
  <2>3. tree' \in [Plugins -> Trees] /\ tree'[who] = [tree[who] EXCEPT !.dist = TRUE, !.entry = tree[who].pkg]
    BY <2>1, <2>2
  <2> QED BY <1>10, <2>3, <1>0 DEF Build, Built, Stages
<1> QED BY <1>1, <1>2, <1>3, <1>4, <1>5, <1>6, <1>7, <1>8, <1>9, <1>10

\* The last steps of a command (config, record) and a failure keep it.
LEMMA EndsInv ==
    ASSUME Inv, Config \/ Record \/ StepFails
    PROVE  Inv'
<1> USE PluginAssumption DEF Inv, TypeOK, At, Goto, Stop, Quiet, SetTree, SetState, This,
        files, Places, Commands, Installers
<1>0. /\ tree[who] \in Trees
      /\ tree[who] \in [dir: BOOLEAN, repo: Files, pkg: Files, dist: BOOLEAN, entry: Files]
      /\ tree[who].dist => tree[who].pkg # None
      /\ tree[who].repo # None \/ tree[who].pkg # None \/ tree[who].entry # None => tree[who].dir
  BY TreeFields
<1>1. CASE Config
  <2>1. listed' \in [Plugins -> SUBSET Entries]
    BY <1>1 DEF Config, List, Entries
  <2> QED BY <1>1, <2>1 DEF Config, List, Stages
<1>2. CASE Record
  BY <1>2 DEF Record, Stages
<1>3. CASE StepFails
  <2>1. CASE UNCHANGED tree
    BY <1>0, <1>3, <2>1 DEF StepFails, Recover, Stages
  <2>2. CASE At("build") /\ \E d \in {This.dist, TRUE} : SetTree([This EXCEPT !.dist = d])
    <3>1. PICK d \in {tree[who].dist, TRUE} : tree' = [tree EXCEPT ![who] = [tree[who] EXCEPT !.dist = d]]
      BY <2>2
    <3>2. [tree[who] EXCEPT !.dist = d] \in Trees
      BY <1>3, <2>2, <1>0 DEF StepFails, Stages, Trees
    <3>3. tree' \in [Plugins -> Trees]
      BY <3>1, <3>2
    <3> QED BY <1>3, <2>2, <3>3 DEF StepFails, Recover, Stages
  <2> QED BY <1>3, <2>1, <2>2 DEF StepFails
<1> QED BY <1>1, <1>2, <1>3

\* The steps of a rollback keep the invariant.
LEMMA RollbackInv ==
    ASSUME Inv,
           \/ Unroll \/ Extract \/ ExtractFails \/ RootEntry \/ Relist \/ Rerecord
           \/ RecordAuto \/ Rewrite
    PROVE  Inv'
<1> USE PluginAssumption DEF Inv, TypeOK, At, Goto, Stop, Quiet, Trouble, SetTree, SetState,
        This, files, Places, Commands, Installers, AutoRollback
<1>0. arc # {} => TheArc \in Archives /\ TheArc.tree \in Trees /\ TheArc.name \in Plugins
  BY DEF TheArc, Archives
<1>a. /\ tree[who] \in Trees
      /\ tree[who] \in [dir: BOOLEAN, repo: Files, pkg: Files, dist: BOOLEAN, entry: Files]
      /\ tree[who].dist => tree[who].pkg # None
      /\ tree[who].repo # None \/ tree[who].pkg # None \/ tree[who].entry # None => tree[who].dir
  BY TreeFields
<1>1. CASE Unroll
  BY <1>1, NewTrees DEF Unroll, Wiped, Stages
<1>2. CASE Extract
  <2>1. tree' \in [Plugins -> Trees]
    BY <1>2, <1>0, OverlaidTree DEF Extract, Unpacked, Stages
  <2> QED BY <1>2, <2>1 DEF Extract, Stages
<1>3. CASE ExtractFails
  <2>1. PICK t \in Trees : tree' = [tree EXCEPT ![TheArc.name] = Overlaid(tree[TheArc.name], t)]
    <3>1. TheArc.tree.repo \in Files /\ TheArc.tree.entry \in Files
      BY <1>0, <1>3, TreeFields DEF ExtractFails, Stages
    <3> QED BY <1>3, <3>1, NewTrees DEF ExtractFails, Unpacked
  <2>2. Overlaid(tree[TheArc.name], t) \in Trees
    BY <1>0, <1>3, OverlaidTree DEF ExtractFails, Stages
  <2>3. tree' \in [Plugins -> Trees]
    BY <2>1, <2>2
  <2> QED BY <1>3, <2>3 DEF ExtractFails, Stages
<1>4. CASE RootEntry
  <2>1. CASE tree[who].dist
    <3>1. [tree[who] EXCEPT !.entry = tree[who].pkg] \in Trees
      BY <2>1, <1>a, TreeSteps
    <3>2. tree' \in [Plugins -> Trees] /\ tree'[who].entry = tree[who].pkg
      BY <1>4, <2>1, <3>1, <1>a DEF RootEntry
    <3> QED BY <1>4, <2>1, <3>2, <1>a DEF RootEntry, Stages
  <2>2. CASE ~tree[who].dist
    BY <1>4, <2>2 DEF RootEntry, Stages
  <2> QED BY <2>1, <2>2
<1>5. CASE Relist
  <2>1. listed' \in [Plugins -> SUBSET Entries]
    BY <1>5 DEF Relist, List, Entries
  <2> QED BY <1>5, <2>1 DEF Relist, List, Stages
<1>6. CASE Rerecord
  BY <1>6 DEF Rerecord, Stages
<1>7. CASE RecordAuto
  BY <1>7 DEF RecordAuto, Stages
<1>8. CASE Rewrite
  BY <1>8 DEF Rewrite, Stages, Entries
<1> QED BY <1>1, <1>2, <1>3, <1>4, <1>5, <1>6, <1>7, <1>8

\* A crash, the clock and the end of a command keep the invariant.
LEMMA AroundInv ==
    ASSUME Inv, Crash \/ Tick \/ Over \/ UNCHANGED vars
    PROVE  Inv'
<1> USE PluginAssumption DEF Inv, TypeOK, files, command, Places
<1>1. CASE Crash
  BY <1>1 DEF Crash, Stop, Trouble, Stages, Entries
<1>2. CASE Tick
  BY <1>2 DEF Tick, Stages
<1>3. CASE Over \/ UNCHANGED vars
  <2>1. UNCHANGED vars
    BY <1>3 DEF Over
  <2>2. Stages'
    BY <2>1 DEF vars, Stages
  <2>3. TypeOK'
    BY <2>1 DEF vars
  <2> QED BY <2>2, <2>3
<1> QED BY <1>1, <1>2, <1>3

\* What a step of the specification can be.
LEMMA NextCases ==
    ASSUME [Next]_vars
    PROVE  \/ \E n \in Plugins : Install(n) \/ Update(n) \/ PatchApply(n) \/ Rollback(n) \/ Migrate(n)
           \/ Snapshot \/ SnapshotFails \/ Wipe \/ Clone \/ Pull \/ Apply \/ Strip
           \/ Copy \/ CopyFails \/ Build
           \/ Config \/ Record \/ StepFails
           \/ Unroll \/ Extract \/ ExtractFails \/ RootEntry \/ Relist \/ Rerecord
           \/ RecordAuto \/ Rewrite
           \/ Crash \/ Tick \/ Over \/ UNCHANGED vars
  BY DEF Next

\* The type invariant and the stages of a command hold in every state.
THEOREM StagesInvariant == Spec => []Inv
<1>1. Inv /\ [Next]_vars => Inv'
  BY NextCases, BeginInv, StepsInv, EndsInv, RollbackInv, AroundInv
<1> QED BY InitInv, <1>1, PTL DEF Spec

\* Every variable of the plugin manager stays in its range.
THEOREM PluginTypeCorrect == Spec => []TypeOK
  BY StagesInvariant, PTL DEF Inv

----------------------------------------------------------------------------
\* A record changes to "ok" only where the plugin is usable.
LEMMA OkStep ==
    ASSUME Inv, [Next]_vars, NEW n \in Plugins,
           state'[n] # state[n], state'[n][2] = "ok", state'[n][1] # "migrate"
    PROVE  tree'[n].entry # None /\ (cfg' = "ok" => "own" \in listed'[n])
<1> USE DEF Inv, TypeOK
<1>1. state' = state => FALSE
  OBVIOUS
<1>2. CASE Record
  BY <1>2 DEF Record, At, SetState, Stages, Installers, Stop
<1>3. CASE Rerecord
  BY <1>3 DEF Rerecord, At, SetState, Stages, Goto, Stop
<1>4. CASE RecordAuto
  BY <1>4 DEF RecordAuto, At, SetState, Stages, Stop
<1>5. CASE StepFails
  BY <1>5, <1>1 DEF StepFails, Recover, SetState
<1>6. CASE Rewrite
  BY <1>6 DEF Rewrite, SetState
<1>7. CASE Crash
  BY <1>7, <1>1 DEF Crash
<1>8. CASE \E m \in Plugins : Install(m) \/ Update(m) \/ PatchApply(m) \/ Rollback(m) \/ Migrate(m)
  BY <1>8, <1>1 DEF Install, Update, PatchApply, Rollback, Migrate, Begin, files
<1>9. CASE \/ Snapshot \/ SnapshotFails \/ Wipe \/ Clone \/ Pull \/ Apply \/ Strip
           \/ Copy \/ CopyFails \/ Build \/ Config
  BY <1>9, <1>1 DEF Snapshot, SnapshotFails, Wipe, Clone, Pull, Apply, Strip, Copy, CopyFails,
     Build, Config, files
<1>10. CASE \/ Unroll \/ Extract \/ ExtractFails \/ RootEntry \/ Relist \/ Tick \/ Over
            \/ UNCHANGED vars
  BY <1>10, <1>1 DEF Unroll, Extract, ExtractFails, RootEntry, Relist, Tick, Over, vars, files
<1> QED BY <1>2, <1>3, <1>4, <1>5, <1>6, <1>7, <1>8, <1>9, <1>10, NextCases

\* A command that says ok leaves a plugin with its entry file, listed in
\* opencode.json if that can be read, whatever has failed before.
THEOREM OkIsUsable == Spec => OkMeansUsable
<1>1. Inv /\ [Next]_vars =>
        [\A n \in Plugins :
            state'[n] # state[n] /\ state'[n][2] = "ok" /\ state'[n][1] # "migrate" =>
                /\ tree'[n].entry # None
                /\ cfg' = "ok" => "own" \in listed'[n]]_vars
  BY OkStep
<1> QED BY <1>1, StagesInvariant, PTL DEF Spec, OkMeansUsable

----------------------------------------------------------------------------
\* The snapshot a command works with is one of its own plugin.
OwnArchive == \A a \in arc : a.name = who

\* When no name is the beginning of another, only own snapshots are found.
LEMMA OwnArchiveStep ==
    ASSUME Behind = {}, Inv, OwnArchive, [Next]_vars
    PROVE  OwnArchive'
<1> USE DEF OwnArchive
<1>1. \A n \in Plugins : \A all : \A a \in Latest(n, all) : a.name = n
  BY DEF Latest, Matching
<1>2. CASE \E n \in Plugins : Install(n) \/ Update(n) \/ PatchApply(n) \/ Rollback(n) \/ Migrate(n)
  BY <1>1, <1>2 DEF Install, Update, PatchApply, Rollback, Migrate, Begin
<1>3. CASE Snapshot
  BY <1>1, <1>3 DEF Snapshot, Goto, Inv, TypeOK
<1>4. CASE arc' = arc /\ who' = who
  BY <1>4
<1>5. CASE \/ SnapshotFails \/ Wipe \/ Clone \/ Pull \/ Apply \/ Strip \/ Copy \/ CopyFails \/ Build
  BY <1>4, <1>5 DEF SnapshotFails, Wipe, Clone, Pull, Apply, Strip, Copy, CopyFails, Build, Goto, Stop
<1>6. CASE Config \/ Record \/ StepFails
  BY <1>4, <1>6 DEF Config, Record, StepFails, Recover, Goto, Stop
<1>7. CASE \/ Unroll \/ Extract \/ ExtractFails \/ RootEntry \/ Relist \/ Rerecord \/ RecordAuto \/ Rewrite
  BY <1>4, <1>7 DEF Unroll, Extract, ExtractFails, RootEntry, Relist, Rerecord, RecordAuto, Rewrite,
     Goto, Stop
<1>8. CASE Crash \/ Tick \/ Over \/ UNCHANGED vars
  BY <1>4, <1>8 DEF Crash, Tick, Over, Stop, vars, command
<1> QED BY <1>2, <1>3, <1>5, <1>6, <1>7, <1>8, NextCases

\* What a step leaves alone.
Untouched(n) ==
    /\ tree'[n] = tree[n]
    /\ {a \in snaps' : a.name = n} = {a \in snaps : a.name = n}
    /\ cfg' = cfg => listed'[n] = listed[n]
    /\ state'[n] = state[n] \/ "crash" \in trouble'

\* A command writes the tree and the record of its own plugin alone.
LEMMA OthersStep ==
    ASSUME Inv, OwnArchive, [Next]_vars, NEW n \in Plugins \ {who'}
    PROVE  Untouched(n)
<1> USE DEF Inv, TypeOK, Untouched, SetTree, SetState, Goto, Stop
<1>1. CASE UNCHANGED files
  BY <1>1 DEF files
<1>2. CASE \E m \in Plugins : Install(m) \/ Update(m) \/ PatchApply(m) \/ Rollback(m) \/ Migrate(m)
  BY <1>1, <1>2 DEF Install, Update, PatchApply, Rollback, Migrate, Begin
<1>3. CASE Snapshot \/ SnapshotFails
  <2>1. CASE UNCHANGED snaps
    BY <1>3, <2>1 DEF Snapshot, SnapshotFails
  <2>2. CASE Archive(TRUE) \/ Archive(FALSE)
    BY <1>3, <2>2 DEF Archive, Snapshot, SnapshotFails
  <2> QED BY <1>3, <2>1, <2>2 DEF Snapshot, SnapshotFails
<1>4. CASE Wipe \/ Clone \/ Pull \/ Apply \/ Strip \/ Copy \/ CopyFails \/ Build
  <2>1. CASE Apply \/ CopyFails
    BY <1>1, <2>1 DEF Apply, CopyFails
  <2>2. ASSUME NEW t, SetTree(t), UNCHANGED <<snaps, cfg, listed, state, who>>
        PROVE  Untouched(n)
    BY <2>2
  <2> QED BY <1>4, <2>1, <2>2 DEF Wipe, Clone, Pull, Strip, Stripped, Copy, Build, Built
<1>5. CASE Config \/ Record \/ StepFails
  BY <1>5 DEF Config, List, Record, StepFails, Recover
<1>6. CASE Extract \/ ExtractFails
  <2>1. TheArc.name = who
    BY <1>6 DEF Extract, ExtractFails, At, Stages, TheArc, OwnArchive
  <2> QED BY <1>6, <2>1 DEF Extract, ExtractFails, Unpacked
<1>7. CASE Unroll \/ RootEntry \/ Relist \/ Rerecord \/ RecordAuto \/ Rewrite
  BY <1>7 DEF Unroll, Wiped, RootEntry, Relist, List, Rerecord, RecordAuto, Rewrite
<1>8. CASE Crash
  BY <1>8 DEF Crash, Trouble
<1>9. CASE Tick \/ Over \/ UNCHANGED vars
  BY <1>1, <1>9 DEF Tick, Over, vars, files
<1> QED BY <1>2, <1>3, <1>4, <1>5, <1>6, <1>7, <1>8, <1>9, NextCases

\* As long as no plugin's name continues another's with a "-", a command leaves
\* every other plugin alone, killed or not.
THEOREM CommandsAreLocal ==
    ASSUME Behind = {}
    PROVE  Spec => OthersUntouched
<1>1. Init => OwnArchive
  BY DEF Init, OwnArchive
<1>2. Inv /\ OwnArchive /\ [Next]_vars => OwnArchive'
  BY OwnArchiveStep
<1>3. Inv /\ OwnArchive /\ [Next]_vars =>
        [\A n \in Plugins \ {who'} :
          /\ tree'[n] = tree[n]
          /\ {a \in snaps' : a.name = n} = {a \in snaps : a.name = n}
          /\ cfg' = cfg => listed'[n] = listed[n]
          /\ state'[n] = state[n] \/ "crash" \in trouble']_vars
  BY OthersStep DEF Untouched
<1> QED BY <1>1, <1>2, <1>3, StagesInvariant, PTL DEF Spec, OthersUntouched

----------------------------------------------------------------------------
(* What a failed install or update gives back.  The two promises are about *)
(* the last steps of a command and rest on its first: the archive it took  *)
(* is of the tree it found, and find | sort -r | head picks that one among *)
(* all the snapshots of the plugin, because none is of a later second.     *)

\* Which command can be at which step.
Where ==
    /\ op = "none" => at = "snap"
    /\ at = "apply" => op = "patch-apply"
    /\ at = "rewrite" => op = "migrate"
    /\ at \in {"unroll", "extract", "entry", "relist", "rerecord"} => op \in Installers \cup {"rollback"}
    /\ at = "auto" => op \in Installers

SnapsArePast == \A a \in snaps : a.time <= now

\* The plugin after its rollback: its entry file is made anew.
Restored == [before EXCEPT !.entry = IF before.dist THEN before.pkg ELSE @]

\* An install or update of a plugin that was there, with nothing gone wrong
\* behind its back, still has what it found.
Held ==
    op \in Installers /\ trouble = {} /\ before.dir =>
        /\ at = "snap" => tree[who] = before
        /\ at # "snap" => /\ arc # {}
                          /\ \A a \in arc : a.name = who /\ a.tree = before
        /\ at = "extract" => tree[who] = Gone
        /\ at = "entry" => tree[who] = before
        /\ at \in {"relist", "rerecord", "auto"} => tree[who] = Restored

HeldInv == Where /\ SnapsArePast /\ Held

\* The archive that is taken now is the only latest one.
LEMMA NewestIsLatest ==
    ASSUME Behind = {}, TypeOK, SnapsArePast, Archive(TRUE)
    PROVE  Latest(who, snaps') = {[name |-> who, time |-> now, tree |-> This, whole |-> TRUE]}
<1> DEFINE new == [name |-> who, time |-> now, tree |-> This, whole |-> TRUE]
<1>1. snaps' = {a \in snaps : ~(a.name = who /\ a.time = now)} \cup {new}
  BY DEF Archive
<1>2. Matching(who, snaps') = {a \in snaps' : a.name = who}
  BY DEF Matching
<1>3. ASSUME NEW a \in snaps', a.name = who, a # new PROVE a.time < now
  <2>1. a \in snaps /\ a.time # now
    BY <1>1, <1>3
  <2>2. a.time \in Int /\ now \in Int
    BY <2>1, PluginAssumption DEF TypeOK, Archives
  <2> QED BY <2>1, <2>2 DEF SnapsArePast
<1>4. new \in Matching(who, snaps') /\ \A b \in Matching(who, snaps') : b # new => b.time < new.time
  BY <1>1, <1>2, <1>3
<1>5. new.name = who /\ new.time \in Int /\ \A b \in snaps' : b.time \in Int
  BY <1>1, PluginAssumption DEF TypeOK, Archives
<1>6. \A b \in Matching(who, snaps') : ~After(who, b, new)
  BY <1>2, <1>4, <1>5 DEF After
<1>7. \A a \in Matching(who, snaps') : a # new => After(who, new, a)
  BY <1>2, <1>4, <1>5 DEF After
<1> QED BY <1>4, <1>6, <1>7 DEF Latest

\* A tree that is unpacked where nothing is left is the tree again.
LEMMA UnpackedAfresh ==
    ASSUME NEW t \in Trees, t.dir
    PROVE  Overlaid(Gone, t) = t
  BY TreeFields DEF Overlaid, Gone

\* No plugin, no snapshot, no command.
LEMMA InitHeld == Init => HeldInv
  BY DEF Init, HeldInv, Where, SnapsArePast, Held, Installers

\* Each step leads where the command goes on.
LEMMA NextWhere ==
    ASSUME Inv, Where, [Next]_vars
    PROVE  Where'
<1> USE DEF Where, At, Goto, Stop, Installers
<1>1. CASE \E n \in Plugins : Install(n) \/ Update(n) \/ PatchApply(n) \/ Rollback(n) \/ Migrate(n)
  BY <1>1 DEF Install, Update, PatchApply, Rollback, Migrate, Begin
<1>2. CASE Snapshot
  BY <1>2 DEF Snapshot, AfterSnap, Inv, Stages
<1>3. CASE \/ SnapshotFails \/ Wipe \/ Clone \/ Pull \/ Apply \/ Strip \/ Copy \/ CopyFails \/ Build
  BY <1>3 DEF SnapshotFails, Wipe, Clone, Pull, Apply, Strip, Copy, CopyFails, Build
<1>4. CASE Config \/ Record \/ StepFails
  BY <1>4 DEF Config, Record, StepFails, Recover
<1>5. CASE \/ Unroll \/ Extract \/ ExtractFails \/ RootEntry \/ Relist \/ Rerecord \/ RecordAuto \/ Rewrite
  BY <1>5 DEF Unroll, Extract, ExtractFails, RootEntry, Relist, Rerecord, RecordAuto, Rewrite, AutoRollback
<1>6. CASE Crash \/ Tick \/ Over \/ UNCHANGED vars
  BY <1>6 DEF Crash, Tick, Over, vars, command
<1> QED BY <1>1, <1>2, <1>3, <1>4, <1>5, <1>6, NextCases

\* Snapshots are named by the clock, which does not go back.
LEMMA NextPast ==
    ASSUME Inv, SnapsArePast, [Next]_vars
    PROVE  SnapsArePast'
<1> USE PluginAssumption DEF SnapsArePast, Inv, TypeOK, Archives
<1>1. CASE snaps' = snaps /\ now' = now
  BY <1>1
<1>2. CASE Snapshot \/ SnapshotFails
  BY <1>2 DEF Snapshot, SnapshotFails, Archive, Goto, Stop
<1>3. CASE Tick
  BY <1>3 DEF Tick, files
<1>4. CASE \E n \in Plugins : Install(n) \/ Update(n) \/ PatchApply(n) \/ Rollback(n) \/ Migrate(n)
  BY <1>1, <1>4 DEF Install, Update, PatchApply, Rollback, Migrate, Begin, files
<1>5. CASE \/ Wipe \/ Clone \/ Pull \/ Apply \/ Strip \/ Copy \/ CopyFails \/ Build
           \/ Config \/ Record \/ StepFails
  BY <1>1, <1>5 DEF Wipe, Clone, Pull, Apply, Strip, Copy, CopyFails, Build, Config, Record,
     StepFails, Recover, Goto, Stop, files
<1>6. CASE \/ Unroll \/ Extract \/ ExtractFails \/ RootEntry \/ Relist \/ Rerecord \/ RecordAuto \/ Rewrite
  BY <1>1, <1>6 DEF Unroll, Extract, ExtractFails, RootEntry, Relist, Rerecord, RecordAuto, Rewrite,
     Goto, Stop
<1>7. CASE Crash \/ Over \/ UNCHANGED vars
  BY <1>1, <1>7 DEF Crash, Stop, Over, vars
<1> QED BY <1>2, <1>3, <1>4, <1>5, <1>6, <1>7, NextCases

\* The archive is taken before anything is touched, kept while the command
\* works, and put where nothing is left.
LEMMA NextHeld ==
    ASSUME Behind = {}, Inv, HeldInv, [Next]_vars
    PROVE  Held'
<1> SUFFICES ASSUME op' \in Installers, trouble' = {}, before'.dir
             PROVE  /\ at' = "snap" => tree'[who'] = before'
                    /\ at' # "snap" => /\ arc' # {}
                                       /\ \A a \in arc' : a.name = who' /\ a.tree = before'
                    /\ at' = "extract" => tree'[who'] = Gone
                    /\ at' = "entry" => tree'[who'] = before'
                    /\ at' \in {"relist", "rerecord", "auto"} => tree'[who'] = Restored'
  BY DEF Held
<1>1. CASE \E n \in Plugins : Install(n) \/ Update(n) \/ PatchApply(n) \/ Rollback(n) \/ Migrate(n)
  BY <1>1 DEF Install, Update, PatchApply, Rollback, Migrate, Begin, files, Installers
<1>2. op' # "none"
  BY DEF Installers
<1>3. ASSUME op' = op, trouble' = trouble, before' = before, who' = who, at # "snap", arc' = arc,
             at' \notin {"snap", "extract", "entry", "relist", "rerecord", "auto"}
      PROVE  /\ arc' # {}
             /\ \A a \in arc' : a.name = who' /\ a.tree = before'
  BY <1>3 DEF HeldInv, Held
<1>4. CASE Snapshot
  <2>1. tree[who] = before /\ before.dir /\ at' \notin {"snap", "extract", "entry", "relist", "rerecord", "auto"}
    BY <1>4 DEF Snapshot, At, Goto, Quiet, HeldInv, Held, AfterSnap
  <2>2. Latest(who, snaps') = {[name |-> who, time |-> now, tree |-> This, whole |-> TRUE]}
    BY <1>4, <2>1, NewestIsLatest DEF Snapshot, This, HeldInv, Inv
  <2>3. arc' = {[name |-> who, time |-> now, tree |-> This, whole |-> TRUE]}
    BY <1>4, <2>2 DEF Snapshot
  <2> QED BY <1>4, <2>1, <2>3 DEF Snapshot, Goto, This
<1>5. CASE \/ SnapshotFails \/ CopyFails \/ Apply \/ Rewrite \/ RecordAuto \/ Record
  BY <1>2, <1>5 DEF SnapshotFails, CopyFails, Apply, Rewrite, RecordAuto, Record, Stop, At, Goto,
     HeldInv, Where, Installers
<1>6. CASE \/ Wipe \/ Clone \/ Pull \/ Strip \/ Copy \/ Build \/ Config
  BY <1>2, <1>3, <1>6 DEF Wipe, Clone, Pull, Strip, Copy, Build, Config, At, Goto, Stop, Quiet
<1>7. CASE StepFails
  BY <1>2, <1>3, <1>7 DEF StepFails, Recover, At, Goto, Stop, Quiet
<1>8. CASE Unroll
  BY <1>2, <1>8 DEF Unroll, Wiped, At, Goto, Quiet, SetTree, HeldInv, Held, Inv, TypeOK
<1>9. CASE Extract
  <2>1. /\ arc # {} /\ \A a \in arc : a.name = who /\ a.tree = before
        /\ tree[who] = Gone /\ before.dir
    BY <1>9 DEF Extract, At, Goto, Quiet, HeldInv, Held
  <2>2. TheArc.name = who /\ TheArc.tree = before
    BY <2>1 DEF TheArc
  <2>3. tree'[who] = Overlaid(Gone, before)
    BY <1>9, <2>1, <2>2 DEF Extract, Unpacked, Inv, TypeOK
  <2>4. tree'[who] = before
    BY <2>1, <2>3, UnpackedAfresh DEF Inv, TypeOK
  <2> QED BY <1>9, <2>1, <2>4 DEF Extract, Goto
<1>10. CASE ExtractFails
  BY <1>10 DEF ExtractFails, Trouble
<1>11. CASE RootEntry
  <2>1. /\ arc # {} /\ \A a \in arc : a.name = who /\ a.tree = before
        /\ tree[who] = before
    BY <1>2, <1>11 DEF RootEntry, At, Goto, Stop, Quiet, HeldInv, Held
  <2>2. at' = "relist" /\ who' = who /\ before' = before /\ arc' = arc
    BY <1>2, <1>11 DEF RootEntry, Goto, Stop
  <2>3. tree'[who] = Restored
    <3>1. CASE before.dist
      BY <1>11, <2>1, <3>1 DEF RootEntry, This, SetTree, Restored, Inv, TypeOK
    <3>2. CASE ~before.dist
      <4>1. tree' = tree
        BY <1>11, <2>1, <3>2 DEF RootEntry, This
      <4>2. Restored = before
        BY <3>2, TreeFields DEF Restored, Inv, TypeOK
      <4> QED BY <2>1, <4>1, <4>2
    <3> QED BY <3>1, <3>2
  <2> QED BY <2>1, <2>2, <2>3 DEF Restored
<1>12. CASE Relist \/ Rerecord
  <2>1. /\ arc # {} /\ \A a \in arc : a.name = who /\ a.tree = before
        /\ tree[who] = Restored
    BY <1>2, <1>12 DEF Relist, Rerecord, At, Goto, Stop, Quiet, HeldInv, Held
  <2>2. /\ at' \in {"rerecord", "auto"} /\ who' = who /\ before' = before /\ arc' = arc
        /\ tree' = tree
    BY <1>2, <1>12 DEF Relist, Rerecord, Goto, Stop
  <2> QED BY <2>1, <2>2 DEF Restored
<1>13. CASE Crash
  BY <1>13 DEF Crash, Trouble
<1>14. CASE UNCHANGED <<tree, op, who, at, arc, before, trouble>>
  BY <1>14 DEF HeldInv, Held, Restored
<1>15. CASE Tick \/ Over \/ UNCHANGED vars
  BY <1>14, <1>15 DEF Tick, Over, vars, files, command
<1> QED BY <1>1, <1>4, <1>5, <1>6, <1>7, <1>8, <1>9, <1>10, <1>11, <1>12, <1>13, <1>15, NextCases

\* While no name is the beginning of another, an install or update holds on to
\* the tree it found until it is done with it.
THEOREM HeldInvariant ==
    ASSUME Behind = {}
    PROVE  Spec => []HeldInv
<1>1. Inv /\ HeldInv /\ [Next]_vars => HeldInv'
  BY NextWhere, NextPast, NextHeld DEF HeldInv
<1> QED BY <1>1, InitHeld, StagesInvariant, PTL DEF Spec

\* Where an install or update can end without a crash or a full disk, the
\* plugin has an entry file if it had one before.
LEMMA FailureStep ==
    ASSUME Inv, HeldInv, [Next]_vars,
           op \in Installers, op' = "none", trouble' = {}, before.entry # None
    PROVE  tree'[who].entry # None
<1>1. before \in Trees /\ before.dir
  BY TreeFields DEF Inv, TypeOK
<1>2. op # "none" /\ op \notin {"patch-apply", "migrate", "rollback"}
  BY DEF Installers
<1>3. CASE \E n \in Plugins : Install(n) \/ Update(n) \/ PatchApply(n) \/ Rollback(n) \/ Migrate(n)
  BY <1>2, <1>3 DEF Install, Update, PatchApply, Rollback, Migrate, Begin
<1>4. CASE SnapshotFails \/ CopyFails \/ ExtractFails \/ Crash
  BY <1>4 DEF SnapshotFails, CopyFails, ExtractFails, Crash, Trouble
<1>5. CASE Apply \/ Rewrite
  BY <1>2, <1>5 DEF Apply, Rewrite, At, HeldInv, Where
<1>6. CASE \/ Snapshot \/ Wipe \/ Clone \/ Pull \/ Strip \/ Copy \/ Build \/ Config
           \/ Unroll \/ Extract \/ Relist \/ Rerecord \/ Tick \/ Over \/ UNCHANGED vars
  BY <1>2, <1>6 DEF Snapshot, Wipe, Clone, Pull, Strip, Copy, Build, Config, Unroll, Extract,
     Relist, Rerecord, AutoRollback, Goto, Tick, Over, vars, command
<1>7. CASE Record \/ RecordAuto
  BY <1>7 DEF Record, RecordAuto, At, Inv, Stages
<1>8. CASE StepFails
  <2>1. at # "snap" /\ trouble = {}
    BY <1>8 DEF StepFails, At, Quiet
  <2>2. arc # {}
    BY <1>1, <2>1 DEF HeldInv, Held
  <2> QED BY <1>2, <1>8, <2>2 DEF StepFails, Recover, Goto
<1>9. CASE RootEntry
  <2>1. tree[who] = before
    BY <1>1, <1>9 DEF RootEntry, At, Quiet, HeldInv, Held
  <2> QED BY <1>2, <1>9, <2>1 DEF RootEntry, This, AutoRollback, Goto
<1> QED BY <1>3, <1>4, <1>5, <1>6, <1>7, <1>8, <1>9, NextCases

\* While no plugin's name continues another's, an install or update that fails
\* where it has an error path leaves an entry file where there was one.
THEOREM FailureCostsNothing ==
    ASSUME Behind = {}
    PROVE  Spec => FailureKeepsPlugin
<1>1. Inv /\ HeldInv /\ [Next]_vars =>
        [(/\ op \in Installers /\ op' = "none" /\ trouble' = {}
          /\ before.entry # None)
            => tree'[who].entry # None]_vars
  BY FailureStep
<1> QED BY <1>1, StagesInvariant, HeldInvariant, PTL DEF Spec, FailureKeepsPlugin

\* ... and what its rollback leaves behind is the tree that was there, with the
\* entry file of the package it had: whatever the steps before made of it, and
\* however many snapshots of the plugin there are.
THEOREM RollbackGivesBack ==
    ASSUME Behind = {}
    PROVE  Spec => RollbackRestores
<1>1. ASSUME Inv, HeldInv, [Next]_vars, at = "auto", at' # "auto", trouble' = {}, before.dir
      PROVE  tree'[who] = [before EXCEPT !.entry = IF before.dist THEN before.pkg ELSE @]
  <2>1. op \in Installers /\ op # "none"
    BY <1>1 DEF HeldInv, Where, Installers
  <2>2. CASE RecordAuto
    <3>1. tree' = tree /\ trouble = {}
      BY <1>1, <2>2 DEF RecordAuto, Quiet
    <3> QED BY <1>1, <2>1, <3>1 DEF HeldInv, Held, Restored
  <2>3. CASE \E n \in Plugins : Install(n) \/ Update(n) \/ PatchApply(n) \/ Rollback(n) \/ Migrate(n)
    BY <2>1, <2>3 DEF Install, Update, PatchApply, Rollback, Migrate, Begin
  <2>4. CASE \/ Snapshot \/ SnapshotFails \/ Wipe \/ Clone \/ Pull \/ Apply \/ Strip
             \/ Copy \/ CopyFails \/ Build \/ Config \/ Record \/ StepFails
    BY <1>1, <2>4 DEF Snapshot, SnapshotFails, Wipe, Clone, Pull, Apply, Strip, Copy, CopyFails,
       Build, Config, Record, StepFails, At
  <2>5. CASE \/ Unroll \/ Extract \/ ExtractFails \/ RootEntry \/ Relist \/ Rerecord \/ Rewrite
    BY <1>1, <2>5 DEF Unroll, Extract, ExtractFails, RootEntry, Relist, Rerecord, Rewrite, At
  <2>6. CASE Crash \/ Tick \/ Over \/ UNCHANGED vars
    BY <1>1, <2>6 DEF Crash, Trouble, Tick, Over, vars
  <2> QED BY <1>1, <2>2, <2>3, <2>4, <2>5, <2>6, NextCases
<1>2. Inv /\ HeldInv /\ [Next]_vars =>
        [at = "auto" /\ at' # "auto" /\ trouble' = {} /\ before.dir =>
          tree'[who] = [before EXCEPT !.entry = IF before.dist THEN before.pkg ELSE @]]_vars
  BY <1>1
<1> QED BY <1>2, StagesInvariant, HeldInvariant, PTL DEF Spec, RollbackRestores
============================================================================
