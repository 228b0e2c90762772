# A verification project for opencode-termux

opencode-termux packages opencode for Termux: it transplants upstream binaries
to Android's libc, compresses them on a small fleet of machines, publishes them
on a GitHub release, and installs plugins and file watchers on the phone. This
directory models those parts of it that keep state, run concurrently or must
survive failures. `*.tla` are the modules, `MC*.tla` and `*.cfg` instantiate them
for TLC, `*Proofs.tla` hold the proofs TLAPS checks, `PROJECT.json` is the index:
components, runs, the source lines every definition stands for, hazards,
findings, theorems.

## 1. The system's parts

| Part | State | Operations | Talks to | What is hard about it |
|---|---|---|---|---|
| Fleet scheduler, `tools/fleet-push.py` | version table `f.vers`, slots and `slot_job`, `sched.jobs`, node health | assign, poll, health probe, signals, push, prefetch | jobs through a pty, nodes through ssh, gh | threads, a signal handler on the main thread, retries, lost output lines, nodes that die |
| Release book-keeping, same file | assets and `SHA256SUMS.txt` on the release | discover, upload, update_checksums | GitHub | several machines and runs on one release, crashes, failed downloads |
| Plugin manager, `tools/plugin-manager.sh` | plugin trees, snapshots, `opencode.json`, state file | install, update, patch-apply, rollback, migrate | git, npm/bun, tar | partial failure under `set -e`, kills, rollback |
| System skills hook, `scripts/hooks/run-system-skills.sh` | markers, registry | one run per package event | plugin manager | retries, version gates, network switched on later |
| Watcher, `tools/watcher/watcher.c` | inotify watch table, visited inodes, pending events | add watches, read, coalesce, flush | kernel, the shim | renames, overflow, deleted directories |
| Watcher shim, `tools/watcher/shim.js` | child process, subscriptions | spawn, restart, shut down | watcher, opencode | events lost in a restart gap, shutdown racing a restart |
| Transplant pipeline, `tools/transplant/transplant.py` | four files and `report.json` for each version | `all` and its steps as commands of their own | the parts below, the product it runs | files written in place, products of earlier calls taken up, failures that are only noted |
| Bun base resolution, `probe_assemble.py` | a cache of ELFs and zips that the user fills too | resolve, predict, download, unpack | GitHub, `bun-bind.json` | four levels that fall through on errors, half written files, two candidates of one release |
| Graph format, `detect_layout.py`, `convert_layout.py`, `probe_extract.py`, parts of `transplant.py` | none | detect, extract, convert, patch | the pipeline | offset arithmetic over records of 36 and 52 bytes |
| ELF surgery, `swap_native_assets.py`, `swap_tui.py`, `revive_patch.py`, `crhandler_patch.py` | none | swap, graft, harden | the pipeline | room in the slots, segments that must cover what is appended, guards that must fire |
| Fleet maintenance, `tools/maintain.sh` | journal, RUNNING and ATTEMPT tables, packages, outputs and markers on the nodes | dispatch, poll, retry, launch, copy back and publish | tmux sessions on nodes through ssh and scp, gh, fleet-push.py | markers that outlive runs, sessions that die, reruns, a node restarted for one version |
| Installer and launcher, `scripts/install/oc-up`, `scripts/launcher.sh` | installed version, lock files | upgrade, start | GitHub | version test, lock removal while another instance runs |
| Build, packaging, CI, patches, small tools | files only | | | sequential; not modelled |

What makes each part correct is the subject of the sections below. For the parts
that are not modelled: the watch table follows the directory tree; the shim never
leaves a subscription without a child unless it was shut down; an upgrade leaves the
old version or the new one.

## 2. Plan

Done: FleetScheduler with FleetClaims, FleetRelease, PluginManager,
SystemSkillsHook, MaintainFleet, then the transplant tools: BunBase, GraphFormat,
ElfSurgery and Transplant, which composes the last two and takes of the first what
it promises. Each has its proofs. In order, what follows:

1. `Watcher` and `WatcherShim`: the watch table against a small directory tree;
   the shim's restart and shutdown; the two composed through a pipe that loses
   what is in it when the child dies.
2. The rest of maintain.sh: the confirmation of --clear, --sync-db over five
   releases; oc-up's version test and checksum.

BunBase is not composed with Transplant in one state space: the two meet in
`BaseChoice`, which BunBase implements (checked by `base_all`, proved in
BunBaseProofs) and by whose answers (`Bases`) Transplant is written.

Every section below ends its list of runs with the divergences between code and
documentation that the model shows: those that a run refutes are findings in
PROJECT.json, the others are described here, with the property that bounds them.

## 3. FleetScheduler

`FleetScheduler.tla` models the scheduler at the grain of the code's own critical
sections. `pc` is the main thread: `top` (the loop condition), `poll`, `scan` (the
walk over a copy of `f.slots`), `start` (between the entry in `sched.jobs` and the
process), `cleanup`, and the ends `ended`, `wedged`, `aborted`. A signal runs on
that thread between any two steps, so it is an action enabled at each `pc`. The
state of a job is what the reader and writer threads make of the pipeline:
`new`, `running`, `stuck` (stdin never closed), `packed`, `ok`, `bad`.

| Variable | Code |
|---|---|
| `slots`, `slotJob` | `f.slots`, `f.slot_job` |
| `job[s][v]` | `sched.jobs[(slot, ver)]` and the state of its process |
| `vstate`, `vnode`, `attempt` | `v.state`, `v.node`, `v.attempt` |
| `verr`, `sha` | `v.err`, `v.sha_node`, each with its age: written by this attempt or an earlier one |
| `pushed` | `v.push_pct >= 100` |
| `health`, `fails` | `f.health` with HEALTH_TTL as an expiry action, `f.health_fails` |
| `sigs` | 1: `stopped`, 2: `f.force`, 3: `os._exit` |

`FleetClaims.tla` is the abstract specification: a version is open, held or
closed; a slot holds one version, a version is held by one slot, only held
versions close and closed ones stay so. `ImplementsClaims` instantiates it with
open = pending, held = `slot_job`, closed = done/failed/skipped.

Runs:

* `fleet_all` (2 versions, 1 local slot, 2 remote nodes, 1 attempt, quarantine after
  2 failures, missing packages, lines cut in two, 3 signals). The name of one node
  begins the names of all other slots, those of the local ones too, as that of a node
  called "l" does. Two versions and three slots are the least with which two slots
  can compete for a version and one slot can be taken off the list during a walk; two
  failures the least that tell a first failure from the last. NODE_FAIL_LIMIT is 3 in
  the code, `FailLimit` is any positive number in the proofs. One attempt is enough
  for its properties, which speak of the limit and not of what is below it.
* `fleet_local` (2 local slots, 2 attempts, all kinds of error, lines cut in two, 1
  signal) under `FairSpec`: a version is given up early only for a final error of its
  last attempt, the run ends and settles everything. Two attempts are the least with
  one that is not the last.
* `fleet_sha` (1 version, 1 local slot, 2 attempts, lines cut in two): a finished version
  does not always carry the sha of its last attempt. The `#SHA` line of that attempt
  is lost at a read boundary (:661), the sha of the attempt before is still there
  (assign() does not reset it, :751), and the version is DONE with it.
* `fleet_hang`: under the same fairness a remote job without its package never
  ends. `_push_writer` asks for the size of the file before its `try` (:625); the
  thread dies and stdin stays open.

Fairness. The main thread polls every 0.15 s and is not blocked by anything but
the probe, which has a timeout: weak fairness on MainThread. The clock expires
health answers. A pipeline that has its input runs to an end, good or bad
(compressors and uploads end, connections have ssh's own timeouts). Nothing is
assumed of a job whose stdin stays open, of the prefetcher (the network) or of
the operator. The claim that a run ends is made for local slots only: with remote
nodes a push may break again and again, and `fleet_hang` shows a job that does
not end.

Divergences no run refutes:

* `_classify_err` lists "e untar" and "e no-elf", but the reader stores the text without
  "E ", so these errors, meant to be final, are retried until the attempts are used up.
* `--attempts` is announced as the maximum for each version (:1246, :755), but a push
  that breaks goes back to the queue before the attempts are compared (:773): a node
  that drops connections is given the version again without end.
  OnlyPushesOutlastTheLimit says that nothing else passes the limit.
* Quarantine takes the slots whose names start with the node's (:368): that of miao1
  takes miao10, which answers, and that of a node "l" every local slot. Then no slot
  is left, and a run with versions pending never ends. LostOnlyToQuarantine says that
  nothing else takes a slot.
* The second Ctrl-C is announced to force the end (:1433); in the final cleanup it waits
  for a lock that its own thread holds (:1442, :1498), until the third. This is `wedged`;
  NothingLeftBehind says that no job is left then.

Not modelled: an exception of `PtyJob.start()`, a return code that stays `None`
(the reader gives up after 15 s), `--no-remote-upload`, `--seed`, the screen, the
discovery of packages in the inbox; that the prefetcher replaces a package which a
local job may be reading (:1188); that `--plan`, a dry run, sweeps away the job
directories of another run (:1329).

## 4. FleetRelease

`FleetRelease.tla` is the same program seen from the release. Several machines
(`Pushers`) run it, each run is discover - work - sums - merge - idle, and a crash
is possible everywhere. The job of a version is its output, its upload and its
verdict; an output is a number, since machines with different tools pack a version
into different bytes. `assets` and `sums` are on the release and survive; all else
is lost with the process. `faults` remembers what has gone wrong: "output" (an
upload under the wrong name, an upload not believed, a sha of an earlier attempt
kept), "stale" (the checksum file written from an outdated copy), "short" (a run
that died or could not write).

* `release_all` (1 version, 2 outputs, 1 foreign line, 2 machines, symmetric): a
  line about a version is always the sha of the published asset as long as no
  output has gone astray (ListedIsPublished), whatever crashes, races and failed
  downloads there are; with no fault at all nothing stays unlisted and no foreign
  line is lost. One version is enough: versions share only the checksum file,
  whose other lines the foreign line stands for.
* `release_stray`: JOB_SH's fallback uploads `out.xz` under that very name; the
  version is DONE without its asset.

Divergences no run refutes: update_checksums is to merge its lines into the file of
the release (:934), but a failed download counts as an empty file (:942), and the
upload that follows loses every line that was there; so do a copy that another
machine has extended since, and an upload that fails after --clobber has deleted.
`faults` has them as "short" and "stale", and ListedIsPublished holds with all of
them: lines are lost, none becomes false. The third, a sha of an earlier attempt
(`fleet_sha`), makes a line false; it is "output".

Left out: `--no-checksums`, `--verify-download`, the printed cross-check, the
moment inside gh's own --clobber between deleting and uploading an asset, and
whether GitHub accepts the uploader's PUT.

## 5. PluginManager

`PluginManager.tla` runs the commands of plugin-manager.sh one after the other,
step by step (`op`, `who`, `at`), each step failing or being the last before a
kill. A tree is what the code tells apart: is there a directory, which revision is
in `repo`, which in `package`, is there a `dist`, of which revision is `index.js`.
`set -e` is modelled by what it does: a step outside a condition that fails ends
the command; inside rollback_if_available, whose `if` suspends it, cmd_rollback
goes on after a failure, and a `die` ends the script before the result is recorded.
`before` and `trouble` are history: the tree when the command began, and the
failures it met for which the code has no error path (tar, cp, a kill).

* `plugin_all` (2 plugins with unrelated names, 2 revisions, snapshots in 2
  different seconds, 3 commands): a failed change, the snapshot it leaves and a
  rollback to it take three commands. OkMeansUsable, FailureKeepsPlugin,
  RollbackRestores, OthersUntouched.
* `plugin_prefix`: the same with names like `oh-my-opencode` and
  `oh-my-opencode-slim`: snapshot_latest's glob finds the other's snapshot, and the
  rollback removes one plugin and overwrites the other.

A divergence no run refutes: a kill in the middle of rewriting opencode.json leaves
what is no JSON; every later registration fails and is rolled back, and the rollback,
which cannot register either, goes on after its failure (`set -e` is off inside the
`if`) and records ok (:463-464). OkMeansUsable asks for the entry file always, and for
the entry in opencode.json only while that can be read.

Left out: two commands at once (nothing locks the files), what is inside a build,
patch-export and verify-config, the clock set back, a duplicate entry that
migrate-installed can leave in the list. A snapshot is taken of whatever is there
(:139), after a failed install of a broken plugin: RollbackRestores says that it is
restored, not that it works.

## 6. SystemSkillsHook

`SystemSkillsHook.tla` models run-system-skills.sh, one step per command that can
fail or be the last: `at` goes through `next` (the loop of main), `gate`, `act` (the
plugin manager), `selfcheck`, `close`, `mark`, `report` (update_registry). `markers`,
`registry`, `blocklist` are its files, `core` what `opencode --version` tells, 0 when
it tells nothing. What the plugin manager and the self-check do is external: they
succeed or fail. Between calls the package manager changes the core and anyone the
block list, which may be no JSON (`Unreadable`) or JSON of another shape (`Misshapen`);
the test of the latter raises and ends with 1, which means "not blocked". `Die` is a kill or a write that fails under
`set -e`; inside update_registry it leaves an empty registry. `harmed`, `troubled`,
`broken` and `completed` are history.

* `hook_all` (2 calls, 2 manifests, 4 core versions and none, 4 block lists, both
  values of OPENCODE_HOOK_STRICT and OPENCODE_HOOK_ENABLE_NETWORK): one manifest is for
  cores 1 to 3 but not 2, the other up to 1 and not where the version cannot be read,
  so that of the cores one is below, one between, one barred and one above. Two calls are the
  least with which one finds what another left, two manifests the least with which a
  failure could leak from one to the next. GateHolds, ReportsOwnActions,
  SkipsOnlyWhatWasDone, OkHasMarker, ExitIsStrict.

Divergences no run refutes: a call with the network disabled leaves the marker, and
the same event on the same core with the network enabled then installs nothing.
"blocklist validation failed" (:239) is said of a list that is no JSON only: under one
of another shape (:138-142) every plugin passes. GateHolds asks then for the limits of
the manifest alone.

SkipsOnlyWhatWasDone needs manifests with different keys, which nothing enforces;
the theorem says so. GateHolds speaks of manifests with a minimum version: one
without lets a core pass that does not tell its version. Left out: two calls at
once, manifests that change during a call.

## 7. MaintainFleet

`MaintainFleet.tla` models `maintain.sh --upload` for the compressed family:
upload_fleet on the make machine, fleet-run.sh on a `gh` node (fleet-push.py, then
one marker per version), upx-job.sh on a `compute` node (unpack, pack, write the
output, marker), and the journal, over a sequence of runs with one tag. `pc` is
where upload_fleet stands; each command of a handler that can fail is a step, and
the sessions on the nodes go on between any two.

| Variable | Code |
|---|---|
| `assign`, `running`, `attempt`, `progress` | ASSIGN, RUNNING, ATTEMPT, progress |
| `due`, `left`, `cur` | the rest of the loop at hand, and the key whose handler runs |
| `journal` | `artifacts/fleet-state.json` |
| `copy`, `release` | `packing/fleet/<asset>`; the assets on the release |
| `gone` | history: assets that an upload --clobber of this script deleted and none put back |
| `inbox`, `out`, `marks`, `tool` | `~/opc-fleet/` on a node: inbox, out, state, fleet-push.py |
| `fleet`, `job` | the tmux sessions of fleet-run.sh and upx-job.sh |
| `starts`, `stale` | history: sessions of a node in this run; a job started beside a `.done` marker |

Five things are modelled as the code does them. Every scp goes to `$user@$host`,
which the loop over the rows leaves at the last row whatever node is served
(`ScpHost`); ssh goes to the right one. `tmux kill-session -t NAME` takes NAME for a
prefix when no session has it for a name (`Killed`). Under `set -e` a command that
fails outside a condition ends the run (`Abort`, which a signal is too); what is on
disk stays. `gh release upload --clobber` deletes before it uploads (`Unpublish`, then
`Publish`), and may fail in between. A command that the run waits for may never return
(`Hang`): ssh and scp are called without timeout or keepalive (:157-172), and
fleet-push.py of a local node runs in the foreground (:471). A gh node's fleet-push is what it is to the release: it adds versions
that are missing, and a marker says `done` only for an asset seen there.

* `maintain_all` (the node file of --nodes-init: one local, one gh with 2 slots, one
  compute with 2; 2 versions, the session name of one of which begins with the
  other's; 2 attempts; four plans of one or two runs, with the same nodes again and
  with others). Two runs are the least with which a marker or an output outlives its
  run, two versions the least with which one session kills another's or a node is
  restarted for one of several, two attempts the least with a retry. DoneIsReleased,
  StartsBounded, TruncatedOnlyIfStale, EndsUnlessHung. The last row is the
  compute node, so the gh node's fleet-push.py goes astray; `Tooled` says it has one
  already.

Fairness: a run that is not hung takes a step or is cut short, and a run at the end of
a pass infinitely often is ended by TIMEOUT_SEC, as every pass sleeps POLL_SEC. Nothing
is assumed of commands, which may hang at any point where the run waits for one, of the
sessions on the nodes, or of an operator who would interrupt a hung run. So what is
shown is EndsUnlessHung: a run ends or hangs in a command, and no dead session, lost
marker or restart keeps it going. It needs the timeout: since settled versions are
launched again, few runs with a compute node come to their own end.

Divergences no run refutes, each with the property that bounds it:

* "timeout after ${TIMEOUT_SEC}s" (:621) is compared only when a pass is over (:620), and
  the clock starts behind the local fleet-push.py (:529): a run whose command hangs has
  no end (EndsUnlessHung).
* "rerun the same command to resume" (:528): markers are not cleared at dispatch (only
  at :568, after a failure), so a rerun takes the old marker for the new job's and
  publishes the output it is writing (TruncatedOnlyIfStale).
* docs/make-maintainer.md:54 has the make machine ship a compute node's inputs to it;
  they go to the machine of the last row, used or not (the job then fails; an output
  copied from there is the other exception of TruncatedOnlyIfStale).
* "uploaded by node" (:559): the --clobber of a later run that gives the version to another
  node deletes the asset, and if it fails the journal still says done (`gone` in
  DoneIsReleased).
* docs/make-maintainer.md:58 has reruns skip what is completed, but every pair becomes
  `pending` (:443) and journal_rows has no caller. Without any fault a version of a
  compute node that is done is launched again in the same pass, because the launch loop
  asks RUNNING alone; VerdictStays, which is proved, leaves compute nodes out for it.
* A local node's versions are called done by an exit status that does not tell whether
  they are; DoneIsReleased speaks of remote nodes.

Left out: upload_simple, --clear and --auto-clean, --sync-db, --nodes-init, --dry-run,
--no-upload (a rehearsal that leaves the release alone; nothing reads its journal), the
lines of SHA256SUMS.txt (nothing here reads them), two orchestrators at once, a change
of tag (it empties the journal), two rows for one machine, and that fleet-push.py's own
upload may replace an asset which another node has put there meanwhile.

## 8. BunBase

`BunBase.tla` models resolve_bun_base and download_bun of probe_assemble.py with
predict_bun_base, call after call over one cache. A release is a number in the order
of the releases, `TrailerMax` the last of the 1.3 series. `at` is the level a call has
reached: `local` (what the cache holds), `bun-bind` (the release bun-bind.json names),
`github-latest`, `default`, then `quarantine`; `legacy` is a call without a format.

| Variable | Code |
|---|---|
| `elfs[v]`, `zips[v]` | `<cache>/bun-<v>/bun` and `<cache>/bun-<v>.zip`; place 0 is `<cache>/bun` and the default's zip |
| `holds[p]` | the release of which the zip at place p is, whatever its name says |
| `bind` | `bun-bind.json`; 0 and FALSE stand for a missing key |
| `format`, `at`, `todo` | `graph_format`, the level, the local candidates not tried yet |
| `result`, `verdict` | what the call returns, or that it raised ResolveError or was killed |
| `pred`, `stumbled` | history: what the prediction said at the start; a zip that could not be unpacked |

An ELF is whole or ends behind its version string (`torn`), before it (`mute`) or is
`empty`; a zip is whole or cut. A download that breaks off leaves a cut zip, a write
that fails part of an ELF, a kill what the last step wrote. Between two calls the user
puts an ELF or a zip into the cache, removes one, or edits bun-bind.json. `Misnamed` says
which releases the user may put under the name of another; what a call downloads has
its true name.

* `base_all` (3 releases, one of the 1.3 series; three bun-bind.json, one unreadable
  and one without a minimum; true names; 2 calls, 2 edits): two calls are the
  least with which one finds what another left half written, three releases the
  least with two candidates that fit. ClaimsTrue, PredictionHolds,
  RefusesOnlyWithoutBase, WholeIsKept, and ImplementsChoice.

`BaseChoice.tla` is what Transplant relies on: a question for a format gets at most one
answer, out of `BasesFor` that format, which stands until it is dropped or the next
question. ImplementsChoice maps the chain to it; each answer that `BasesFor` allows is
reached in the instance, so it is not wider than it has to be.

Divergences no run refutes ("each level yields candidates, then pairing-validated",
probe_assemble.py:166):

* `<cache>/bun` is returned at level 4 as the default release whatever it is (:282), after
  level 1 has read its version and refused it. ClaimsTrue leaves this out; that what
  is returned so is never a base that fits is proved (ReuseAlwaysUnpaired).
* The version of a base from a zip is that of the zip's name: the version read in the
  ELF is written down and not compared (:233-238). ClaimsTrue, WholeIsKept and
  ImplementsChoice are claims about caches with true names (`Misnamed = {}`);
  PredictionHolds, RefusesOnlyWithoutBase and ReuseAlwaysUnpaired are proved for any.
* predict_bun_base calls a bun-bind.json without url_pattern fatal (transplant.py:1176),
  and `all` refuses, where the chain downloads by a pattern of its own
  (probe_assemble.py:179). `pred.fatal` has it; PredictionHolds compares the base that is
  named, which is then none of the cache, with the chain, not the verdict.

PredictionHolds is a claim about two readings of one cache: a user who edits it in
between is left out. Not modelled: bun-base.QUARANTINE.json, which nothing reads back,
and the wording of errors.

The code sorts
the names of candidates as text, the model by release; which of two fitting releases
comes first differs (bun-1.10 stands before bun-1.9), no property depends on it.

## 9. GraphFormat and ElfSurgery

Two modules without state: what the tools do to bytes, as operators that Transplant
uses and the proofs are about.

`GraphFormat.tla` counts in words of 4 bytes, so a record has 9 or 13 of them. A
graph is its bytes before the Offsets, the Offsets, and whether the marker is there.
`Layout` tells the record size from the area as the tools do: 13 first. `Convert` is
convert_graph, `ConvertBinary` the same for a whole binary in convert_layout.py,
`Extract` both ways of extraction, `PatchGraph`, `Selected` and `PredictHit` the
patches. Of the Offsets the fields that are only copied are left out, of a patch
everything but the word it searches, the word it puts there and whether the lengths
agree. An area of 13 short records is taken for one of 9 long ones; nothing the
tools look at tells them apart, and no tool refuses it. TLC
has a binary with 13 records, on which only `--no-execve` or `--no-revive` lets a call pass.

`ElfSurgery.tla` counts bytes. A library has the length of its file and the size its
section headers give it (elf_size), which is less if bytes follow the last section: a
swap compares the length of the new one with the size of the one in the slot
(swap_native_assets.py:161-169). A slot is the library in it and the padding behind; a
base is its length, its writable segment, its .bun section and its relocations.
`CanSwap`/`Put` are swap_one, `SwappedAll` the all-or-nothing swap of the assets,
`CanGraft` swap_tui.py, `Revived` revive_patch.py in both modes, `Harden`
crhandler_patch.py. Left out: how headers are found and parsed, the scan of machine
code for the FFI guard (a library is `guarded` or not), `--check`.

What a reader should know beyond the theorems: the part of the base file between the
end of its segment and the end of its .bss, if there is one, is loaded over .bss
(`cleared` says when it is not), for the tool does not clear it; and the guard that
should compare exported symbols never fires: dyn_defined_symbols reads the place of the
names from sh_link as a u64 (swap_native_assets.py:99), which lies behind the file, so
every name is empty and none has a prefix of MANIFEST.json. The docstring (:28-30) has a
missing symbol fail hard; no run refutes it.

## 10. Transplant

`Transplant.tla` models transplant.py over the directory of one version: `all`, one
action per step (`at` is the next), and the commands extract, convert, patch,
assemble, revive and swap, one action each, since what can happen between their
reading and their writing is that they are cut short. Every file is written in place,
so every action may leave its output cut (`CutOutput`, the second disjunct of each
command), or be the last before a kill, as the assets are when `all` dies between them
and its report. Then the call has failed; what it wrote before stays.

| Variable | Code |
|---|---|
| `src` | the upstream binary; `graph`, `native`, `revived`, `tui` the files made of it |
| `lib`, `prebuilt`, `cfg` | libopentui.so, tools/prebuilt/bionic, patches.json |
| `noRevive`, `noExec` | `--no-revive`, `--no-execve` |
| `base` | `bun_elf`, found by assemble or revive and used again within the call |
| `report`, `notes` | report.json; the report `all` keeps until its end |
| `verdict` | exit status of the last call |

A product is [of, made, base, mode, tui, slots]: the graph inside it, the call that
made it, the series of its base and how the graph was grafted, and the libraries in
its slots. `Runs` says when the product starts: if the mode fits the base and the
records are long. What download_bun answers is `BasesFor` of `Bases.tla`: a base
that fits, or for a trailer graph, through the reuse of `<cache>/bun`, any base. That
BunBase answers nothing else is the theorem ChainImplementsChoice (section 8), as
long as the minimum of bun-bind.json is not below the 1.4 series; `all` refuses such
a minimum by its prediction, the commands assemble and revive do not look.
format_from_ver tells section from trailer by the version number; the model takes it
that upstream keeps to this.

* `transplant_all` (5 binaries: trailer and section, short and long records, 13
  records, a slot that is missing; 2 libraries, one too large for its slot; 3 sets of
  prebuilt assets, one too large for one slot; 3 patches.json; 2 calls, 1 edit): two
  calls are the least with which one finds what another left, one edit the least
  with which the second works on other inputs than the first. AllIsComplete,
  NothingFromTorn, AssetsOfOneSet. What one call leaves is a file that is absent, cut,
  or whole and of other inputs; a third call adds no fourth case.
There is no liveness here: a call is sequential, nothing in it waits.

NothingFromTorn is about products that revive_patch.py grafted, or that were made from
one. assemble concatenates any graph, a cut one too: a raw binary may hold a torn graph,
and a tui binary that `all --no-revive --no-execve` makes of it, in section mode, too.

Divergences no run refutes:

* "(convert if 36)" (transplant.py:23): 13 * n short records are taken for 9 * n long ones
  (:326), and a call that does not run the revived binary ends well with them.
  AllIsComplete has this exception and shows that such a binary does not run.
* "--no-revive: raw concat binary only" (:1574): swap_src is the revived binary whenever one
  lies there (:1444), of an earlier call or cut short. AllIsComplete speaks of calls
  that revive.
* The Makefile relies on it that a call makes both revived and tui binary (Makefile:359)
  and copies the second over the first (:361-364). When swap_tui.py refuses the library
  that is printed and passed over (transplant.py:1451), and an earlier tui binary gets
  the assets of this call. AllIsComplete speaks of the tui binary only where the report
  has the swap done.

AllIsComplete finds the assets where asset_target (transplant.py:1472) puts them: in
the tui binary when there is one, of whatever call, and in the revived one only
otherwise. The native packages prefer the tui binary too (lib.sh:79-82), fleet-upx.sh
packs the revived one, which seccomp-harden overwrites with the tui binary unless it
is hardened already.

Left out: host-bun.bin, which is only written; what single commands merge into the
report; a command whose file is whole but whose report fails; arguments that name
other files; two calls at once on one directory (nothing locks it). detect, verify,
tui-probe, predict and resolve-base change nothing but the report. A verdict of
tui-probe is any of its three.

## 11. Proofs

Every proof is for all values of the constants, from the named assumptions in the
module that declares them (positive numbers, names related reflexively).

* `FleetSchedulerProofs`: TypeOK is inductive. BooksAgree, OneSlotPerVersion and
  NothingLeftBehind are not: that no version is given to two slots rests on the
  version's state and node, which rest on the two books, which rest on where the
  main thread is (a job is `new` only at `start`; what `poll` still has to look at is
  in `sched.jobs`). `BooksInv` is their conjunction with those facts, one lemma per
  group of actions. From it follow the refinement (each step is a claim, a release,
  a close or a stutter), NoJobForDeadNode and OnlyPushesOutlastTheLimit.
  LostOnlyToQuarantine (for any names, of local slots too; UnrelatedNamesKeepSlots says
  what follows where no name begins another), GiveUpJustified, DoneShaFresh (when no
  line is cut; `fleet_sha` shows what happens otherwise) and AttemptsBounded (when there
  are no remote nodes) have their own inductions. AllSettled
  speaks of the end, when it is too late to know why the loop was left: `SettledInv`
  says that from the poll that found nothing open until then, no version is open
  unless a signal has come.
* `FleetReleaseProofs`: `ReleaseInv` adds what a run knows: a sha it holds is of
  the output it holds, a finished version's sha is of its asset, the lines it has
  read are of assets; assets are never replaced under a version's name. It yields
  ListedIsPublished for any number of machines and crashes, and that a version is DONE
  without its asset only where an output went astray: DoneIsOnRelease, which
  `release_stray` refutes, fails for no other reason. NothingUnlisted looks at the
  release when no run is there; `AccountInv` says what a run has to know until then:
  an asset without a line is known, with its sha, to a run that will come to
  update_checksums().
* `PluginManagerProofs`: `Stages` says what holds at each step of a command (what is
  in the tree, whether the plugin is listed), and with TypeOK it is inductive. It
  yields OkMeansUsable; OthersUntouched needs besides that the snapshot a command
  holds is its own plugin's, which is where unrelated names are needed.
  FailureKeepsPlugin and RollbackRestores rest on `HeldInv`: the archive that a
  command took is of the tree it found, and it is the newest of its plugin, since no
  snapshot bears a later time. With names that continue each other the newest may be
  another plugin's, so these theorems too assume unrelated names (`Behind = {}`); the
  run `plugin_prefix` shows what happens without.
* `SystemSkillsHookProofs`: types in three parts; GateHolds with the fact that the
  version judged is the core's or 0; ReportsOwnActions with `Exact` (PROCESS_WARNED
  is true exactly when a command of this manifest failed), from which `Earned` (a
  marker stands for a manifest gone through), SkipsOnlyWhatWasDone and OkHasMarker
  follow; ExitIsStrict with the same relation while the call still runs.
* `MaintainFleetProofs`: `Inv` adds to the types that a handler of a compute node
  works on a key of one (`ComputeOnly`), that a `done` marker of a gh node, and a
  handler past its upload, stand for an asset on the release (`MarkedIsReleased`), and
  that a job which was not started beside a `done` marker writes its own beside a
  complete output (`FreshIsWhole`). It yields DoneIsReleased and TruncatedOnlyIfStale;
  VerdictStays needs besides that a settled version of a gh or local node has no
  entry in RUNNING (`Settled`). StartsBounded counts: `BudgetInv` sets the sessions of
  a gh node against the attempts that its versions have used beyond the first, kept
  as a set of pairs; every restart is paid for by one more pair, and there are no
  more pairs than versions times spare attempts.
* `BunBaseProofs`: `TypeOK` holds that with true names an ELF at place v is of release v,
  which is what makes the claim of a level that downloads true. PredictionHolds needs that the
  first of the candidates left is the one predicted unless a zip has failed
  (`AtLocal`); RefusesOnlyWithoutBase that at the local level every whole ELF that
  fits is among them, so that at the levels behind it none is in the cache
  (`AtBeyond`). ChainImplementsChoice is the refinement: a question is asked when a
  call with a format begins, it is answered by the series of the ELF that is returned
  and the one its version string tells (0 if it cannot be read), and dropped when
  the call gives up, is killed, or its answer has been used. That each answer is in
  `BasesFor` needs, for a section graph, that the version of an ELF taken from the
  cache can still be read when it is taken (`Told`): no zip is unpacked over an ELF
  that is still to be tried, because an ELF comes before the zip of its place. It
  assumes true names and that no minimum is below the 1.4 series (`SaneBinds`); AnswersFit says the
  same of each answer without the assumption, for the calls whose minimum is sound.
* `BinaryProofs`, about the operators: Layout tells the record size unless an area is
  divided by both; Convert keeps the string data, the argv string, and the pointers
  and flags of every record, and undoes itself; the two converters agree; a patch
  moves nothing and commutes with the conversion; a swap of the same assets changes
  nothing; the extended segment of a revived binary covers the blob and the
  relocations, and these overlap neither the old file nor its .bss; hardening puts
  the shim first and keeps libc. Index arithmetic over `\div` and `%` is in lemmas of
  its own, since the solver does not find it.
* `TransplantProofs`: `IInv` is TypeOK, `FilesOK` (a whole grafted product holds a
  whole graph, slots keep their room and hold one set), `Stage` (what the steps of
  this call have established of graph and base, by `at`), `Made` (the products are
  this call's once their step is done) and AllIsComplete. The last does not follow
  from the files: a complete product of an earlier call looks the same, so `Made` is
  needed. That the graph stays faithful rests on ConvertFaithful and
  PatchThenConvert.

VerdictStays, AttemptsBounded, LostToItsOwnNode, ReuseIsUnpaired, DoneUnlessStray and
AnswerFits are proved and no run checks them; DoneShaFresh is proved under the
condition that `fleet_sha` does not meet.

Only model-checked: RunEnds and EndsUnlessHung, and the refutation of JobsEnd, which are
about liveness and out of the prover's reach. Every other property of a run that
passes is stated by a theorem. Nothing is proved about the components that are not
modelled.
