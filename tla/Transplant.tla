---------------------------- MODULE Transplant ----------------------------
(***************************************************************************)
(* tools/transplant/transplant.py: how one version of opencode becomes a   *)
(* native android binary.  "all" runs the steps extract, detect, convert,  *)
(* patch, assemble, revive, verify, swap, probe and assets; most of them   *)
(* are commands of their own too.  They leave four files and a report in   *)
(* the directory of the version, and every file is written in place.       *)
(*                                                                         *)
(* Calls follow one another.  Each may fail, or be killed, at any step,    *)
(* and what the step was writing is then cut short.  Between the calls the *)
(* user changes the libraries, the prebuilt assets and patches.json.       *)
(***************************************************************************)
EXTENDS GraphFormat, ElfSurgery, Bases

CONSTANTS Binaries,    \* upstream binaries: GraphFormat's with tui, slots
          Ver,         \* the version, for patches.json
          Libs,        \* what libopentui.so may be
          Prebuilts,   \* what tools/prebuilt/bionic may hold
          Prefixed,    \* the symbols with a prefix of MANIFEST.json
          Flags,       \* the word that holds the 4 u8 of a record
          Configs,     \* what patches.json may be
          MaxCalls, MaxEdits

Assets == {"fff", "watcher", "pty"}
NoDir  == [a \in Assets |-> NoLib]

\* A library that is whole: its sections lie within its file.
HasExtent(l) == l.len \in Nat /\ l.size \in 0 .. l.len

\* What Bun writes: a graph behind the host, or in the section; records of
\* one size, the short ones of a binary that is "short".
ASSUME TransplantAssumption ==
    /\ \A b \in Binaries :
         /\ b.end \in {"trailer", "section", "none"} /\ b.marker \in BOOLEAN
         /\ WellFormed(b) /\ b.off.byte_count <= Len(b.bytes)
         /\ b.end = "section" => b.off.byte_count = Len(b.bytes)
         /\ b.short \in BOOLEAN
         /\ b.off.mod_len % (IF b.short THEN RECORD_36 ELSE RECORD_52) = 0
         /\ DOMAIN b.slots = Assets
         /\ \A a \in Assets : b.slots[a].pad \in Nat /\ HasExtent(b.slots[a].lib)
    /\ \A p \in Prebuilts : DOMAIN p = Assets /\ \A a \in Assets : HasExtent(p[a])
    /\ \A c \in Configs : \A p \in c.flat \cup UNION {r.patches : r \in c.ranges} :
                             p.replace \in Nat
    /\ NoLib \notin Libs /\ NoDir \notin Prebuilts
    /\ EmptyName \notin Prefixed
    /\ MaxCalls \in Nat /\ MaxEdits \in Nat

\* A file is whole or cut short.  Besides, module-graph.bin is a graph, and
\* a product is [of, made, base, mode, tui, slots]: the graph that it holds,
\* the call that made it, the series of its base (mode: how the graph was
\* grafted, "raw" if it was not), and the libraries in its slots.
Absent == [whole |-> FALSE]

VARIABLES
    src,       \* the upstream binary of the version
    lib,       \* opentui-bionic/libopentui.so
    prebuilt,  \* the libraries below tools/prebuilt/bionic
    cfg,       \* patches.json
    calls, edits,
    at,        \* the next step of "all"
    noRevive, noExec,  \* its options
    base,      \* bun_elf
    graph, native, revived, tui,   \* the files
    report,    \* report.json
    notes,     \* the report that "all" keeps in memory
    verdict    \* how the last call ended

env   == <<src, lib, prebuilt, cfg, edits>>
opts  == <<noRevive, noExec>>
files == <<graph, native, revived, tui>>
vars  == <<env, calls, at, opts, base, files, report, notes, verdict>>

NoNotes == [call |-> 0, tui |-> "none", assets |-> "none"]

Init ==
    /\ src \in Binaries
    /\ lib \in Libs \cup {NoLib} /\ prebuilt \in Prebuilts \cup {NoDir}
    /\ cfg \in Configs
    /\ calls = 0 /\ edits = 0 /\ at = "idle"
    /\ noRevive = FALSE /\ noExec = FALSE /\ base = NoBase
    /\ graph = Absent /\ native = Absent /\ revived = Absent /\ tui = Absent
    /\ report = NoNotes /\ notes = NoNotes /\ verdict = "none"

-----------------------------------------------------------------------------
(* The files that the steps write.                                         *)

Whole(g) == [whole |-> TRUE, g |-> g]
\* A graph that is cut short has lost its end; a product stays one in name.
Cut(g) == [whole |-> FALSE, g |-> [bytes |-> g.bytes, off |-> g.off, marker |-> FALSE]]
CutProduct(p) == [p EXCEPT !.whole = FALSE]
Present(f) == f # Absent

Section == src.end = "section"

\* convert in "all": to long records, unless they are.
Long(g) == IF Layout(g.off.mod_len) = RECORD_36 THEN Convert(g, RECORD_52) ELSE g

\* assemble: base, graph and total, whatever the graph is like.
Assembled(b, by) ==
    [whole |-> TRUE, of |-> graph, made |-> by, base |-> b.series,
     mode |-> "raw", tui |-> src.tui, slots |-> src.slots]

\* What revive_patch.py looks at in the graph; its length is beyond the 48
\* bytes of the end.
Payload(f) == [len |-> 48 + 4 * Len(f.g.bytes), lead |-> 0, marker |-> f.g.marker]
Revives(f) == Present(f) /\ PayloadEnds(Payload(f))
Grafted(b, by) ==
    [whole |-> TRUE, of |-> graph, made |-> by, base |-> b.series,
     mode |-> SizeMode(b.told), tui |-> src.tui, slots |-> src.slots]

\* The runtime reads long records, whose last word holds the 4 u8.
Readable(g) == \A i \in 1 .. g.off.mod_len :
                  i % RECORD_52 = 0 <=> g.bytes[g.off.mod_off + i] = Flags
\* --version prints the version of opencode if the runtime finds the graph
\* and can read it, and the one that is asked for if the binary is raw and
\* its base fits.
Runs(p) ==
    p.whole /\ IF p.mode = "raw" THEN p.base = 3
               ELSE Boots(p.base, p.mode) /\ Readable(p.of.g)

\* swap_src: the revived binary, of whatever call, or the raw one.
SwapSource == IF Present(revived) THEN revived ELSE native
WithLib(p, by) == [p EXCEPT !.tui = Put(p.tui, lib), !.made = by]
Swapped == WithLib(SwapSource, calls)

\* asset_target: the tui binary, of whatever call, or the revived one.
Target == IF Present(tui) THEN tui ELSE revived
Filled(p) == [p EXCEPT !.slots = SwappedAll(p.slots, prebuilt, Prefixed)]

-----------------------------------------------------------------------------
(* "all".                                                                  *)

\* Predict refuses before any work; otherwise the work starts.
Start(nr, ne) ==
    /\ at = "idle" /\ calls < MaxCalls
    /\ calls' = calls + 1
    /\ noRevive' = nr /\ noExec' = ne
    /\ LET begun == [NoNotes EXCEPT !.call = calls + 1] IN
         \/ /\ at' = "extract" /\ verdict' = "none"
            /\ notes' = begun /\ UNCHANGED report
         \/ /\ at' = "idle" /\ verdict' = "failed"
            /\ report' = begun /\ UNCHANGED notes
    /\ UNCHANGED <<env, files, base>>

Go(next) == at' = next /\ UNCHANGED <<env, calls, opts, report, verdict>>

ExtractStep ==
    /\ at = "extract" /\ CanExtract(src)
    /\ graph' = Whole(Extract(src))
    /\ Go("detect") /\ UNCHANGED <<native, revived, tui, base, notes>>

\* In section mode the payload is looked at, otherwise the whole binary.
DetectStep ==
    /\ at = "detect"
    /\ IF Section THEN DetectsSection(graph.g) ELSE DetectsBinary(src)
    /\ Go("convert") /\ UNCHANGED <<files, base, notes>>

ConvertStep ==
    /\ at = "convert"
    /\ Layout(graph.g.off.mod_len) = RECORD_36 => Parses(graph.g)
    /\ graph' = Whole(Long(graph.g))
    /\ Go("patch") /\ UNCHANGED <<native, revived, tui, base, notes>>

PatchStep ==
    /\ at = "patch" /\ CanPatch(graph.g, cfg, Ver)
    /\ graph' = Whole(PatchGraph(graph.g, cfg, Ver))
    /\ Go("assemble") /\ UNCHANGED <<native, revived, tui, base, notes>>

AssembleStep ==
    /\ at = "assemble"
    /\ \/ Section /\ UNCHANGED <<native, base>>
       \/ /\ ~Section
          /\ base' \in BasesFor(src.end) /\ native' = Assembled(base', calls)
    /\ Go("revive") /\ UNCHANGED <<graph, revived, tui, notes>>

\* The base that assemble has found is used again.
RevivalBases == IF base = NoBase THEN BasesFor(src.end) ELSE {base}
ReviveStep ==
    /\ at = "revive"
    /\ \/ noRevive /\ UNCHANGED <<base, revived>>
       \/ /\ ~noRevive /\ Revives(graph)
          /\ base' \in RevivalBases
          /\ revived' = Grafted(base', calls)
    /\ Go("verify") /\ UNCHANGED <<graph, native, tui, notes>>

VerifyTarget == IF noRevive THEN native ELSE revived
VerifyStep ==
    /\ at = "verify"
    /\ noExec \/ (Present(VerifyTarget) /\ Runs(VerifyTarget))
    /\ Go("swap") /\ UNCHANGED <<files, base, notes>>

\* tui_probe: the product runs on a terminal; "unprobed" where none can run.
Probed == {"pass", "unprobed", "fail"}
\* Errors of the swap are noted and passed over.  One that comes while
\* swap_tui.py writes leaves its output cut short.
SwapStep ==
    /\ at = "swap"
    /\ \/ /\ lib = NoLib \/ ~Present(SwapSource)
          /\ UNCHANGED tui
          /\ notes' = [notes EXCEPT !.tui = "absent"]
       \/ /\ lib # NoLib /\ Present(SwapSource)
          /\ \/ /\ CanGraft(SwapSource.tui, lib)
                /\ tui' = Swapped /\ \E v \in Probed : notes' = [notes EXCEPT !.tui = v]
             \/ /\ notes' = [notes EXCEPT !.tui = "fail"]
                /\ \/ UNCHANGED tui
                   \/ CanGraft(SwapSource.tui, lib) /\ tui' = CutProduct(Swapped)
    /\ Go("assets") /\ UNCHANGED <<graph, native, revived, base>>

End(v) == /\ at' = "idle" /\ verdict' = v /\ base' = NoBase /\ notes' = NoNotes
          /\ UNCHANGED <<env, calls, opts>>

\* The product that gets the assets is written anew, in place.
Rewritten(p) ==
    /\ IF Present(tui) THEN tui' = p /\ UNCHANGED revived
                       ELSE revived' = p /\ UNCHANGED tui
    /\ UNCHANGED native
Fills == CanSwapAll(Target.slots, prebuilt, TRUE, Prefixed)
\* The last step, and the report.  A swap that fails is an error, which the
\* report tells.
AssetsStep ==
    /\ at = "assets" /\ UNCHANGED graph
    /\ \/ /\ ~Section \/ prebuilt = NoDir \/ ~Present(Target)
          /\ report' = [notes EXCEPT !.assets = "skipped"]
          /\ UNCHANGED <<native, revived, tui>> /\ End("ok")
       \/ /\ Section /\ prebuilt # NoDir /\ Present(Target)
          /\ \/ /\ Fills /\ Rewritten(Filled(Target))
                /\ report' = [notes EXCEPT !.assets = "ok"] /\ End("ok")
             \/ /\ \/ UNCHANGED <<native, revived, tui>>
                   \/ Fills /\ Rewritten(CutProduct(Filled(Target)))
                /\ report' = [notes EXCEPT !.assets = "failed"] /\ End("failed")

\* Any step may end the call, and leave what it was writing cut short; after
\* the last one the product is whole and the report not written yet.
CutOutput ==
    \/ UNCHANGED files
    \/ /\ \/ at = "extract" /\ CanExtract(src) /\ graph' = Cut(Extract(src))
          \/ /\ at = "convert" /\ CanConvert(graph.g, RECORD_52)
             /\ graph' = Cut(Convert(graph.g, RECORD_52))
          \/ /\ at = "patch" /\ CanPatch(graph.g, cfg, Ver)
             /\ PatchGraph(graph.g, cfg, Ver) # graph.g
             /\ graph' = Cut(PatchGraph(graph.g, cfg, Ver))
       /\ UNCHANGED <<native, revived, tui>>
    \/ /\ at = "assemble" /\ ~Section
       /\ \E b \in BasesFor(src.end) : native' = CutProduct(Assembled(b, calls))
       /\ UNCHANGED <<graph, revived, tui>>
    \/ /\ at = "revive" /\ ~noRevive /\ Revives(graph)
       /\ \E b \in RevivalBases : revived' = CutProduct(Grafted(b, calls))
       /\ UNCHANGED <<graph, native, tui>>
    \/ /\ at = "swap" /\ lib # NoLib /\ Present(SwapSource) /\ CanGraft(SwapSource.tui, lib)
       /\ tui' = CutProduct(Swapped) /\ UNCHANGED <<graph, native, revived>>
    \/ /\ at = "assets" /\ Section /\ prebuilt # NoDir /\ Present(Target)
       /\ Fills /\ UNCHANGED graph
       /\ \E p \in {Filled(Target), CutProduct(Filled(Target))} : Rewritten(p)
Break == at # "idle" /\ CutOutput /\ End("failed") /\ UNCHANGED report

-----------------------------------------------------------------------------
(* The commands, each one step on the default files.  One that is broken   *)
(* off leaves its output cut short.  What they merge into the report is    *)
(* left out.                                                               *)

Call ==
    /\ at = "idle" /\ calls < MaxCalls /\ calls' = calls + 1
    /\ UNCHANGED <<env, at, opts, base, report, notes>>
Did   == verdict' = "ok"
Broke == verdict' = "failed"

CmdExtract ==
    /\ Call /\ CanExtract(src)
    /\ \/ graph' = Whole(Extract(src)) /\ Did
       \/ graph' = Cut(Extract(src)) /\ Broke
    /\ UNCHANGED <<native, revived, tui>>
CmdConvert(to) ==
    /\ Call /\ Present(graph) /\ CanConvert(graph.g, to)
    /\ \/ graph' = Whole(Convert(graph.g, to)) /\ Did
       \/ graph' = Cut(Convert(graph.g, to)) /\ Broke
    /\ UNCHANGED <<native, revived, tui>>
CmdPatch ==
    /\ Call /\ Present(graph) /\ CanPatch(graph.g, cfg, Ver)
    /\ LET new == PatchGraph(graph.g, cfg, Ver) IN
         \/ graph' = [whole |-> graph.whole, g |-> new] /\ Did
         \/ new # graph.g /\ graph' = Cut(new) /\ Broke
    /\ UNCHANGED <<native, revived, tui>>
CmdAssemble ==
    /\ Call /\ Present(graph)
    /\ \E b \in BasesFor(src.end) :
         LET new == Assembled(b, calls + 1) IN
           \/ native' = new /\ Did
           \/ native' = CutProduct(new) /\ Broke
    /\ UNCHANGED <<graph, revived, tui>>
CmdRevive ==
    /\ Call /\ Revives(graph)
    /\ \E b \in BasesFor(src.end) :
         LET new == Grafted(b, calls + 1) IN
           \/ revived' = new /\ Did
           \/ revived' = CutProduct(new) /\ Broke
    /\ UNCHANGED <<graph, native, tui>>
CmdSwap ==
    /\ Call /\ Present(revived) /\ lib # NoLib /\ CanGraft(revived.tui, lib)
    /\ LET new == WithLib(revived, calls + 1) IN
         \/ tui' = new /\ Did
         \/ tui' = CutProduct(new) /\ Broke
    /\ UNCHANGED <<graph, native, revived>>

\* The user changes what the calls read.
Edit ==
    /\ at = "idle" /\ edits < MaxEdits /\ edits' = edits + 1
    /\ \/ lib' \in Libs \cup {NoLib} /\ UNCHANGED <<prebuilt, cfg>>
       \/ prebuilt' \in Prebuilts \cup {NoDir} /\ UNCHANGED <<lib, cfg>>
       \/ cfg' \in Configs /\ UNCHANGED <<lib, prebuilt>>
    /\ verdict' = "none"
    /\ UNCHANGED <<src, calls, at, opts, base, files, report, notes>>

All == ExtractStep \/ DetectStep \/ ConvertStep \/ PatchStep \/ AssembleStep
       \/ ReviveStep \/ VerifyStep \/ SwapStep \/ AssetsStep \/ Break
Command == CmdExtract \/ CmdConvert(RECORD_36) \/ CmdConvert(RECORD_52) \/ CmdPatch
           \/ CmdAssemble \/ CmdRevive \/ CmdSwap
Next == (\E nr, ne \in BOOLEAN : Start(nr, ne)) \/ All \/ Command \/ Edit

Spec == Init /\ [][Next]_vars

-----------------------------------------------------------------------------
(* Properties.                                                             *)

\* Every variable stays within its type; a graph that is whole ends with the
\* marker, and the Offsets of every graph tell where its parts are.
TypeOK ==
    /\ src \in Binaries /\ lib \in Libs \cup {NoLib} /\ cfg \in Configs
    /\ prebuilt \in Prebuilts \cup {NoDir}
    /\ calls \in 0..MaxCalls /\ edits \in 0..MaxEdits
    /\ at \in {"idle", "extract", "detect", "convert", "patch", "assemble",
               "revive", "verify", "swap", "assets"}
    /\ noRevive \in BOOLEAN /\ noExec \in BOOLEAN
    /\ base \in {NoBase} \cup BasesFor(src.end)
    /\ Present(graph) => /\ graph.whole \in BOOLEAN /\ graph.whole = graph.g.marker
                         /\ WellFormed(graph.g)
                         /\ graph.g.off.byte_count = Len(graph.g.bytes)
    /\ verdict \in {"none", "ok", "failed"}
    /\ {report, notes} \subseteq
         [call: 0..calls, tui: {"none", "absent", "pass", "unprobed", "fail"},
          assets: {"none", "skipped", "ok", "failed"}]

\* The graph that is extracted, converted and patched says what the upstream
\* graph says: the string data with the patches applied, and each record's 4
\* string pointers and 4 u8 in a long record.
Upstream == Extract(src)
Size == IF src.short THEN RECORD_36 ELSE RECORD_52
P == IF cfg.kind = "absent" THEN {} ELSE Selected(cfg, Ver)
Faithful(g) ==
    /\ Strings(g) = Strings(Patched(Upstream, P)) /\ Argv(g) = Argv(Upstream)
    /\ g.off.mod_len * Size = Upstream.off.mod_len * RECORD_52
    /\ \A k \in 0 .. (g.off.mod_len \div RECORD_52) - 1 :
         /\ \A j \in 1..8 : Records(g)[RECORD_52 * k + j] = Records(Upstream)[Size * k + j]
         /\ Records(g)[RECORD_52 * k + RECORD_52] = Records(Upstream)[Size * k + Size]
Ambiguous == src.short /\ Upstream.off.mod_len % RECORD_52 = 0

\* When "all" ends well its products are complete and of this call: the
\* graph on disk is faithful, the revived binary holds it, and it has run if
\* it was to run; the swap that the report calls done is in the tui binary;
\* what the packages take holds the prebuilt assets.  (A graph of short
\* records that is taken for one of long records is the exception; it does
\* not run.)
AllOk == at = "idle" /\ verdict = "ok" /\ report.call = calls
AllIsComplete ==
    AllOk =>
      /\ graph.whole /\ (~Ambiguous => Faithful(graph.g))
      /\ ~noRevive => /\ revived.whole /\ revived.made = calls /\ revived.of = graph
                      /\ ~noExec => Runs(revived)
      /\ (~noRevive /\ report.tui \in {"pass", "unprobed"}) =>
            tui.whole /\ tui.made = calls /\ tui.of = graph /\ tui.tui.lib = lib
      /\ (Section /\ prebuilt # NoDir /\ Present(Target)) =>
            \A a \in Assets : Target.slots[a].lib = prebuilt[a]

\* Whatever was cut short before, a product that is whole and onto which
\* revive_patch.py has grafted a graph holds one that is whole: none is grafted
\* by halves.  (The raw binary, which assemble makes of any graph, may hold half
\* of one, and so may a tui binary that was made from it.)
NothingFromTorn ==
    \A p \in {revived, tui} :
        (Present(p) /\ p.whole /\ p.mode # "raw") => p.of.whole

\* In no product is only a part of the assets swapped, or assets of two sets
\* of prebuilts mixed; no asset outgrows the slot it had upstream, and the
\* raw binary, whose hash the golden test compares, keeps the upstream ones.
AssetsOfOneSet ==
    /\ Present(native) => native.slots = src.slots
    /\ \A p \in {revived, tui} : Present(p) =>
         /\ p.slots = src.slots
            \/ \E set \in Prebuilts : \A a \in Assets : p.slots[a].lib = set[a]
         /\ \A a \in Assets :
              /\ p.slots[a].pad >= src.slots[a].pad
              /\ p.slots[a].pad + p.slots[a].lib.len
                   = src.slots[a].pad + src.slots[a].lib.len

=============================================================================
