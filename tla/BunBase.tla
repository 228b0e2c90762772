------------------------------ MODULE BunBase ------------------------------
(***************************************************************************)
(* tools/transplant/probe_assemble.py, resolve_bun_base and download_bun,  *)
(* and the half of transplant.py's prediction that judges the base: which  *)
(* android Bun a module graph is bound to.  A graph in the .bun section    *)
(* needs a base of the 1.4 series, one in the trailer a base of the 1.3    *)
(* series.  The candidates are what the cache holds, the version that      *)
(* bun-bind.json names, the latest release, and a built-in default.        *)
(*                                                                         *)
(* Calls follow one another over one cache.  Each may be cut short at any  *)
(* step; between them the user fills and empties the cache and edits       *)
(* bun-bind.json.                                                          *)
(***************************************************************************)
EXTENDS Integers, FiniteSets, Bases

CONSTANTS MaxVer,       \* Bun releases are numbered in their order
          TrailerMax,   \* the last release of the 1.3 series
          Default,      \* DEFAULT_BUN_VERSION
          DefaultMin,   \* the built-in min_base_for_section
          Binds,        \* what bun-bind.json may say; 0, FALSE: key missing
          Misnamed,     \* <<p, v>>: the user may put a file of release v at place p,
                        \* although it has the name of another release
          MaxCalls, MaxEdits   \* bounds on the calls, on the user's changes

Versions == 1..MaxVer

ASSUME BunAssumption ==
    /\ MaxVer \in Nat /\ TrailerMax \in Versions
    /\ Default \in 1..TrailerMax
    /\ DefaultMin \in Versions
    /\ Binds \subseteq [target: 0..MaxVer, min: 0..MaxVer, url: BOOLEAN]
    /\ Binds # {}
    /\ Misnamed \subseteq (0..MaxVer) \X Versions
    /\ MaxCalls \in Nat /\ MaxEdits \in Nat

\* Place v is <cache>/bun-<v>/bun beside <cache>/bun-<v>.zip; place 0 is
\* <cache>/bun beside the zip whose name bears no version.
Places  == 0..MaxVer
Formats == {"section", "trailer"}

\* An ELF that is not whole ends behind the version string (torn), before it
\* (mute), or has no byte at all (empty).
Parts  == {"whole", "torn", "mute", "empty"}
NoFile == [ver |-> 0, part |-> "none"]
Elfs   == [ver: Versions, part: Parts] \cup {NoFile}
Zips   == {"none", "cut", "whole"}
Whole(v) == [ver |-> v, part |-> "whole"]

Levels  == {"elf", "zip", "bun-bind", "github-latest", "default", "reuse", "legacy"}
Nothing == [level |-> "none", place |-> 0, ver |-> 0]
Results == [level: Levels, place: Places, ver: Versions] \cup {Nothing}
Steps   == {"idle", "local", "bun-bind", "github-latest", "default",
            "quarantine", "legacy"}
Candidates == {c \in [place: Places, kind: {"elf", "zip"}, ver: Versions] :
                   c.kind = "zip" => c.place = c.ver}
NEEDS_DOWNLOAD == 0

\* The release of a zip at p by its name or, at place 0, by the address that it
\* is downloaded from.
Own(p) == IF p = 0 THEN Default ELSE p

VARIABLES
    elfs,      \* the ELF at each place of the cache
    zips,      \* the zip at each place
    holds,     \* the release that a zip at each place is of
    bind,      \* bun-bind.json
    calls, edits,
    format,    \* graph_format of the call, "none" in the legacy call
    at,        \* its next level
    todo,      \* local candidates that fit and that it has not tried yet
    result,    \* what it has returned
    verdict,   \* how it ended
    \* history
    pred,      \* what predict_bun_base says as the call begins
    stumbled   \* a zip of the cache could not be extracted

cache == <<elfs, zips, holds>>
call  == <<format, at, todo, result, verdict, pred, stumbled>>
vars  == <<cache, bind, calls, edits, call>>

Init ==
    /\ elfs = [p \in Places |-> NoFile] /\ zips = [p \in Places |-> "none"]
    /\ holds = [p \in Places |-> Own(p)]
    /\ bind \in Binds
    /\ calls = 0 /\ edits = 0
    /\ format = "none" /\ at = "idle" /\ todo = {} /\ result = Nothing
    /\ verdict = "none" /\ stumbled = FALSE
    /\ pred = [base |-> NEEDS_DOWNLOAD, fatal |-> FALSE]

-----------------------------------------------------------------------------
(* What is in the cache, and what fits.                                    *)

\* mutant: the version string is looked for at the front of the file only
HeadOnly(f) == f.part \in {"whole", "torn"} /\ f.ver <= TrailerMax
\* bun_version_from_elf finds the version string, wherever it is.
Readable(f) == f.part \in {"whole", "torn"}

\* _scan_local_buns: all ELFs whose version can be read, all zips whose name
\* bears one.  The versions are read before anything is tried.
Scan(e, z) ==
    {[place |-> p, kind |-> "elf", ver |-> e[p].ver] :
         p \in {q \in Places : Readable(e[q])}}
    \cup {[place |-> v, kind |-> "zip", ver |-> v] :
              v \in {w \in Versions : z[w] # "none"}}

\* The order of sorted(): bun, bun-<v>, bun-<v>.zip, for v ascending.
Rank(c)  == 2 * c.place + (IF c.kind = "zip" THEN 1 ELSE 0)
First(S) == CHOOSE c \in S : \A d \in S : Rank(c) <= Rank(d)

\* mutant: a section graph takes every newer base, a trailer graph any base
AnyTrailer(v, f, min) == f = "section" => v >= min
Satisfies(v, f, min) == IF f = "section" THEN v >= min ELSE v <= TrailerMax

Min    == IF bind.min = 0 THEN DefaultMin ELSE bind.min
Target == IF bind.target = 0 THEN Default ELSE bind.target
Fitting(f) == {c \in Scan(elfs, zips) : Satisfies(c.ver, f, Min)}

\* mutant: the newest base that fits is predicted
Newest(f) ==
    LET vs == {c.ver : c \in Fitting(f)}
    IN  [base  |-> IF vs = {} THEN NEEDS_DOWNLOAD
                   ELSE CHOOSE v \in vs : \A w \in vs : w <= v,
         fatal |-> \/ f = "section" /\ Min <= TrailerMax
                   \/ vs = {} /\ ~bind.url]
\* predict_bun_base: the base it names, and whether it finds a fatal fault.
Predict(f) ==
    LET local == Fitting(f)
    IN  [base  |-> IF local = {} THEN NEEDS_DOWNLOAD ELSE First(local).ver,
         fatal |-> \/ f = "section" /\ Min <= TrailerMax
                   \/ local = {} /\ ~bind.url]

-----------------------------------------------------------------------------
(* The steps of a call.                                                    *)

\* resolve_bun_base is entered; the versions in the cache are read.
Start(f) ==
    /\ at = "idle" /\ calls < MaxCalls
    /\ calls' = calls + 1
    /\ format' = f /\ at' = "local" /\ todo' = Fitting(f)
    /\ result' = Nothing /\ verdict' = "none" /\ stumbled' = FALSE
    /\ pred' = Predict(f)
    /\ UNCHANGED <<cache, bind, edits>>

\* download_bun without a format.
StartLegacy ==
    /\ at = "idle" /\ calls < MaxCalls
    /\ calls' = calls + 1
    /\ format' = "none" /\ at' = "legacy" /\ todo' = {}
    /\ result' = Nothing /\ verdict' = "none" /\ stumbled' = FALSE
    /\ UNCHANGED <<cache, bind, edits, pred>>

Return(p, v, level) ==
    /\ result' = [level |-> level, place |-> p, ver |-> v]
    /\ at' = "idle" /\ todo' = {} /\ verdict' = "OK"
    /\ UNCHANGED stumbled
GoOn(next) ==
    /\ at' = next /\ UNCHANGED <<result, verdict>>

\* mutant: whatever is downloaded is the default release
Hardcoded(p) == Default
\* The release of what is unpacked at p; the version that _extract_bun_zip
\* finds in it is written down at most, never compared with the one expected.
Content(p) == holds[p]

\* _extract_bun_zip.  A cut zip is noticed before the ELF is opened; once it
\* is open a failing write leaves part of the ELF behind.
Extracts(p) == elfs' = [elfs EXCEPT ![p] = Whole(Content(p))]
FailsToExtract(p, z) ==
    \/ UNCHANGED elfs
    \/ /\ z = "whole"
       /\ \E part \in Parts \ {"whole"} :
            elfs' = [elfs EXCEPT ![p] = [ver |-> Content(p), part |-> part]]

\* Level 1, the next local candidate that fits: an ELF is taken as it is.
TakeElf ==
    /\ at = "local" /\ todo # {} /\ First(todo).kind = "elf"
    /\ Return(First(todo).place, First(todo).ver, "elf")
    /\ UNCHANGED <<cache, bind, calls, edits, format, pred>>

\* A zip that cannot be extracted is passed over.
PassesOver(v) ==
    /\ FailsToExtract(v, zips[v])
    /\ todo' = {c \in todo : c # First(todo)} /\ stumbled' = TRUE /\ GoOn("local")
TakeZip ==
    /\ at = "local" /\ todo # {} /\ First(todo).kind = "zip"
    /\ LET v == First(todo).place IN
         \/ zips[v] = "whole" /\ Extracts(v) /\ Return(v, v, "zip")
         \/ PassesOver(v)
    /\ UNCHANGED <<zips, holds, bind, calls, edits, format, pred>>

NoneLeft ==
    /\ at = "local" /\ todo = {}
    /\ GoOn("bun-bind")
    /\ UNCHANGED <<cache, bind, calls, edits, format, todo, pred, stumbled>>

\* The zip is downloaded only when there is none; a download that breaks off
\* leaves a zip that is cut.
Fetched(z) == IF z = "none" THEN Zips ELSE {z}

\* One level that downloads: every error sends the call to the next level.
FetchFor(p, level, next) ==
    /\ \E z \in Fetched(zips[p]) :
         /\ zips' = [zips EXCEPT ![p] = z]
         /\ \/ z = "whole" /\ Extracts(p) /\ Return(p, Own(p), level)
            \/ FailsToExtract(p, z) /\ GoOn(next) /\ UNCHANGED <<todo, stumbled>>
    /\ UNCHANGED <<holds, bind, calls, edits, format, pred>>
Skip(next) ==
    /\ GoOn(next)
    /\ UNCHANGED <<cache, bind, calls, edits, format, todo, pred, stumbled>>

\* Level 2, the target of bun-bind.json.
TryTarget ==
    /\ at = "bun-bind"
    /\ IF Satisfies(Target, format, Min)
         THEN FetchFor(Target, "bun-bind", "github-latest")
         ELSE Skip("github-latest")

\* Level 3: the probe says which release is the latest, or fails.
TryLatest ==
    /\ at = "github-latest"
    /\ \/ \E v \in Versions : /\ Satisfies(v, format, Min)
                              /\ FetchFor(v, "github-latest", "default")
       \/ Skip("default")

\* Level 4, for a trailer graph: <cache>/bun if it has a byte in it, returned
\* as the default release, or the download of the default release.
Reuse(level) ==
    /\ elfs[0] # NoFile /\ elfs[0].part # "empty"
    /\ Return(0, Default, level)
    /\ UNCHANGED <<cache, bind, calls, edits, format, pred>>
\* mutant: the default replaces whatever <cache>/bun is
NeverReused == TRUE
NotReusable == elfs[0] = NoFile \/ elfs[0].part = "empty"
\* mutant: a section graph may get the default, too
AnyFormat ==
    /\ at = "default"
    /\ Reuse("reuse") \/ (NotReusable /\ FetchFor(0, "default", "quarantine"))
TryDefault ==
    /\ at = "default"
    /\ \/ format = "section" /\ Skip("quarantine")
       \/ format = "trailer" /\ Reuse("reuse")
       \/ format = "trailer" /\ NotReusable /\ FetchFor(0, "default", "quarantine")

End(v) ==
    /\ at' = "idle" /\ verdict' = v /\ todo' = {}
    /\ UNCHANGED <<cache, bind, calls, edits, format, result, pred, stumbled>>
\* bun-base.QUARANTINE.json and ResolveError.
Quarantine == at = "quarantine" /\ End("QUARANTINE")

\* The legacy call: the same two ways, and its errors are not caught.
TakeDefault ==
    /\ at = "legacy"
    /\ \/ Reuse("legacy")
       \/ NotReusable /\ FetchFor(0, "legacy", "idle")

\* The call is killed.  What the last step has left half written stays.
Killed == at # "idle" /\ End("killed")

-----------------------------------------------------------------------------
(* Between the calls.                                                      *)

\* The caller has used the result of the last call by then.
Edit ==
    /\ at = "idle" /\ edits < MaxEdits /\ edits' = edits + 1
    /\ result' = Nothing /\ verdict' = "none"
    /\ UNCHANGED <<calls, format, at, todo, pred, stumbled>>
PlaceElf ==
    /\ Edit
    /\ \E p \in Places, v \in Versions, part \in Parts \ {"empty"} :
         /\ p \in {0, v} \/ <<p, v>> \in Misnamed
         /\ elfs' = [elfs EXCEPT ![p] = [ver |-> v, part |-> part]]
    /\ UNCHANGED <<zips, holds, bind>>
PlaceZip ==
    /\ Edit
    /\ \E p \in Places, v \in Versions, z \in Zips \ {"none"} :
         /\ v = Own(p) \/ <<p, v>> \in Misnamed
         /\ zips' = [zips EXCEPT ![p] = z] /\ holds' = [holds EXCEPT ![p] = v]
    /\ UNCHANGED <<elfs, bind>>
RemoveZip ==
    /\ Edit
    /\ \E p \in Places :
         /\ zips' = [zips EXCEPT ![p] = "none"] /\ holds' = [holds EXCEPT ![p] = Own(p)]
    /\ UNCHANGED <<elfs, bind>>
RemoveElf ==
    /\ Edit
    /\ \E p \in Places : elfs' = [elfs EXCEPT ![p] = NoFile]
    /\ UNCHANGED <<zips, holds, bind>>
EditBind ==
    /\ Edit /\ bind' \in Binds
    /\ UNCHANGED cache

Resolve == TakeElf \/ TakeZip \/ NoneLeft \/ TryTarget \/ TryLatest \/ TryDefault
           \/ Quarantine \/ TakeDefault
User == PlaceElf \/ PlaceZip \/ RemoveElf \/ RemoveZip \/ EditBind
Next == (\E f \in Formats : Start(f)) \/ StartLegacy \/ Resolve \/ Killed \/ User

Spec == Init /\ [][Next]_vars

-----------------------------------------------------------------------------
(* Properties.                                                             *)

\* Every variable stays within its type, and as long as the user puts nothing
\* under the name of another release, each ELF below <cache>/bun-<v> and each
\* zip with v in its name is of release v.
TypeOK ==
    /\ elfs \in [Places -> Elfs] /\ zips \in [Places -> Zips]
    /\ holds \in [Places -> Versions]
    /\ Misnamed = {} => /\ \A v \in Versions : elfs[v].ver \in {0, v}
                        /\ \A p \in Places : holds[p] = Own(p)
    /\ bind \in Binds
    /\ calls \in 0..MaxCalls /\ edits \in 0..MaxEdits
    /\ format \in Formats \cup {"none"} /\ at \in Steps
    /\ todo \subseteq Candidates
    /\ result \in Results
    /\ verdict \in {"none", "OK", "QUARANTINE", "killed"}
    /\ pred \in [base: 0..MaxVer, fatal: BOOLEAN]
    /\ stumbled \in BOOLEAN

\* If the names in the cache are true: through every level but the reuse of
\* <cache>/bun, what resolve_bun_base returns is an ELF of the release it says,
\* that fits the format by the pairing rule; and it is whole unless the call
\* found it in the cache.
Paired(v) == IF format = "section" THEN v >= Min ELSE v <= TrailerMax
ClaimsTrue ==
    Misnamed = {} /\ result.level \notin {"none", "reuse", "legacy"}
      => /\ elfs[result.place].ver = result.ver
         /\ Paired(result.ver)
         /\ result.level # "elf" => elfs[result.place].part = "whole"

\* What predict_bun_base says from the cache is what the chain then does: the
\* base it names is the one returned, unless a zip could not be extracted or
\* the call was killed, and NEEDS_DOWNLOAD means that no local base is.
PredictionHolds ==
    (verdict \in {"OK", "QUARANTINE"} /\ format # "none")
      => IF pred.base = NEEDS_DOWNLOAD THEN result.level \notin {"elf", "zip"}
         ELSE (result.level \in {"elf", "zip"} /\ result.ver = pred.base) \/ stumbled

\* The chain gives up only when no whole ELF in the cache fits: not one it
\* found, and not one that it unpacked or downloaded on the way.
RefusesOnlyWithoutBase ==
    verdict = "QUARANTINE" =>
        \A p \in Places : elfs[p].part = "whole" => ~Paired(elfs[p].ver)

\* If the names are true, no call writes over a whole ELF: neither the one the user put at
\* <cache>/bun, whatever its release, nor one that an earlier call unpacked.
WholeIsKept ==
    [][Misnamed = {} /\ at # "idle" =>
         \A p \in Places : elfs[p].part = "whole" => elfs'[p] = elfs[p]]_vars

\* What level 4 finds at <cache>/bun and returns as the default release is
\* never a base that fits: level 1 would have returned that.
ReuseIsUnpaired ==
    result.level = "reuse" =>
        ~(elfs[0].part = "whole" /\ Paired(elfs[0].ver))

-----------------------------------------------------------------------------
(* The chain keeps what Transplant relies on.                              *)

\* An answer as the pipeline sees it: the series of the ELF, and the one that
\* its version string tells.
Series(v)  == IF v <= TrailerMax THEN 3 ELSE 4
BaseAt(f)  == [series |-> Series(f.ver), told |-> IF Readable(f) THEN Series(f.ver) ELSE 0]
Answered   == result # Nothing /\ format # "none"

\* The refinement mapping.  A call without a format asks nothing.
Asked  == IF at = "idle" /\ ~Answered THEN "none" ELSE format
Given  == IF Answered THEN BaseAt(elfs[result.place]) ELSE NoBase
Choice == INSTANCE BaseChoice WITH asked <- Asked, given <- Given

\* The chain implements BaseChoice, if the names in the cache are true and the
\* minimum of bun-bind.json is of the 1.4 series: a question gets at most one
\* answer, of BasesFor the format, and the answer stands as the pipeline sees
\* it until it has been used or the next question is asked.
ImplementsChoice == Choice!ChoiceSpec
=============================================================================
