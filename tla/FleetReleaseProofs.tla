------------------------- MODULE FleetReleaseProofs -------------------------
(***************************************************************************)
(* What SHA256SUMS.txt says is what the release holds: for any number of   *)
(* versions, machines and runs.                                            *)
(***************************************************************************)
EXTENDS FleetRelease, TLAPS

\* The end of a run, whichever way it comes.
Ends(p) == NothingToList(p) \/ WriteSums(p) \/ WriteFails(p) \/ Crash(p)

JobStep(p, v) ==
    Pack(p, v) \/ UploadNamed(p, v) \/ UploadAsOutXz(p, v) \/ Done(p, v) \/ NotDone(p, v)

\* A checksum is a number, and None stands beside them.
LEMMA ShaFacts == None \in Shas /\ Shas \subseteq Nat /\ None \in Nat
  BY ReleaseAssumption DEF Shas, None

\* The tables a pusher starts with have their types.
LEMMA BlankFacts ==
    /\ Blank("todo") \in [Vers -> {"pre", "todo", "packed", "uploaded", "done", "failed"}]
    /\ Blank(None) \in [Vers -> Shas]
    /\ [n \in Lines |-> None] \in [Lines -> Nat]
  BY ShaFacts DEF Blank

\* What a pusher gives up when it exits (its tables) is well typed.
LEMMA ExitType ==
  ASSUME TypeOK, NEW p \in Pushers, Exit(p)
  PROVE  /\ pc' \in [Pushers -> {"idle", "work", "sums", "merge"}]
         /\ vst' \in [Pushers -> [Vers -> {"pre", "todo", "packed", "uploaded", "done", "failed"}]]
         /\ out' \in [Pushers -> [Vers -> Shas]]
         /\ sha' \in [Pushers -> [Vers -> Shas]]
         /\ existing' \in [Pushers -> [Lines -> Nat]]
  BY BlankFacts DEF Exit, TypeOK

\* The SHA256SUMS a run merges is a table of numbers again.
LEMMA MergedType ==
  ASSUME TypeOK, NEW p \in Pushers
  PROVE  Merged(p) \in [Lines -> Nat]
<1>1. \A n \in New(p, existing[p]) : sha[p][n] \in Nat
  BY ShaFacts DEF New, Finished, TypeOK
<1>2. \A n \in Lines : existing[p][n] \in Nat
  BY DEF TypeOK
<1>. QED BY <1>1, <1>2 DEF Merged

\* The state before the first pusher starts is well typed.
LEMMA InitTypeOK == Init => TypeOK
<1>. SUFFICES ASSUME Init PROVE TypeOK
  OBVIOUS
<1>1. /\ pc \in [Pushers -> {"idle", "work", "sums", "merge"}]
      /\ faults \in SUBSET Faults
      /\ assets \in [Vers -> Shas]
  BY DEF Init
<1>2. sums \in [Lines -> Nat]
  BY ShaFacts DEF Init
<1>3. /\ vst \in [Pushers -> [Vers -> {"pre", "todo", "packed", "uploaded", "done", "failed"}]]
      /\ out \in [Pushers -> [Vers -> Shas]]
      /\ sha \in [Pushers -> [Vers -> Shas]]
      /\ existing \in [Pushers -> [Lines -> Nat]]
  BY BlankFacts DEF Init
<1>. QED BY <1>1, <1>2, <1>3 DEF TypeOK

\* The steps of a whole run (discover, read SHA256SUMS, merge) keep the types.
LEMMA RunTypeOK ==
  ASSUME TypeOK, NEW p \in Pushers,
         Discover(p) \/ Leave(p) \/ ReadSums(p) \/ Ends(p)
  PROVE  TypeOK'
<1>1. CASE Discover(p)
  BY <1>1 DEF Discover, Discovered, Go, TypeOK
<1>2. CASE Leave(p)
  BY <1>2 DEF Leave, Go, TypeOK, Faults
<1>3. CASE ReadSums(p)
  <2>1. PICK read \in {sums, [n \in Lines |-> None]} :
            existing' = [existing EXCEPT ![p] = read]
    BY <1>3 DEF ReadSums
  <2>2. read \in [Lines -> Nat]
    BY <2>1, BlankFacts DEF TypeOK
  <2>. QED BY <1>3, <2>1, <2>2 DEF ReadSums, Go, TypeOK
<1>4. CASE NothingToList(p)
  BY <1>4, ExitType DEF NothingToList, TypeOK
<1>5. CASE WriteSums(p)
  BY <1>5, ExitType, MergedType DEF WriteSums, TypeOK, Faults
<1>6. CASE WriteFails(p) \/ Crash(p)
  <2>1. sums' \in [Lines -> Nat]
    BY <1>6, BlankFacts DEF WriteFails, Crash, Unwritten, TypeOK
  <2>. QED BY <1>6, <2>1, ExitType DEF WriteFails, Crash, TypeOK, Faults
<1>. QED BY <1>1, <1>2, <1>3, <1>4, <1>5, <1>6 DEF Ends

\* The steps of one version (pack, upload, delete, fail) keep the types.
LEMMA JobTypeOK ==
  ASSUME TypeOK, NEW p \in Pushers, NEW v \in Vers, JobStep(p, v)
  PROVE  TypeOK'
<1>1. CASE Pack(p, v)
  <2>1. PICK b \in Builds :
            /\ out' = [out EXCEPT ![p][v] = b]
            /\ sha' = [sha EXCEPT ![p][v] = b] \/ sha' = sha
            /\ faults' = faults \/ faults' = faults \cup {"output"}
    BY <1>1 DEF Pack
  <2>2. vst' = [vst EXCEPT ![p][v] = "packed"] /\ UNCHANGED <<assets, sums, pc, existing>>
    BY <1>1 DEF Pack, Step
  <2>3. b \in Shas
    BY DEF Shas
  <2>a. [sha EXCEPT ![p][v] = b] \in [Pushers -> [Vers -> Shas]]
    BY <2>3 DEF TypeOK
  <2>b. sha' \in [Pushers -> [Vers -> Shas]]
    BY <2>1, <2>a DEF TypeOK
  <2>4. out' \in [Pushers -> [Vers -> Shas]]
    BY <2>1, <2>3 DEF TypeOK
  <2>5. vst' \in [Pushers -> [Vers -> {"pre", "todo", "packed", "uploaded", "done", "failed"}]]
    BY <2>2 DEF TypeOK
  <2>6. faults' \in SUBSET Faults
    BY <2>1 DEF TypeOK, Faults
  <2>. QED BY <2>2, <2>b, <2>4, <2>5, <2>6 DEF TypeOK
<1>2. CASE UploadNamed(p, v)
  BY <1>2 DEF UploadNamed, Step, TypeOK
<1>3. CASE UploadAsOutXz(p, v)
  BY <1>3 DEF UploadAsOutXz, Step, TypeOK, Faults
<1>4. CASE Done(p, v)
  BY <1>4, ShaFacts DEF Done, Step, TypeOK
<1>5. CASE NotDone(p, v)
  BY <1>5, ShaFacts DEF NotDone, Step, TypeOK, Faults
<1>. QED BY <1>1, <1>2, <1>3, <1>4, <1>5 DEF JobStep

\* A step belongs to a pusher's run, to one of its versions, or changes nothing.
LEMMA NextCases ==
  ASSUME [Next]_vars
  PROVE  \/ \E p \in Pushers : Discover(p) \/ Leave(p) \/ ReadSums(p) \/ Ends(p)
         \/ \E p \in Pushers, v \in Vers : JobStep(p, v)
         \/ UNCHANGED vars
  BY DEF Next, Ends, JobStep

\* Every variable keeps its range.
THEOREM ReleaseTypeCorrect == Spec => []TypeOK
<1>1. TypeOK /\ [Next]_vars => TypeOK'
  <2>1. TypeOK /\ UNCHANGED vars => TypeOK'
    BY DEF vars, TypeOK
  <2>. QED BY <2>1, NextCases, RunTypeOK, JobTypeOK
<1>. QED BY <1>1, InitTypeOK, PTL DEF Spec

----------------------------------------------------------------------------
\* As long as no output went astray, a run knows of every version it has
\* packed what the release will have, and of every line it has read what the
\* release has.
Known(p, v) ==
    /\ vst[p][v] = "packed" => sha[p][v] = out[p][v] /\ out[p][v] # None
    /\ vst[p][v] = "uploaded" =>
          sha[p][v] = out[p][v] /\ assets[v] = out[p][v] /\ out[p][v] # None
    /\ vst[p][v] = "done" => assets[v] = sha[p][v] /\ sha[p][v] # None
    /\ existing[p][v] # None => existing[p][v] = assets[v]

Listed(v) == sums[v] # None => sums[v] = assets[v]

ReleaseInv ==
    "output" \notin faults =>
        /\ \A v \in Vers : Listed(v)
        /\ \A p \in Pushers, v \in Vers : Known(p, v)

\* Nothing is listed and nothing is known before the first run.
LEMMA InitReleaseInv == Init => ReleaseInv
  BY DEF Init, ReleaseInv, Known, Listed, Blank, Lines

\* The name of a version is given away once.
LEMMA AssetsKept ==
  ASSUME TypeOK, [Next]_vars, NEW v \in Vers, assets[v] # None
  PROVE  assets'[v] = assets[v]
<1>1. ASSUME NEW p \in Pushers, NEW w \in Vers, JobStep(p, w)
      PROVE  assets'[v] = assets[v]
  BY <1>1 DEF JobStep, Pack, UploadNamed, UploadAsOutXz, Done, NotDone, TypeOK
<1>2. ASSUME NEW p \in Pushers, Discover(p) \/ Leave(p) \/ ReadSums(p) \/ Ends(p)
      PROVE  assets' = assets
  BY <1>2 DEF Discover, Leave, ReadSums, Ends, NothingToList, WriteSums, WriteFails, Crash
<1>3. UNCHANGED vars => assets' = assets
  BY DEF vars
<1>. QED BY <1>1, <1>2, <1>3, NextCases

\* A step that is another run's, or about another version, changes nothing
\* that Known(q, w) speaks of but the asset.
LEMMA KnownKept ==
  ASSUME TypeOK, [Next]_vars, NEW q \in Pushers, NEW w \in Vers, Known(q, w),
         vst'[q][w] = vst[q][w], out'[q][w] = out[q][w], sha'[q][w] = sha[q][w],
         existing'[q][w] = existing[q][w]
  PROVE  Known(q, w)'
  BY AssetsKept DEF Known

\* A pusher that exits forgets its own books and disturbs nobody else's.
LEMMA ExitKnown ==
  ASSUME TypeOK, NEW p \in Pushers, Exit(p), [Next]_vars,
         \A q \in Pushers, w \in Vers : Known(q, w)
  PROVE  \A q \in Pushers, w \in Vers : Known(q, w)'
<1>. TAKE q \in Pushers, w \in Vers
<1>1. CASE q = p
  <2>1. vst'[p][w] = "todo" /\ existing'[p][w] = None
    BY DEF Exit, TypeOK, Blank, Lines
  <2>. QED BY <1>1, <2>1 DEF Known
<1>2. CASE q # p
  BY <1>2, KnownKept DEF Exit, TypeOK
<1>. QED BY <1>1, <1>2

\* A merge writes only sums that are known, so the invariant survives it.
LEMMA RunReleaseInv ==
  ASSUME TypeOK, ReleaseInv, [Next]_vars, NEW p \in Pushers,
         Discover(p) \/ Leave(p) \/ ReadSums(p) \/ Ends(p)
  PROVE  ReleaseInv'
<1>. SUFFICES ASSUME "output" \notin faults'
             PROVE  /\ \A v \in Vers : Listed(v)'
                    /\ \A q \in Pushers, w \in Vers : Known(q, w)'
  BY DEF ReleaseInv
<1>1. "output" \notin faults /\ assets' = assets
  BY DEF Discover, Leave, ReadSums, Ends, NothingToList, WriteSums, WriteFails, Crash
<1>2. \A v \in Vers : Listed(v)
  BY <1>1 DEF ReleaseInv
<1>3. \A q \in Pushers, w \in Vers : Known(q, w)
  BY <1>1 DEF ReleaseInv
<1>4. CASE Discover(p)
  <2>1. \A v \in Vers : Listed(v)'
    BY <1>1, <1>2, <1>4 DEF Discover, Listed
  <2>2. \A w \in Vers : vst'[p][w] \in {"pre", "todo"}
    BY <1>4 DEF Discover, Discovered, TypeOK
  <2>3. \A w \in Vers : Known(p, w)'
    BY <1>1, <1>3, <1>4, <2>2 DEF Discover, Known
  <2>4. \A q \in Pushers \ {p}, w \in Vers : Known(q, w)'
    BY <1>3, <1>4, KnownKept DEF Discover, TypeOK
  <2>. QED BY <2>1, <2>3, <2>4
<1>5. CASE Leave(p)
  <2>1. \A v \in Vers : Listed(v)'
    BY <1>1, <1>2, <1>5 DEF Leave, Listed
  <2>2. \A q \in Pushers, w \in Vers : Known(q, w)'
    BY <1>3, <1>5, KnownKept DEF Leave
  <2>. QED BY <2>1, <2>2
<1>6. CASE ReadSums(p)
  <2>1. PICK read \in {sums, [n \in Lines |-> None]} :
            existing' = [existing EXCEPT ![p] = read]
    BY <1>6 DEF ReadSums
  <2>2. UNCHANGED <<assets, sums, vst, out, sha>>
    BY <1>6 DEF ReadSums
  <2>3. \A w \in Vers : read[w] # None => read[w] = assets[w]
    BY <1>2 DEF Listed, Lines
  <2>4. \A w \in Vers : Known(p, w)'
    BY <1>3, <2>1, <2>2, <2>3 DEF Known, TypeOK
  <2>5. \A q \in Pushers \ {p}, w \in Vers : Known(q, w)'
    BY <1>3, <2>1, <2>2, KnownKept DEF TypeOK
  <2>. QED BY <1>2, <2>2, <2>4, <2>5 DEF Listed
<1>7. CASE Ends(p)
  <2>1. Exit(p)
    BY <1>7 DEF Ends, NothingToList, WriteSums, WriteFails, Crash
  <2>2. sums' = sums \/ sums' = Merged(p) \/ sums' = [n \in Lines |-> None]
    BY <1>7 DEF Ends, NothingToList, WriteSums, WriteFails, Crash, Unwritten
  <2>3. ASSUME NEW v \in Vers, sums' = Merged(p) PROVE Listed(v)'
    <3>1. CASE v \in New(p, existing[p])
      <4>1. sums'[v] = sha[p][v] /\ vst[p][v] = "done"
        BY <2>3, <3>1 DEF Merged, New, Finished, Lines
      <4>. QED BY <1>1, <1>3, <4>1 DEF Known, Listed
    <3>2. CASE v \notin New(p, existing[p])
      BY <1>1, <1>3, <2>3, <3>2 DEF Merged, Known, Listed, Lines
    <3>. QED BY <3>1, <3>2
  <2>4. ASSUME NEW v \in Vers, sums' = [n \in Lines |-> None] PROVE Listed(v)'
    BY <2>4 DEF Listed, Lines
  <2>. QED BY <1>1, <1>2, <1>3, <2>1, <2>2, <2>3, <2>4, ExitKnown DEF Listed
<1>. QED BY <1>4, <1>5, <1>6, <1>7

\* A version's steps leave each listed sum equal to its published asset's.
LEMMA JobReleaseInv ==
  ASSUME TypeOK, ReleaseInv, [Next]_vars, NEW p \in Pushers, NEW v \in Vers, JobStep(p, v)
  PROVE  ReleaseInv'
<1>. SUFFICES ASSUME "output" \notin faults'
             PROVE  /\ \A w \in Vers : Listed(w)'
                    /\ \A q \in Pushers, w \in Vers : Known(q, w)'
  BY DEF ReleaseInv
<1>1. "output" \notin faults /\ ~UploadAsOutXz(p, v)
  BY DEF JobStep, Pack, UploadNamed, UploadAsOutXz, Done, NotDone
<1>2. \A w \in Vers : Listed(w)
  BY <1>1 DEF ReleaseInv
<1>3. \A q \in Pushers, w \in Vers : Known(q, w)
  BY <1>1 DEF ReleaseInv
<1>4. UNCHANGED <<sums, existing>>
  BY DEF JobStep, Pack, UploadNamed, UploadAsOutXz, Done, NotDone
<1>5. \A w \in Vers : Listed(w)'
  BY <1>2, <1>4, AssetsKept DEF Listed
<1>6. ASSUME NEW q \in Pushers, NEW w \in Vers, q # p \/ w # v
      PROVE  Known(q, w)'
  <2>1. vst'[q][w] = vst[q][w] /\ out'[q][w] = out[q][w] /\ sha'[q][w] = sha[q][w]
    BY <1>6 DEF JobStep, Pack, UploadNamed, UploadAsOutXz, Done, NotDone, Step, TypeOK
  <2>. QED BY <1>3, <1>4, <2>1, KnownKept
<1>7. Known(p, v)'
  <2>1. existing'[p][v] # None => existing'[p][v] = assets'[v]
    BY <1>3, <1>4, AssetsKept DEF Known
  <2>2. CASE Pack(p, v)
    <3>1. PICK b \in Builds :
              /\ out' = [out EXCEPT ![p][v] = b]
              /\ sha' = [sha EXCEPT ![p][v] = b]
      BY <2>2 DEF Pack
    <3>2. vst'[p][v] = "packed" /\ out'[p][v] = b /\ sha'[p][v] = b
      BY <2>2, <3>1 DEF Pack, Step, TypeOK
    <3>. QED BY <2>1, <3>2, ReleaseAssumption DEF Known, None
  <2>3. CASE UploadNamed(p, v)
    <3>1. /\ vst[p][v] = "packed" /\ vst'[p][v] = "uploaded"
          /\ out' = out /\ sha' = sha /\ assets'[v] = out[p][v]
      BY <2>3 DEF UploadNamed, Step, TypeOK
    <3>. QED BY <1>3, <2>1, <3>1 DEF Known
  <2>4. CASE Done(p, v)
    <3>1. /\ vst[p][v] = "uploaded" /\ vst'[p][v] = "done"
          /\ sha' = sha /\ assets' = assets
      BY <2>4 DEF Done, Step, TypeOK
    <3>. QED BY <1>3, <2>1, <3>1 DEF Known
  <2>5. CASE NotDone(p, v)
    <3>1. vst'[p][v] \in {"todo", "failed"}
      BY <2>5 DEF NotDone, Step, TypeOK
    <3>. QED BY <2>1, <3>1 DEF Known
  <2>. QED BY <1>1, <2>2, <2>3, <2>4, <2>5 DEF JobStep
<1>. QED BY <1>5, <1>6, <1>7

\* The inductive invariant of what the runs know about the release.
THEOREM ReleaseInvariant == Spec => []ReleaseInv
<1>1. TypeOK /\ ReleaseInv /\ [Next]_vars => ReleaseInv'
  <2>1. UNCHANGED vars /\ ReleaseInv => ReleaseInv'
    BY DEF vars, ReleaseInv, Known, Listed
  <2>. QED BY <2>1, NextCases, RunReleaseInv, JobReleaseInv
<1>. QED BY <1>1, InitReleaseInv, ReleaseTypeCorrect, PTL DEF Spec

\* As long as every output goes where the code means it to go, each line about
\* a version is the sha of its asset, whatever runs die, overlap or cannot
\* read the lines that are there.
THEOREM SumsMatchAssets == Spec => []ListedIsPublished
<1>1. ReleaseInv => ListedIsPublished
  BY DEF ReleaseInv, Listed, ListedIsPublished
<1>. QED BY <1>1, ReleaseInvariant, PTL

\* What release_crosscheck looks for, a version that is done without its asset,
\* comes of nothing but an output that went astray: not of a second run, a
\* crash, or a download that failed.
DoneUnlessStray == "output" \notin faults => DoneIsOnRelease

\* However many runs there are, they overlap and they die: DONE without an
\* asset means a stray output.
THEOREM DoneIsOnlyLostAstray == Spec => []DoneUnlessStray
<1>1. ReleaseInv => DoneUnlessStray
  BY DEF ReleaseInv, Known, DoneIsOnRelease, DoneUnlessStray
<1>. QED BY <1>1, ReleaseInvariant, PTL

----------------------------------------------------------------------------
(* What is not listed yet is carried by a run.  NothingUnlisted looks at    *)
(* the release when no run is there, and says nothing of what a run must    *)
(* still know until then: an asset that has no line is known, with its sha, *)
(* to a run that will come to update_checksums().                           *)

Carries(p, v) ==
    /\ pc[p] \in {"work", "sums", "merge"}
    /\ vst[p][v] \in (IF pc[p] = "work" THEN {"uploaded", "done"} ELSE {"done"})
    /\ sha[p][v] # None

Accounted(v) == assets[v] # None => sums[v] # None \/ \E p \in Pushers : Carries(p, v)

AccountInv ==
    faults = {} =>
        /\ \A v \in Vers : Accounted(v)
        /\ \A n \in Others : sums[n] # None

\* What has gone wrong stays on record.
LEMMA FaultsStay ==
  ASSUME [Next]_vars
  PROVE  faults \subseteq faults'
<1>1. ASSUME NEW p \in Pushers, NEW v \in Vers, JobStep(p, v)
      PROVE  faults \subseteq faults'
  BY <1>1 DEF JobStep, Pack, UploadNamed, UploadAsOutXz, Done, NotDone
<1>2. ASSUME NEW p \in Pushers, Discover(p) \/ Leave(p) \/ ReadSums(p) \/ Ends(p)
      PROVE  faults \subseteq faults'
  BY <1>2 DEF Discover, Leave, ReadSums, Ends, NothingToList, WriteSums, WriteFails, Crash
<1>. QED BY <1>1, <1>2, NextCases DEF vars

\* Before the first run every asset has its line.
LEMMA InitAccount == Init => AccountInv
  BY DEF Init, AccountInv, Accounted

\* A run that ends leaves no asset without a line and no line behind: it found
\* every version it finished listed, or has listed it in a copy that is current.
LEMMA EndAccount ==
  ASSUME TypeOK, AccountInv, NEW p \in Pushers, Ends(p), faults' = {}, faults = {}
  PROVE  AccountInv'
<1>1. assets' = assets /\ pc[p] \in {"sums", "merge"}
  BY DEF Ends, NothingToList, WriteSums, WriteFails, Crash
<1>2. \A q \in Pushers \ {p}, w \in Vers : Carries(q, w) => Carries(q, w)'
  BY DEF Ends, NothingToList, WriteSums, WriteFails, Crash, Exit, Carries, TypeOK
<1>3. \A v \in Vers : Carries(p, v) => v \in Finished(p)
  BY <1>1 DEF Carries, Finished
<1>4. CASE NothingToList(p)
  <2>1. sums' = sums /\ \A v \in Finished(p) : sums[v] # None
    BY <1>4 DEF NothingToList, New
  <2>2. \A v \in Vers : Accounted(v)'
    BY <1>1, <1>2, <1>3, <2>1 DEF AccountInv, Accounted
  <2>. QED BY <2>1, <2>2 DEF AccountInv
<1>5. CASE WriteSums(p)
  <2>1. existing[p] = sums /\ sums' = Merged(p)
    BY <1>5 DEF WriteSums
  <2>2. \A n \in Lines : sums[n] # None => sums'[n] # None
    BY <2>1 DEF Merged, New
  <2>3. \A v \in Finished(p) : sums'[v] # None
    BY <2>1 DEF Merged, New, Finished, Lines
  <2>4. \A v \in Vers : Accounted(v)'
    BY <1>1, <1>2, <1>3, <2>2, <2>3 DEF AccountInv, Accounted, Lines
  <2>. QED BY <2>2, <2>4 DEF AccountInv, Lines
<1>. QED BY <1>4, <1>5 DEF Ends, WriteFails, Crash

\* A run that begins knows nothing yet; one that leaves its main loop or reads
\* SHA256SUMS.txt takes along what it has finished.
LEMMA RunAccount ==
  ASSUME TypeOK, AccountInv, NEW p \in Pushers, faults' = {}, faults = {},
         Discover(p) \/ Leave(p) \/ ReadSums(p)
  PROVE  AccountInv'
<1>1. assets' = assets /\ sums' = sums /\ sha' = sha
  BY DEF Discover, Leave, ReadSums
<1>2. \A q \in Pushers \ {p}, w \in Vers : Carries(q, w) => Carries(q, w)'
  BY DEF Discover, Leave, ReadSums, Go, Carries, TypeOK
<1>3. \A w \in Vers : Carries(p, w) => Carries(p, w)'
  <2>1. CASE Discover(p)
    BY <2>1 DEF Discover, Go, Carries
  <2>2. CASE Leave(p)
    <3>1. \A w \in Vers : vst[p][w] \notin {"packed", "uploaded"}
      BY <2>2 DEF Leave
    <3>. QED BY <2>2, <3>1 DEF Leave, Go, Carries, TypeOK
  <2>3. CASE ReadSums(p)
    BY <2>3 DEF ReadSums, Go, Carries, TypeOK
  <2>. QED BY <2>1, <2>2, <2>3
<1>. QED BY <1>1, <1>2, <1>3 DEF AccountInv, Accounted

\* The upload that gives a version its asset makes the run its carrier, and
\* nothing a run does to the version afterwards changes that.
LEMMA JobAccount ==
  ASSUME TypeOK, ReleaseInv, AccountInv, NEW p \in Pushers, NEW v \in Vers,
         JobStep(p, v), faults' = {}, faults = {}
  PROVE  AccountInv'
<1>1. sums' = sums /\ pc' = pc /\ pc[p] = "work"
  BY DEF JobStep, Pack, UploadNamed, UploadAsOutXz, Done, NotDone, Step
<1>2. ASSUME NEW q \in Pushers, NEW w \in Vers, q # p \/ w # v, Carries(q, w)
      PROVE  Carries(q, w)'
  <2>1. vst'[q][w] = vst[q][w] /\ sha'[q][w] = sha[q][w]
    BY <1>2 DEF JobStep, Pack, UploadNamed, UploadAsOutXz, Done, NotDone, Step, TypeOK
  <2>. QED BY <1>1, <1>2, <2>1 DEF Carries
<1>3. ASSUME Carries(p, v) PROVE Carries(p, v)'
  <2>1. Done(p, v)
    BY <1>1, <1>3 DEF JobStep, Pack, UploadNamed, UploadAsOutXz, Done, NotDone, Step, Carries
  <2>. QED BY <1>1, <1>3, <2>1 DEF Done, Step, Carries, TypeOK
<1>4. ASSUME NEW w \in Vers, assets'[w] # None
      PROVE  sums'[w] # None \/ \E q \in Pushers : Carries(q, w)'
  <2>1. CASE UploadNamed(p, v) /\ w = v
    <3>1. Known(p, v)
      BY DEF ReleaseInv
    <3>2. sha[p][v] # None /\ vst'[p][v] = "uploaded" /\ sha' = sha
      BY <2>1, <3>1 DEF UploadNamed, Step, Known, TypeOK
    <3>. QED BY <1>1, <2>1, <3>2 DEF Carries
  <2>2. CASE ~(UploadNamed(p, v) /\ w = v)
    <3>1. assets[w] # None
      BY <1>4, <2>2 DEF JobStep, Pack, UploadNamed, UploadAsOutXz, Done, NotDone, TypeOK
    <3>. QED BY <1>1, <1>2, <1>3, <3>1 DEF AccountInv, Accounted
  <2>. QED BY <2>1, <2>2
<1>. QED BY <1>1, <1>4 DEF AccountInv, Accounted

\* When nothing has gone wrong and no run is there, every asset has its line
\* and the lines of the others are there: for any number of machines that
\* push to one release at once.
THEOREM FaultlessRunsListAll == Spec => []NothingUnlisted
<1>1. TypeOK /\ ReleaseInv /\ AccountInv /\ [Next]_vars => AccountInv'
  <2>. SUFFICES ASSUME TypeOK, ReleaseInv, AccountInv, [Next]_vars, faults' = {}
               PROVE  AccountInv'
    BY DEF AccountInv
  <2>1. faults = {}
    BY FaultsStay
  <2>2. CASE UNCHANGED vars
    BY <2>2 DEF vars, AccountInv, Accounted, Carries
  <2>. QED BY <2>1, <2>2, NextCases, EndAccount, RunAccount, JobAccount
<1>2. AccountInv => NothingUnlisted
  BY DEF AccountInv, Accounted, Carries, NothingUnlisted
<1>. QED BY <1>1, <1>2, InitAccount, ReleaseInvariant, ReleaseTypeCorrect, PTL DEF Spec
============================================================================
