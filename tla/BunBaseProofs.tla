---------------------------- MODULE BunBaseProofs ----------------------------
(* Theorems about BunBase and their proofs. *)
EXTENDS BunBase, TLAPS, FiniteSetTheorems

----------------------------------------------------------------------------
(* The order of the candidates.                                            *)

\* A set of naturals that is not empty has a least element.
LEMMA LeastNatural ==
  ASSUME NEW S, S \subseteq Nat, S # {}
  PROVE  \E n \in S : \A m \in S : n <= m
<1>. DEFINE Seg(n) == 1..n
            T == {Seg(n) : n \in S}
<1>1. T \subseteq FiniteSubsetsOf(Nat) /\ T # {}
  <2>1. T # {}
    OBVIOUS
  <2>2. ASSUME NEW n \in S PROVE Seg(n) \in FiniteSubsetsOf(Nat)
    <3>1. n \in Int /\ 1 \in Int /\ Seg(n) \in SUBSET Nat
      OBVIOUS
    <3>2. IsFiniteSet(Seg(n))
      BY <3>1, FS_Interval
    <3>. QED BY <3>1, <3>2 DEF FiniteSubsetsOf
  <2>. QED BY <2>1, <2>2
<1>2. PICK x \in T : \A y \in T : <<y, x>> \notin StrictSubsetOrdering(Nat)
  <2>. HIDE DEF T
  <2>. QED BY <1>1, FS_StrictSubsetOrderingWellFounded, WFMin
<1>3. PICK n \in S : x = Seg(n)
  OBVIOUS
<1>4. ASSUME NEW m \in S, m < n PROVE FALSE
  <2>1. Seg(m) \subseteq Seg(n) /\ n \in Seg(n) /\ n \notin Seg(m)
    BY <1>4
  <2>2. Seg(m) \in T /\ Seg(m) \in SUBSET Nat /\ Seg(n) \in SUBSET Nat
    BY <1>4
  <2>. QED BY <1>2, <1>3, <2>1, <2>2 DEF StrictSubsetOrdering
<1>. QED BY <1>3, <1>4

LEMMA RankNat == ASSUME NEW c \in Candidates PROVE Rank(c) \in Nat
BY BunAssumption DEF Candidates, Places, Rank

\* First picks a candidate, and none comes before it.
LEMMA FirstIsFirst ==
  ASSUME NEW S, S \subseteq Candidates, S # {}
  PROVE  First(S) \in S /\ \A d \in S : Rank(First(S)) <= Rank(d)
<1>. DEFINE N == {Rank(c) : c \in S}
<1>1. N \subseteq Nat /\ N # {}
  BY RankNat
<1>2. PICK n \in N : \A m \in N : n <= m
  <2>. HIDE DEF N
  <2>. QED BY <1>1, LeastNatural
<1>3. PICK c \in S : n = Rank(c)
  OBVIOUS
<1>4. \A d \in S : Rank(c) <= Rank(d)
  BY <1>2, <1>3
<1>. QED BY <1>4 DEF First

\* A zip comes first only when the ELF of its place is not a candidate.
LEMMA ZipBehindElf ==
  ASSUME NEW S, S \subseteq Candidates, S # {}, First(S).kind = "zip",
         NEW d \in S, d.place = First(S).place
  PROVE  d.kind = "zip"
<1>1. First(S) \in Candidates /\ d \in Candidates /\ Rank(First(S)) <= Rank(d)
  BY FirstIsFirst
<1>. QED BY <1>1, BunAssumption DEF Candidates, Places, Rank

----------------------------------------------------------------------------
(* Types.                                                                  *)

LEMMA Constants ==
  /\ Versions \subseteq Places /\ 0 \in Places /\ 0 \notin Versions
  /\ Default \in Versions /\ DefaultMin \in Versions /\ MaxVer \in Nat
  /\ TrailerMax \in Versions /\ Versions \subseteq Nat
  /\ \A p \in Places : p # 0 => p \in Versions
  /\ \A b \in Binds : b.target \in 0..MaxVer /\ b.min \in 0..MaxVer
BY BunAssumption DEF Versions, Places

\* The version and the minimum that are used are releases.
LEMMA Defaults ==
  ASSUME TypeOK
  PROVE  Target \in Versions /\ Min \in Versions
BY BunAssumption, Constants DEF TypeOK, Target, Min, Versions

\* What is found in the cache are candidates, and they say what is there.
LEMMA ScanFinds ==
  ASSUME TypeOK, NEW f
  PROVE  /\ Fitting(f) \subseteq Candidates
         /\ \A c \in Fitting(f) : /\ Satisfies(c.ver, f, Min)
                                  /\ c.kind = "elf" => elfs[c.place].ver = c.ver
                                  /\ c.kind = "zip" => c.place = c.ver
         /\ \A p \in Places : (elfs[p].part = "whole" /\ Satisfies(elfs[p].ver, f, Min))
              => [place |-> p, kind |-> "elf", ver |-> elfs[p].ver] \in Fitting(f)
<1>1. \A p \in Places : Readable(elfs[p]) => elfs[p].ver \in Versions
  BY DEF TypeOK, Elfs, NoFile, Readable
<1>2. Scan(elfs, zips) \subseteq Candidates
  BY <1>1, Constants DEF Scan, Candidates
<1>3. \A c \in Scan(elfs, zips) : /\ c.kind = "elf" => elfs[c.place].ver = c.ver
                                  /\ c.kind = "zip" => c.place = c.ver
  BY DEF Scan
<1>4. \A p \in Places : elfs[p].part = "whole"
         => [place |-> p, kind |-> "elf", ver |-> elfs[p].ver] \in Scan(elfs, zips)
  BY DEF Scan, Readable
<1>. QED BY <1>2, <1>3, <1>4 DEF Fitting

LEMMA PredictTyped ==
  ASSUME TypeOK, NEW f
  PROVE  Predict(f) \in [base: 0..MaxVer, fatal: BOOLEAN]
<1>1. Fitting(f) # {} => First(Fitting(f)).ver \in Versions
  BY ScanFinds, FirstIsFirst DEF Candidates
<1>2. 0 \in 0..MaxVer /\ Versions \subseteq 0..MaxVer
  BY Constants DEF Versions
<1>. QED BY <1>1, <1>2, Zenon DEF Predict, NEEDS_DOWNLOAD

LEMMA ContentTyped ==
  ASSUME TypeOK, NEW p \in Places
  PROVE  /\ Content(p) \in Versions /\ Own(p) \in Versions
         /\ p # 0 => Own(p) = p
         /\ Misnamed = {} => Content(p) = Own(p)
BY Constants DEF Content, Own, TypeOK

\* What the two outcomes of an extraction leave behind.
LEMMA ExtractsTyped ==
  ASSUME TypeOK, NEW p \in Places, Extracts(p)
  PROVE  /\ elfs' \in [Places -> Elfs]
         /\ Misnamed = {} => \A v \in Versions : elfs'[v].ver \in {0, v}
         /\ elfs'[p] = Whole(Content(p))
         /\ \A q \in Places : q # p => elfs'[q] = elfs[q]
<1>1. Whole(Content(p)) \in Elfs /\ Whole(Content(p)).ver = Content(p)
  BY ContentTyped DEF Elfs, Whole, Parts
<1>. QED BY <1>1, ContentTyped, Constants DEF TypeOK, Extracts

LEMMA FailsTyped ==
  ASSUME TypeOK, NEW p \in Places, NEW z, FailsToExtract(p, z)
  PROVE  /\ elfs' \in [Places -> Elfs]
         /\ Misnamed = {} => \A v \in Versions : elfs'[v].ver \in {0, v}
         /\ elfs'[p] # elfs[p] => elfs'[p].part # "whole" /\ elfs'[p].ver = Content(p)
         /\ \A q \in Places : q # p => elfs'[q] = elfs[q]
<1>1. CASE UNCHANGED elfs
  BY <1>1 DEF TypeOK
<1>2. ASSUME NEW part \in Parts \ {"whole"},
             elfs' = [elfs EXCEPT ![p] = [ver |-> Content(p), part |-> part]]
      PROVE  /\ elfs' \in [Places -> Elfs]
             /\ Misnamed = {} => \A v \in Versions : elfs'[v].ver \in {0, v}
             /\ elfs'[p].part # "whole" /\ elfs'[p].ver = Content(p)
             /\ \A q \in Places : q # p => elfs'[q] = elfs[q]
  <2>1. [ver |-> Content(p), part |-> part] \in Elfs
    BY ContentTyped DEF Elfs
  <2>. QED BY <1>2, <2>1, ContentTyped, Constants DEF TypeOK
<1>. QED BY <1>1, <1>2 DEF FailsToExtract

LEMMA FetchTyped ==
  ASSUME TypeOK, NEW p \in Places, NEW level \in Levels, NEW next \in Steps,
         FetchFor(p, level, next)
  PROVE  TypeOK'
<1>. PICK z \in Fetched(zips[p]) :
        /\ zips' = [zips EXCEPT ![p] = z]
        /\ \/ z = "whole" /\ Extracts(p) /\ Return(p, Own(p), level)
           \/ FailsToExtract(p, z) /\ GoOn(next) /\ UNCHANGED <<todo, stumbled>>
  BY DEF FetchFor
<1>1. zips' \in [Places -> Zips]
  BY DEF TypeOK, Fetched, Zips
<1>2. UNCHANGED <<holds, bind, calls, edits, format, pred>>
  BY DEF FetchFor
<1>3. CASE Extracts(p) /\ Return(p, Own(p), level)
  <2>1. result' \in Results
    BY <1>3, ContentTyped DEF Return, Results
  <2>. QED BY <1>1, <1>2, <1>3, <2>1, ExtractsTyped DEF TypeOK, Return, Steps
<1>4. CASE FailsToExtract(p, z) /\ GoOn(next) /\ UNCHANGED <<todo, stumbled>>
  BY <1>1, <1>2, <1>4, FailsTyped DEF TypeOK, GoOn
<1>. QED BY <1>3, <1>4

LEMMA ReuseTyped ==
  ASSUME TypeOK, NEW level \in Levels, Reuse(level)
  PROVE  TypeOK'
<1>1. result' \in Results
  BY Constants DEF Reuse, Return, Results
<1>. QED BY <1>1 DEF Reuse, Return, TypeOK, cache, Steps

LEMMA SkipTyped == ASSUME TypeOK, NEW next \in Steps, Skip(next) PROVE TypeOK'
BY DEF Skip, GoOn, TypeOK, cache

LEMMA InitTyped == Init => TypeOK
<1>. SUFFICES ASSUME Init PROVE TypeOK
  OBVIOUS
<1>1. /\ elfs \in [Places -> Elfs] /\ \A v \in Versions : elfs[v].ver \in {0, v}
      /\ holds \in [Places -> Versions] /\ \A p \in Places : holds[p] = Own(p)
  BY Constants DEF Init, Elfs, NoFile, Own
<1>2. pred \in [base: 0..MaxVer, fatal: BOOLEAN]
  BY Constants DEF Init, NEEDS_DOWNLOAD
<1>3. 0 \in 0..MaxCalls /\ 0 \in 0..MaxEdits
  BY BunAssumption
<1>4. zips \in [Places -> Zips] /\ result \in Results /\ at \in Steps
  BY DEF Init, Zips, Results, Steps
<1>. QED BY <1>1, <1>2, <1>3, <1>4 DEF Init, TypeOK

LEMMA StepTyped == TypeOK /\ [Next]_vars => TypeOK'
<1>. SUFFICES ASSUME TypeOK, [Next]_vars PROVE TypeOK'
  OBVIOUS
<1>1. ASSUME NEW f \in Formats, Start(f) PROVE TypeOK'
  <2>1. pred' \in [base: 0..MaxVer, fatal: BOOLEAN] /\ todo' \subseteq Candidates
    BY <1>1, PredictTyped, ScanFinds DEF Start
  <2>2. calls' \in 0..MaxCalls
    BY <1>1, BunAssumption DEF Start, TypeOK
  <2>. QED BY <1>1, <2>1, <2>2 DEF Start, TypeOK, cache, Steps, Results
<1>2. CASE StartLegacy
  <2>1. calls' \in 0..MaxCalls
    BY <1>2, BunAssumption DEF StartLegacy, TypeOK
  <2>. QED BY <1>2, <2>1 DEF StartLegacy, TypeOK, cache, Steps, Results
<1>3. CASE TakeElf
  <2>1. result' \in Results
    BY <1>3, FirstIsFirst DEF TakeElf, TypeOK, Return, Results, Levels, Candidates
  <2>. QED BY <1>3, <2>1 DEF TakeElf, TypeOK, Return, cache, Steps
<1>4. CASE TakeZip
  <2>. DEFINE v == First(todo).place
  <2>1. v \in Places /\ v \in Versions
    BY <1>4, FirstIsFirst DEF TakeZip, TypeOK, Candidates
  <2>2. CASE Extracts(v) /\ Return(v, v, "zip")
    <3>1. result' \in Results
      BY <2>1, <2>2 DEF Return, Results, Levels
    <3>. QED BY <1>4, <2>1, <2>2, <3>1, ExtractsTyped DEF TakeZip, TypeOK, Return, Steps
  <2>3. CASE PassesOver(v)
    BY <1>4, <2>1, <2>3, FailsTyped DEF TakeZip, PassesOver, TypeOK, GoOn, Steps
  <2>. QED BY <1>4, <2>1, <2>2, <2>3, Constants DEF TakeZip
<1>5. CASE NoneLeft
  BY <1>5 DEF NoneLeft, GoOn, TypeOK, cache, Steps
<1>6. CASE TryTarget
  BY <1>6, FetchTyped, SkipTyped, Defaults, Constants DEF TryTarget, Levels, Steps
<1>7. CASE TryLatest
  BY <1>7, FetchTyped, SkipTyped, Constants DEF TryLatest, Levels, Steps
<1>8. CASE TryDefault
  BY <1>8, FetchTyped, SkipTyped, ReuseTyped, Constants DEF TryDefault, Levels, Steps
<1>9. CASE Quarantine
  BY <1>9 DEF Quarantine, End, TypeOK, cache, Steps
<1>10. CASE TakeDefault
  BY <1>10, FetchTyped, ReuseTyped, Constants DEF TakeDefault, Levels, Steps
<1>11. CASE Killed
  BY <1>11 DEF Killed, End, TypeOK, cache, Steps
<1>12. CASE User
  <2>1. edits' \in 0..MaxEdits /\ result' \in Results /\ verdict' = "none"
        /\ UNCHANGED <<calls, format, at, todo, pred, stumbled>>
    BY <1>12, BunAssumption
       DEF User, PlaceElf, PlaceZip, RemoveElf, RemoveZip, EditBind, Edit, TypeOK, Results
  <2>2. /\ elfs' \in [Places -> Elfs]
        /\ Misnamed = {} => \A v \in Versions : elfs'[v].ver \in {0, v}
    <3>1. CASE PlaceElf
      <4>. PICK p \in Places, v \in Versions, part \in Parts \ {"empty"} :
             /\ p \in {0, v} \/ <<p, v>> \in Misnamed
             /\ elfs' = [elfs EXCEPT ![p] = [ver |-> v, part |-> part]]
        BY <3>1 DEF PlaceElf
      <4>1. [ver |-> v, part |-> part] \in Elfs
        BY DEF Elfs
      <4>. QED BY <4>1, Constants DEF TypeOK
    <3>2. CASE RemoveElf
      BY <3>2, Constants DEF RemoveElf, TypeOK, Elfs, NoFile
    <3>. QED BY <1>12, <3>1, <3>2 DEF User, PlaceZip, RemoveZip, EditBind, TypeOK, cache
  <2>3. /\ zips' \in [Places -> Zips] /\ bind' \in Binds
        /\ holds' \in [Places -> Versions]
        /\ Misnamed = {} => \A p \in Places : holds'[p] = Own(p)
    <3>1. CASE PlaceZip
      <4>. PICK p \in Places, v \in Versions, z \in Zips \ {"none"} :
             /\ v = Own(p) \/ <<p, v>> \in Misnamed
             /\ zips' = [zips EXCEPT ![p] = z] /\ holds' = [holds EXCEPT ![p] = v]
        BY <3>1 DEF PlaceZip
      <4>. QED BY <3>1 DEF PlaceZip, TypeOK
    <3>2. CASE RemoveZip
      BY <3>2, ContentTyped DEF RemoveZip, TypeOK, Zips
    <3>. QED BY <1>12, <3>1, <3>2 DEF User, PlaceElf, RemoveElf, EditBind, TypeOK, cache
  <2>. QED BY <2>1, <2>2, <2>3 DEF TypeOK
<1>13. CASE UNCHANGED vars
  BY <1>13 DEF vars, cache, call, TypeOK
<1>. QED BY <1>1, <1>2, <1>3, <1>4, <1>5, <1>6, <1>7, <1>8, <1>9, <1>10, <1>11, <1>12, <1>13
         DEF Next, Resolve

\* Type correctness.
THEOREM TypeCorrect == Spec => []TypeOK
<1>. QED BY InitTyped, StepTyped, PTL DEF Spec

----------------------------------------------------------------------------
(* What a call knows while it runs.                                        *)

Beyond == {"bun-bind", "github-latest", "default", "quarantine"}
Fits(v) == Satisfies(v, format, Min)

\* Nothing is returned before the end, and only a call to resolve_bun_base has
\* a format.
Open ==
    /\ at # "idle" => result = Nothing /\ verdict = "none"
    /\ at \in Beyond \cup {"local"} => format \in Formats
    /\ at = "legacy" => format = "none"
\* At the local level every base that fits is still to be tried, and the next
\* one is the one that was predicted unless a zip has failed.
AtLocal ==
    at = "local" =>
        /\ \A c \in todo : Fits(c.ver) /\ (c.kind = "elf" => elfs[c.place].ver = c.ver)
        /\ \A p \in Places : (elfs[p].part = "whole" /\ Fits(elfs[p].ver))
             => [place |-> p, kind |-> "elf", ver |-> elfs[p].ver] \in todo
        /\ stumbled \/ pred.base = (IF todo = {} THEN NEEDS_DOWNLOAD ELSE First(todo).ver)
        /\ pred.base = NEEDS_DOWNLOAD => todo = {}
\* Behind it no whole base in the cache fits, and none was predicted.
AtBeyond ==
    at \in Beyond =>
        /\ \A p \in Places : elfs[p].part = "whole" => ~Fits(elfs[p].ver)
        /\ stumbled \/ pred.base = NEEDS_DOWNLOAD
Outcome == ClaimsTrue /\ PredictionHolds /\ RefusesOnlyWithoutBase /\ ReuseIsUnpaired
Inv == TypeOK /\ Open /\ AtLocal /\ AtBeyond /\ Outcome

\* If the names are true, no step of a call writes over a whole ELF.
Kept ==
    Misnamed = {} /\ at # "idle" =>
        \A p \in Places : elfs[p].part = "whole" => elfs'[p] = elfs[p]

LEMMA PairedFits == ASSUME NEW v PROVE Paired(v) <=> Fits(v)
BY DEF Paired, Fits, Satisfies

LEMMA NothingIsEmpty == Nothing.level = "none" /\ Nothing.level \notin Levels
BY DEF Nothing, Levels

\* Before the end there is no outcome to judge.
LEMMA Underway == Open' /\ at' # "idle" => Outcome'
BY NothingIsEmpty DEF Open, Outcome, ClaimsTrue, PredictionHolds, RefusesOnlyWithoutBase,
   ReuseIsUnpaired

\* The ways a download ends.
LEMMA FetchEnds ==
  ASSUME TypeOK, NEW p \in Places, NEW level, NEW next, FetchFor(p, level, next)
  PROVE  /\ UNCHANGED <<bind, calls, edits, format, pred, stumbled>>
         /\ \A q \in Places : q # p => elfs'[q] = elfs[q]
         /\ \/ elfs'[p] = Whole(Content(p)) /\ Return(p, Own(p), level)
            \/ /\ elfs'[p] # elfs[p] => elfs'[p].part # "whole"
               /\ GoOn(next) /\ todo' = todo
<1>. PICK z \in Fetched(zips[p]) :
        \/ z = "whole" /\ Extracts(p) /\ Return(p, Own(p), level)
        \/ FailsToExtract(p, z) /\ GoOn(next) /\ UNCHANGED <<todo, stumbled>>
  BY DEF FetchFor
<1>1. UNCHANGED <<bind, calls, edits, format, pred>>
  BY DEF FetchFor
<1>2. CASE Extracts(p) /\ Return(p, Own(p), level)
  BY <1>1, <1>2, ExtractsTyped DEF Return
<1>3. CASE FailsToExtract(p, z) /\ GoOn(next) /\ UNCHANGED <<todo, stumbled>>
  BY <1>1, <1>3, FailsTyped
<1>. QED BY <1>2, <1>3

\* A level that downloads keeps what is known, and what it returns is sound.
LEMMA FetchSound ==
  ASSUME Inv, at \in Beyond, NEW p \in Places, Fits(Own(p)),
         p = 0 => elfs[0].part # "whole",
         NEW level \in {"bun-bind", "github-latest", "default"}, NEW next \in Beyond,
         FetchFor(p, level, next)
  PROVE  Open' /\ AtLocal' /\ AtBeyond' /\ Outcome' /\ Kept
<1>1. TypeOK /\ format \in Formats /\ result = Nothing /\ verdict = "none"
  BY DEF Inv, Open, Beyond
<1>2. /\ UNCHANGED <<bind, calls, edits, format, pred, stumbled>>
      /\ \A q \in Places : q # p => elfs'[q] = elfs[q]
  BY <1>1, FetchEnds
<1>3. \A v : Fits(v)' <=> Fits(v)
  BY <1>2 DEF Fits, Min
<1>4. Misnamed = {} => elfs[p].part # "whole"
  <2>1. Misnamed = {} /\ elfs[p].part = "whole" /\ p # 0 => elfs[p].ver = p
    BY <1>1, Constants DEF TypeOK, Elfs, NoFile
  <2>. QED BY <1>1, <2>1, ContentTyped DEF Inv, AtBeyond
<1>5. Kept
  BY <1>2, <1>4 DEF Kept
<1>6. CASE elfs'[p] = Whole(Content(p)) /\ Return(p, Own(p), level)
  <2>1. at' = "idle" /\ verdict' = "OK" /\ result' = [level |-> level, place |-> p, ver |-> Own(p)]
    BY <1>6 DEF Return
  <2>2. ClaimsTrue'
    BY <1>1, <1>3, <1>6, <2>1, ContentTyped, PairedFits
       DEF ClaimsTrue, Whole, Paired, Fits, Satisfies
  <2>3. PredictionHolds'
    BY <1>2, <2>1 DEF PredictionHolds, Inv, AtBeyond
  <2>. QED BY <1>5, <2>1, <2>2, <2>3
           DEF Open, AtLocal, AtBeyond, Outcome, RefusesOnlyWithoutBase, ReuseIsUnpaired, Beyond
<1>7. CASE (elfs'[p] # elfs[p] => elfs'[p].part # "whole") /\ GoOn(next) /\ todo' = todo
  <2>1. at' = next /\ result' = Nothing /\ verdict' = "none"
    BY <1>1, <1>7 DEF GoOn
  <2>2. AtBeyond'
    BY <1>2, <1>3, <1>7 DEF Inv, AtBeyond
  <2>3. Open' /\ AtLocal'
    BY <1>1, <1>2, <2>1 DEF Open, AtLocal, Beyond
  <2>. QED BY <1>5, <2>1, <2>2, <2>3, Underway DEF Beyond
<1>. QED BY <1>1, <1>6, <1>7, FetchEnds

\* The first step of a call.
LEMMA StartSound ==
  ASSUME Inv, NEW f \in Formats, Start(f)
  PROVE  Open' /\ AtLocal' /\ AtBeyond' /\ Outcome' /\ Kept
<1>1. /\ at = "idle" /\ at' = "local" /\ format' = f /\ todo' = Fitting(f)
      /\ result' = Nothing /\ verdict' = "none" /\ pred' = Predict(f)
      /\ UNCHANGED <<elfs, bind>>
  BY DEF Start, cache
<1>2. Open' /\ AtBeyond' /\ Kept
  BY <1>1 DEF Open, AtBeyond, Beyond, Kept
<1>3. \A v : Fits(v)' <=> Satisfies(v, f, Min)
  BY <1>1 DEF Fits, Min
<1>4. Fitting(f) # {} => First(Fitting(f)).ver # NEEDS_DOWNLOAD
  BY ScanFinds, FirstIsFirst, Constants DEF Inv, Candidates, NEEDS_DOWNLOAD
<1>5. Predict(f).base = IF Fitting(f) = {} THEN NEEDS_DOWNLOAD ELSE First(Fitting(f)).ver
  BY DEF Predict
<1>6. AtLocal'
  BY <1>1, <1>3, <1>4, <1>5, ScanFinds DEF AtLocal, Inv
<1>. QED BY <1>1, <1>2, <1>6, Underway

LEMMA TakeElfSound ==
  ASSUME Inv, TakeElf
  PROVE  Open' /\ AtLocal' /\ AtBeyond' /\ Outcome' /\ Kept
<1>. DEFINE c == First(todo)
<1>1. /\ at = "local" /\ todo # {} /\ c.kind = "elf" /\ c \in todo
      /\ result' = [level |-> "elf", place |-> c.place, ver |-> c.ver]
      /\ at' = "idle" /\ verdict' = "OK"
      /\ UNCHANGED <<elfs, bind, format, pred, stumbled>>
  BY FirstIsFirst DEF TakeElf, Return, cache, Inv, TypeOK
<1>2. Fits(c.ver) /\ elfs[c.place].ver = c.ver /\ (stumbled \/ pred.base = c.ver)
      /\ pred.base # NEEDS_DOWNLOAD
  BY <1>1 DEF Inv, AtLocal
<1>3. ClaimsTrue'
  BY <1>1, <1>2, PairedFits DEF ClaimsTrue, Paired, Fits, Satisfies, Min
<1>4. PredictionHolds'
  BY <1>1, <1>2 DEF PredictionHolds
<1>. QED BY <1>1, <1>3, <1>4
         DEF Open, AtLocal, AtBeyond, Beyond, Outcome, RefusesOnlyWithoutBase, ReuseIsUnpaired, Kept

LEMMA TakeZipSound ==
  ASSUME Inv, TakeZip
  PROVE  Open' /\ AtLocal' /\ AtBeyond' /\ Outcome' /\ Kept
<1>. DEFINE v == First(todo).place
<1>1. /\ TypeOK /\ at = "local" /\ todo # {} /\ todo \subseteq Candidates
      /\ First(todo) \in todo /\ First(todo).kind = "zip"
      /\ v \in Versions /\ v \in Places /\ v # 0 /\ First(todo).ver = v
      /\ UNCHANGED <<bind, format, pred>>
  BY FirstIsFirst, Constants DEF TakeZip, Inv, TypeOK, Candidates
<1>2. Fits(v) /\ pred.base # NEEDS_DOWNLOAD /\ (stumbled \/ pred.base = v)
  BY <1>1 DEF Inv, AtLocal
<1>3. \A w : Fits(w)' <=> Fits(w)
  BY <1>1 DEF Fits, Min
<1>4. Misnamed = {} => elfs[v].part # "whole"
  <2>1. SUFFICES ASSUME Misnamed = {}, elfs[v].part = "whole" PROVE FALSE
    OBVIOUS
  <2>2. elfs[v].ver = v
    <3>1. elfs[v] \in Elfs /\ elfs[v].ver \in {0, v}
      BY <1>1, <2>1 DEF TypeOK
    <3>2. elfs[v].ver \in Versions
      BY <2>1, <3>1 DEF Elfs, NoFile
    <3>. QED BY <3>1, <3>2, Constants
  <2>3. [place |-> v, kind |-> "elf", ver |-> v] \in todo
    BY <1>1, <1>2, <2>1, <2>2 DEF Inv, AtLocal
  <2>. QED BY <1>1, <2>3, ZipBehindElf
<1>5. CASE Extracts(v) /\ Return(v, v, "zip")
  <2>1. /\ elfs'[v] = Whole(Content(v)) /\ \A q \in Places : q # v => elfs'[q] = elfs[q]
        /\ at' = "idle" /\ verdict' = "OK" /\ stumbled' = stumbled
        /\ result' = [level |-> "zip", place |-> v, ver |-> v]
    BY <1>1, <1>5, ExtractsTyped, ContentTyped DEF Return
  <2>2. ClaimsTrue'
    BY <1>1, <1>2, <1>3, <2>1, ContentTyped, PairedFits
       DEF ClaimsTrue, Whole, Paired, Fits, Satisfies
  <2>3. PredictionHolds'
    BY <1>1, <1>2, <2>1 DEF PredictionHolds
  <2>4. Kept
    BY <1>4, <2>1 DEF Kept
  <2>. QED BY <2>1, <2>2, <2>3, <2>4
           DEF Open, AtLocal, AtBeyond, Beyond, Outcome, RefusesOnlyWithoutBase, ReuseIsUnpaired
<1>6. CASE PassesOver(v)
  <2>1. /\ FailsToExtract(v, zips[v]) /\ todo' = {c \in todo : c # First(todo)}
        /\ stumbled' /\ at' = "local" /\ result' = result /\ verdict' = verdict
    BY <1>6 DEF PassesOver, GoOn
  <2>2. /\ elfs'[v] # elfs[v] => elfs'[v].part # "whole"
        /\ \A q \in Places : q # v => elfs'[q] = elfs[q]
    BY <1>1, <2>1, FailsTyped, ContentTyped
  <2>3. Kept
    BY <1>4, <2>2 DEF Kept
  <2>4. ASSUME NEW c \in todo
        PROVE  Fits(c.ver)' /\ (c.kind = "elf" => elfs'[c.place].ver = c.ver)
    <3>1. /\ Fits(c.ver) /\ c.place \in Places /\ c.ver \in Versions
          /\ c.kind = "elf" => elfs[c.place].ver = c.ver
      BY <1>1 DEF Inv, AtLocal, Candidates
    <3>2. c.kind = "elf" => c.place # v
      BY <1>1, ZipBehindElf
    <3>3. c.place # v => elfs'[c.place] = elfs[c.place]
      BY <2>2, <3>1
    <3>. QED BY <1>3, <3>1, <3>2, <3>3
  <2>5. ASSUME NEW p \in Places, elfs'[p].part = "whole", Fits(elfs[p].ver)'
        PROVE  [place |-> p, kind |-> "elf", ver |-> elfs'[p].ver] \in todo'
    <3>1. elfs'[p] = elfs[p]
      BY <2>2, <2>5
    <3>2. Fits(elfs[p].ver)
      BY <1>1, <2>5, <3>1 DEF Fits, Min
    <3>3. [place |-> p, kind |-> "elf", ver |-> elfs[p].ver] \in todo
      BY <1>1, <2>5, <3>1, <3>2 DEF Inv, AtLocal
    <3>4. [place |-> p, kind |-> "elf", ver |-> elfs[p].ver] # First(todo)
      BY <1>1
    <3>. QED BY <2>1, <3>1, <3>3, <3>4
  <2>6. AtLocal'
    BY <1>1, <1>2, <2>1, <2>4, <2>5 DEF AtLocal
  <2>7. Open' /\ AtBeyond'
    BY <1>1, <2>1 DEF Inv, Open, AtBeyond, Beyond
  <2>. QED BY <2>1, <2>3, <2>6, <2>7, Underway
<1>. QED BY <1>5, <1>6 DEF TakeZip

\* A step that only goes on to a later level.
LEMMA SkipSound ==
  ASSUME Inv, at \in Beyond, NEW next \in Beyond, Skip(next)
  PROVE  Open' /\ AtLocal' /\ AtBeyond' /\ Outcome' /\ Kept
<1>1. at' = next /\ UNCHANGED <<elfs, bind, format, result, verdict, pred, stumbled>>
  BY DEF Skip, GoOn, cache
<1>2. \A v : Fits(v)' <=> Fits(v)
  BY <1>1 DEF Fits, Min
<1>3. Open' /\ AtLocal' /\ Kept
  BY <1>1 DEF Inv, Open, AtLocal, Beyond, Kept
<1>4. AtBeyond'
  BY <1>1, <1>2 DEF Inv, AtBeyond
<1>. QED BY <1>1, <1>3, <1>4, Underway DEF Beyond

LEMMA NoneLeftSound ==
  ASSUME Inv, NoneLeft
  PROVE  Open' /\ AtLocal' /\ AtBeyond' /\ Outcome' /\ Kept
<1>1. /\ at = "local" /\ todo = {} /\ at' = "bun-bind"
      /\ UNCHANGED <<elfs, bind, format, result, verdict, pred, stumbled>>
  BY DEF NoneLeft, GoOn, cache
<1>2. \A v : Fits(v)' <=> Fits(v)
  BY <1>1 DEF Fits, Min
<1>3. Open' /\ AtLocal' /\ Kept
  BY <1>1 DEF Inv, Open, AtLocal, Beyond, Kept
<1>4. AtBeyond'
  BY <1>1, <1>2 DEF Inv, AtLocal, AtBeyond
<1>. QED BY <1>1, <1>3, <1>4, Underway

\* Every step of the system.
LEMMA StepSound ==
  ASSUME Inv, [Next]_vars
  PROVE  Open' /\ AtLocal' /\ AtBeyond' /\ Outcome' /\ Kept
<1>. TypeOK /\ Outcome /\ Open
  BY DEF Inv
<1>1. CASE StartLegacy \/ User
  <2>1. /\ at = "idle" /\ at' \in {"idle", "legacy"} /\ result' = Nothing /\ verdict' = "none"
        /\ at' = "legacy" => format' = "none"
    BY <1>1 DEF StartLegacy, User, PlaceElf, PlaceZip, RemoveElf, RemoveZip, EditBind, Edit, Open
  <2>. QED BY <2>1, NothingIsEmpty
           DEF Open, AtLocal, AtBeyond, Beyond, Kept, Outcome, ClaimsTrue, PredictionHolds,
               RefusesOnlyWithoutBase, ReuseIsUnpaired
<1>2. CASE TryTarget
  <2>1. at \in Beyond /\ Target \in Places /\ Target # 0
    BY <1>2, Defaults, Constants DEF TryTarget, Beyond
  <2>2. Satisfies(Target, format, Min) => Fits(Own(Target))
    BY <2>1, ContentTyped DEF Fits
  <2>. QED BY <1>2, <2>1, <2>2, FetchSound, SkipSound DEF TryTarget, Beyond
<1>3. CASE TryLatest
  <2>1. at \in Beyond
    BY <1>3 DEF TryLatest, Beyond
  <2>2. ASSUME NEW v \in Versions, Satisfies(v, format, Min),
               FetchFor(v, "github-latest", "default")
        PROVE  Open' /\ AtLocal' /\ AtBeyond' /\ Outcome' /\ Kept
    BY <2>1, <2>2, FetchSound, ContentTyped, Constants DEF Fits, Beyond
  <2>. QED BY <1>3, <2>1, <2>2, SkipSound DEF TryLatest, Beyond
<1>4. CASE TryDefault
  <2>1. at \in Beyond
    BY <1>4 DEF TryDefault, Beyond
  <2>2. CASE format = "trailer" /\ Reuse("reuse")
    <3>1. /\ at' = "idle" /\ verdict' = "OK"
          /\ result' = [level |-> "reuse", place |-> 0, ver |-> Default]
          /\ UNCHANGED <<elfs, bind, format, pred, stumbled>>
      BY <2>2 DEF Reuse, Return, cache
    <3>2. ReuseIsUnpaired'
      BY <2>1, <3>1, PairedFits, Constants
         DEF Inv, AtBeyond, ReuseIsUnpaired, Fits, Satisfies, Paired, Min
    <3>. QED BY <2>1, <3>1, <3>2
             DEF Inv, Open, AtLocal, AtBeyond, Beyond, Outcome, ClaimsTrue, PredictionHolds,
                 RefusesOnlyWithoutBase, Kept
  <2>3. CASE format = "trailer" /\ NotReusable /\ FetchFor(0, "default", "quarantine")
    <3>1. elfs[0].part # "whole" /\ Fits(Own(0))
      BY <2>3, BunAssumption DEF NotReusable, NoFile, Fits, Satisfies, Own, Versions
    <3>. QED BY <2>1, <2>3, <3>1, FetchSound, Constants DEF Beyond
  <2>. QED BY <1>4, <2>1, <2>2, <2>3, SkipSound DEF TryDefault, Beyond
<1>5. CASE Quarantine
  <2>1. /\ at = "quarantine" /\ at' = "idle" /\ verdict' = "QUARANTINE" /\ result' = Nothing
        /\ UNCHANGED <<elfs, bind, format, pred, stumbled>>
    BY <1>5 DEF Quarantine, End, cache, Open
  <2>2. RefusesOnlyWithoutBase'
    BY <2>1, PairedFits
       DEF Inv, AtBeyond, Beyond, RefusesOnlyWithoutBase, Paired, Fits, Satisfies, Min
  <2>3. PredictionHolds'
    BY <2>1, NothingIsEmpty DEF Inv, AtBeyond, Beyond, PredictionHolds, Nothing
  <2>. QED BY <2>1, <2>2, <2>3, NothingIsEmpty
           DEF Open, AtLocal, AtBeyond, Beyond, Outcome, ClaimsTrue, ReuseIsUnpaired, Kept
<1>6. CASE TakeDefault
  <2>1. at = "legacy" /\ format = "none"
    BY <1>6 DEF TakeDefault, Open
  <2>2. /\ at' = "idle" /\ format' = "none" /\ verdict' # "QUARANTINE"
        /\ result'.level \in {"none", "legacy"} /\ Kept
    <3>1. CASE Reuse("legacy")
      BY <2>1, <3>1 DEF Reuse, Return, cache, Kept
    <3>2. CASE NotReusable /\ FetchFor(0, "legacy", "idle")
      <4>1. elfs[0].part # "whole" /\ 0 \in Places
        BY <3>2, Constants DEF NotReusable, NoFile
      <4>2. Kept /\ format' = "none"
        BY <2>1, <3>2, <4>1, FetchEnds DEF Kept
      <4>3. \/ Return(0, Own(0), "legacy") \/ GoOn("idle")
        BY <3>2, <4>1, FetchEnds
      <4>. QED BY <2>1, <4>2, <4>3, NothingIsEmpty DEF Return, GoOn, Open
    <3>. QED BY <1>6, <3>1, <3>2 DEF TakeDefault
  <2>. QED BY <2>2
           DEF Open, AtLocal, AtBeyond, Beyond, Outcome, ClaimsTrue, PredictionHolds,
               RefusesOnlyWithoutBase, ReuseIsUnpaired
<1>7. CASE Killed
  <2>1. /\ at' = "idle" /\ verdict' = "killed" /\ result' = Nothing /\ UNCHANGED elfs
    BY <1>7 DEF Killed, End, cache, Open
  <2>. QED BY <2>1, NothingIsEmpty
           DEF Open, AtLocal, AtBeyond, Beyond, Outcome, ClaimsTrue, PredictionHolds,
               RefusesOnlyWithoutBase, ReuseIsUnpaired, Kept
<1>8. CASE UNCHANGED vars
  <2>1. UNCHANGED <<elfs, bind, format, at, todo, result, verdict, pred, stumbled>>
    BY <1>8 DEF vars, cache, call
  <2>. QED BY <2>1
           DEF Inv, Open, AtLocal, AtBeyond, Fits, Satisfies, Min, First, Rank, Kept,
               Outcome, ClaimsTrue, PredictionHolds, RefusesOnlyWithoutBase, ReuseIsUnpaired,
               Paired
<1>. QED BY <1>1, <1>2, <1>3, <1>4, <1>5, <1>6, <1>7, <1>8,
            StartSound, TakeElfSound, TakeZipSound, NoneLeftSound DEF Next, Resolve

LEMMA InitSound == Init => Inv
<1>. SUFFICES ASSUME Init PROVE Inv
  OBVIOUS
<1>1. at = "idle" /\ result = Nothing /\ verdict = "none"
  BY DEF Init
<1>. QED BY <1>1, InitTyped, NothingIsEmpty
         DEF Inv, Open, AtLocal, AtBeyond, Beyond, Outcome, ClaimsTrue, PredictionHolds,
             RefusesOnlyWithoutBase, ReuseIsUnpaired

LEMMA InvAlways == Spec => []Inv
<1>1. Inv /\ [Next]_vars => Inv'
  BY StepTyped, StepSound DEF Inv
<1>. QED BY <1>1, InitSound, PTL DEF Spec

----------------------------------------------------------------------------
(* The theorems.                                                           *)

\* Whatever is in the cache under its own name, however the downloads and
\* extractions fail and wherever a call is killed: what is returned pairs with the format.
THEOREM ClaimsAlwaysTrue == Spec => []ClaimsTrue
<1>1. Inv => ClaimsTrue
  BY DEF Inv, Outcome
<1>. QED BY <1>1, InvAlways, PTL

\* The offline prediction names the local base that the chain takes.
THEOREM PredictionAlwaysHolds == Spec => []PredictionHolds
<1>1. Inv => PredictionHolds
  BY DEF Inv, Outcome
<1>. QED BY <1>1, InvAlways, PTL

\* The chain never refuses while a whole base that fits is in the cache.
THEOREM RefusalJustified == Spec => []RefusesOnlyWithoutBase
<1>1. Inv => RefusesOnlyWithoutBase
  BY DEF Inv, Outcome
<1>. QED BY <1>1, InvAlways, PTL

\* What the last level finds at <cache>/bun is never a base that fits: the
\* branch only ever returns what the first level has refused.
THEOREM ReuseAlwaysUnpaired == Spec => []ReuseIsUnpaired
<1>1. Inv => ReuseIsUnpaired
  BY DEF Inv, Outcome
<1>. QED BY <1>1, InvAlways, PTL

\* If the names are true, no step of a call writes over a whole ELF of the cache.
THEOREM WholeAlwaysKept == Spec => WholeIsKept
<1>1. Inv /\ [Next]_vars => [Kept]_vars
  BY StepSound
<1>2. [Kept]_vars =>
        [Misnamed = {} /\ at # "idle" =>
           \A p \in Places : elfs[p].part = "whole" => elfs'[p] = elfs[p]]_vars
  BY DEF Kept
<1>. QED BY <1>1, <1>2, InvAlways, PTL DEF Spec, WholeIsKept

----------------------------------------------------------------------------
(* The chain keeps what Transplant relies on.                              *)

\* bun-bind.json does not pair a section graph with a base of the 1.3 series;
\* predict_bun_base calls it fatal when it does.
MinFits == format = "section" => Min > TrailerMax

\* An answer is one of those that the pipeline is modelled with.
AnswerFits == Misnamed = {} /\ Answered /\ MinFits => BaseAt(elfs[result.place]) \in BasesFor(format)

\* Beyond Inv: the version of an ELF that is tried or taken can be read, and
\* which level was reached tells the format.
Told ==
    /\ at = "local" => \A c \in todo : c.kind = "elf" => Readable(elfs[c.place])
    /\ result # Nothing => at = "idle" /\ result.place \in Places
    /\ result.level = "elf" => Readable(elfs[result.place])
    /\ result.level = "reuse" => format = "trailer"
    /\ (result.level = "legacy" \/ at = "legacy") => format = "none"
ToldInv == Inv /\ Told

LEMMA NothingAnswered ==
  ASSUME NEW l, NEW p, NEW v, l \in Levels
  PROVE  [level |-> l, place |-> p, ver |-> v] # Nothing
BY DEF Nothing, Levels

\* A download returns what it has unpacked, or nothing yet.
LEMMA FetchTold ==
  ASSUME ToldInv, NEW p \in Places, NEW next \in Steps \ {"local", "legacy"},
         NEW level \in Levels \ {"elf", "reuse"}, level = "legacy" => format = "none",
         at # "idle", FetchFor(p, level, next)
  PROVE  Told'
<1>1. result = Nothing /\ TypeOK /\ format' = format
  BY FetchEnds DEF ToldInv, Inv, Open, FetchFor
<1>2. CASE Return(p, Own(p), level)
  <2>1. at' = "idle" /\ result' = [level |-> level, place |-> p, ver |-> Own(p)]
    BY <1>2 DEF Return
  <2>. QED BY <1>1, <2>1 DEF Told
<1>3. CASE GoOn(next)
  <2>1. at' = next /\ result' = Nothing
    BY <1>1, <1>3 DEF GoOn
  <2>. QED BY <1>1, <2>1, NothingIsEmpty DEF Told, Levels
<1>. QED BY <1>1, <1>2, <1>3, FetchEnds

\* Once the version of an ELF was read, no zip is unpacked over it before it
\* has been tried.
LEMMA ZipTold == ToldInv /\ TakeZip => Told'
<1>. SUFFICES ASSUME ToldInv, TakeZip PROVE Told'
  OBVIOUS
<1>. DEFINE v == First(todo).place
<1>1. /\ TypeOK /\ at = "local" /\ todo # {} /\ todo \subseteq Candidates
      /\ First(todo).kind = "zip" /\ v \in Places /\ result = Nothing
      /\ format' = format
  BY FirstIsFirst DEF TakeZip, ToldInv, Inv, Open, TypeOK, Candidates
<1>2. CASE Return(v, v, "zip")
  <2>1. at' = "idle" /\ result' = [level |-> "zip", place |-> v, ver |-> v]
    BY <1>2 DEF Return
  <2>. QED BY <1>1, <2>1 DEF Told
<1>3. CASE PassesOver(v)
  <2>1. /\ FailsToExtract(v, zips[v]) /\ todo' \subseteq todo
        /\ at' = "local" /\ result' = Nothing
    BY <1>1, <1>3 DEF PassesOver, GoOn
  <2>2. \A q \in Places : q # v => elfs'[q] = elfs[q]
    BY <1>1, <2>1, FailsTyped
  <2>3. ASSUME NEW c \in todo', c.kind = "elf" PROVE Readable(elfs'[c.place])
    <3>1. c \in todo /\ c.place \in Places /\ c.place # v
      BY <1>1, <2>1, <2>3, ZipBehindElf DEF Candidates
    <3>. QED BY <1>1, <2>2, <2>3, <3>1 DEF ToldInv, Told
  <2>. QED BY <1>1, <2>1, <2>3, NothingIsEmpty DEF Told, Levels
<1>. QED BY <1>1, <1>2, <1>3 DEF TakeZip

LEMMA NextTold == ToldInv /\ [Next]_vars => Told'
<1>. SUFFICES ASSUME ToldInv, [Next]_vars PROVE Told'
  OBVIOUS
<1>. TypeOK /\ Open /\ Told
  BY DEF ToldInv, Inv
<1>. "elf" \in Levels /\ "reuse" \in Levels /\ "legacy" \in Levels
  BY DEF Levels
<1>1. ASSUME NEW f \in Formats, Start(f) PROVE Told'
  <2>1. \A c \in Fitting(f) : c.kind = "elf" => Readable(elfs[c.place])
    BY DEF Fitting, Scan
  <2>. QED BY <1>1, <2>1, NothingIsEmpty DEF Start, Told, cache
<1>2. CASE StartLegacy
  BY <1>2, NothingIsEmpty DEF StartLegacy, Told
<1>3. CASE TakeElf
  <2>1. First(todo) \in todo /\ First(todo).place \in Places
    BY <1>3, FirstIsFirst DEF TakeElf, TypeOK, Candidates
  <2>. QED BY <1>3, <2>1 DEF TakeElf, Return, Told, cache
<1>4. CASE TakeZip
  BY <1>4, ZipTold
<1>5. ASSUME NEW next \in Steps \ {"local", "legacy"}, at # "idle", Skip(next) PROVE Told'
  BY <1>5, NothingIsEmpty DEF Skip, GoOn, Open, Told
<1>6. CASE NoneLeft
  BY <1>6, NothingIsEmpty DEF NoneLeft, GoOn, Open, Told
<1>7. CASE TryTarget
  BY <1>5, <1>7, FetchTold, Defaults, Constants DEF TryTarget, Levels, Steps
<1>8. CASE TryLatest
  BY <1>5, <1>8, FetchTold, Constants DEF TryLatest, Levels, Steps
<1>9. ASSUME NEW level \in {"reuse", "legacy"}, Reuse(level), at # "idle",
             level = "reuse" => format = "trailer", level = "legacy" => format = "none"
      PROVE  Told'
  <2>1. /\ at' = "idle" /\ result' = [level |-> level, place |-> 0, ver |-> Default]
        /\ format' = format
    BY <1>9 DEF Reuse, Return
  <2>. QED BY <1>9, <2>1, Constants DEF Told
<1>10. CASE TryDefault
  BY <1>5, <1>9, <1>10, FetchTold, Constants DEF TryDefault, Levels, Steps
<1>11. CASE TakeDefault
  BY <1>9, <1>11, FetchTold, Constants DEF TakeDefault, Levels, Steps, Open
<1>12. CASE Quarantine \/ Killed
  BY <1>12, NothingIsEmpty DEF Quarantine, Killed, End, Open, Told
<1>13. CASE User
  <2>1. at' = at /\ at = "idle" /\ result' = Nothing
    BY <1>13 DEF User, PlaceElf, PlaceZip, RemoveElf, RemoveZip, EditBind, Edit
  <2>. QED BY <2>1, NothingIsEmpty DEF Told
<1>14. CASE UNCHANGED vars
  BY <1>14 DEF vars, cache, call, Told, Readable
<1>. QED BY <1>1, <1>2, <1>3, <1>4, <1>6, <1>7, <1>8, <1>10, <1>11, <1>12, <1>13, <1>14
         DEF Next, Resolve

LEMMA InitTold == Init => ToldInv
BY InitSound, NothingIsEmpty DEF Init, ToldInv, Told, Levels

LEMMA ToldInvariant == Spec => []ToldInv
<1>1. ToldInv /\ [Next]_vars => ToldInv'
  BY StepTyped, StepSound, NextTold DEF ToldInv, Inv
<1>. QED BY <1>1, InitTold, PTL DEF Spec

LEMMA AnyBase == \A f : BaseAt(f) \in BasesFor("trailer")
BY DEF BaseAt, Series, BasesFor

\* What is known of an answer makes it one that Transplant counts on.
LEMMA ToldFits == ToldInv => AnswerFits
<1>. SUFFICES ASSUME ToldInv, Misnamed = {}, Answered, MinFits
              PROVE  BaseAt(elfs[result.place]) \in BasesFor(format)
  BY DEF AnswerFits
<1>1. format \in Formats
  BY DEF ToldInv, Inv, TypeOK, Answered
<1>2. CASE format = "section"
  <2>1. result.level \notin {"none", "reuse", "legacy"}
    BY <1>2, NothingIsEmpty DEF ToldInv, Told, Inv, TypeOK, Results, Answered
  <2>2. elfs[result.place].ver = result.ver /\ Readable(elfs[result.place])
    BY <2>1 DEF ToldInv, Told, Inv, Outcome, ClaimsTrue, Readable
  <2>3. result.ver >= Min /\ Min > TrailerMax
    BY <1>2, <2>1 DEF ToldInv, Inv, Outcome, ClaimsTrue, Paired, MinFits
  <2>4. result.ver \in Nat /\ Min \in Nat /\ TrailerMax \in Nat
    BY Defaults, Constants, NothingIsEmpty DEF ToldInv, Inv, TypeOK, Results, Answered
  <2>. QED BY <1>2, <2>2, <2>3, <2>4 DEF BaseAt, Series, BasesFor
<1>3. CASE format = "trailer"
  BY <1>3, AnyBase
<1>. QED BY <1>1, <1>2, <1>3 DEF Formats

\* Whatever bun-bind.json says: if the names in the cache are true and its
\* minimum is not fatal, an answer
\* is one of those that the pipeline is modelled with.
THEOREM AnswersFit == Spec => []AnswerFits
<1>. QED BY ToldInvariant, ToldFits, PTL

\* No legal bun-bind.json, nor the built-in minimum, is fatal.
SaneBinds == DefaultMin > TrailerMax /\ \A b \in Binds : b.min = 0 \/ b.min > TrailerMax

LEMMA SaneFits == TypeOK /\ SaneBinds => MinFits
BY DEF TypeOK, SaneBinds, MinFits, Min

\* The steps of a call do not change its format.
LEMMA CallSteps ==
  ASSUME Resolve \/ Killed
  PROVE  at # "idle" /\ format' = format
<1>1. ASSUME NEW p, NEW level, NEW next, FetchFor(p, level, next) PROVE format' = format
  BY <1>1 DEF FetchFor
<1>2. ASSUME NEW level, Reuse(level) PROVE format' = format
  BY <1>2 DEF Reuse
<1>3. ASSUME NEW next, Skip(next) PROVE format' = format
  BY <1>3 DEF Skip
<1>4. CASE TakeElf \/ TakeZip \/ NoneLeft
  BY <1>4 DEF TakeElf, TakeZip, NoneLeft
<1>5. CASE TryTarget \/ TryLatest \/ TryDefault \/ TakeDefault
  BY <1>1, <1>2, <1>3, <1>5 DEF TryTarget, TryLatest, TryDefault, TakeDefault
<1>6. CASE Quarantine \/ Killed
  BY <1>6 DEF Quarantine, Killed, End
<1>. QED BY <1>4, <1>5, <1>6 DEF Resolve

\* The base that is no answer is the same on both sides.
LEMMA SameNoBase == Choice!NoBase = NoBase
BY DEF Choice!NoBase, NoBase

LEMMA InitChoice == Init => Choice!ChoiceInit
BY SameNoBase DEF Init, Choice!ChoiceInit, Asked, Given, Answered

\* Every step asks, answers, drops the question, or is unseen.
LEMMA StepChoice ==
  ASSUME Misnamed = {}, ToldInv, ToldInv', AnswerFits', MinFits', [Next]_vars
  PROVE  [Choice!ChoiceNext]_(Choice!choiceVars)
<1>. USE DEF Choice!ChoiceNext, Choice!choiceVars
<1>1. (Open /\ Told) /\ (Open /\ Told)'
  BY DEF ToldInv, Inv
<1>2. ASSUME NEW f \in Formats, Start(f) PROVE Choice!Ask
  BY <1>2, SameNoBase DEF Start, Formats, Choice!Ask, Asked, Given, Answered
<1>3. CASE StartLegacy
  <2>1. Choice!Drop
    BY <1>3, SameNoBase DEF StartLegacy, Choice!Drop, Asked, Given, Answered
  <2>. QED BY <2>1
<1>4. CASE User
  <2>1. at' = "idle" /\ result' = Nothing
    BY <1>4 DEF User, PlaceElf, PlaceZip, RemoveElf, RemoveZip, EditBind, Edit
  <2>2. Choice!Drop
    BY <2>1, SameNoBase DEF Choice!Drop, Asked, Given, Answered
  <2>. QED BY <2>2
<1>5. CASE Resolve \/ Killed
  <2>1. /\ at # "idle" /\ format' = format
        /\ result = Nothing /\ Asked = format /\ Given = NoBase
    BY <1>1, <1>5, CallSteps DEF Open, Asked, Given, Answered
  <2>2. CASE at' # "idle"
    <3>1. Asked' = format /\ Given' = NoBase
      BY <1>1, <2>1, <2>2 DEF Open, Asked, Given, Answered
    <3>. QED BY <2>1, <3>1
  <2>3. CASE at' = "idle" /\ ~Answered'
    <3>1. Choice!Drop
      BY <2>3, SameNoBase DEF Choice!Drop, Asked, Given
    <3>. QED BY <3>1
  <2>4. CASE at' = "idle" /\ Answered'
    <3>1. Asked' = format /\ Given' = BaseAt(elfs[result.place])' /\ format # "none"
      BY <2>1, <2>4 DEF Asked, Given, Answered
    <3>2. Given' \in BasesFor(format)
      BY <2>1, <2>4, <3>1 DEF AnswerFits
    <3>3. Choice!BasesFor(format) = BasesFor(format) /\ Choice!NoBase = NoBase
      BY SameNoBase DEF Choice!BasesFor, BasesFor
    <3>4. Choice!Answer
      BY <2>1, <3>1, <3>2, <3>3 DEF Choice!Answer
    <3>. QED BY <3>4
  <2>. QED BY <2>2, <2>3, <2>4
<1>6. CASE UNCHANGED vars
  <2>1. UNCHANGED <<elfs, format, at, result>>
    BY <1>6 DEF vars, cache, call
  <2>2. UNCHANGED <<Asked, Given>>
    BY <2>1 DEF Asked, Given, Answered, BaseAt, Readable, Series
  <2>. QED BY <2>2
<1>. QED BY <1>2, <1>3, <1>4, <1>5, <1>6 DEF Next

\* Every run of the chain is one of BaseChoice: a question gets at most one
\* answer, of BasesFor the format that was asked for, and nothing that is left
\* half written, or is written later, changes an answer while it stands.
THEOREM ChainImplementsChoice ==
  ASSUME SaneBinds, Misnamed = {}
  PROVE  Spec => ImplementsChoice
<1>1. ToldInv /\ ToldInv' /\ [Next]_vars => [Choice!ChoiceNext]_(Choice!choiceVars)
  <2>1. ToldInv => MinFits /\ AnswerFits
    BY SaneFits, ToldFits DEF ToldInv, Inv
  <2>2. ToldInv' => MinFits' /\ AnswerFits'
    BY <2>1, PTL
  <2>. QED BY <2>2, StepChoice
<1>. QED BY <1>1, InitChoice, ToldInvariant, PTL DEF Spec, ImplementsChoice, Choice!ChoiceSpec
=============================================================================
