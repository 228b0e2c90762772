----------------------- MODULE SystemSkillsHookProofs -----------------------
(* Theorems about SystemSkillsHook and their proofs. *)
EXTENDS SystemSkillsHook, TLAPS

----------------------------------------------------------------------------
(* Types. *)

\* The gates yield a status or "admitted".
LEMMA VerdictType == Verdict \in Statuses \cup {"admitted"}
  BY DEF Verdict, GlobalVerdict, Statuses

\* No gate gives a status that stands for an action.
LEMMA VerdictIsGate == Verdict \notin {"ok", "warn", "failed", "skipped_idempotent"}
  BY DEF Verdict, GlobalVerdict

\* The flags stay Boolean.
LEMMA FlagsStep ==
  ASSUME TypeOK, [Next]_vars
  PROVE  FlagsOK'
<1>. USE DEF TypeOK, FlagsOK, files, given, work, past, Note
<1>1. CASE \E c \in Cores : ChangeCore(c)
  BY <1>1, Zenon DEF ChangeCore
<1>2. CASE \E b \in Blocklists : ChangeBlocklist(b)
  BY <1>2, Zenon DEF ChangeBlocklist
<1>3. ASSUME NEW e \in Events, NEW s \in BOOLEAN, NEW n \in BOOLEAN, Call(e, s, n) \/ CallFails(e, s, n)
      PROVE  FlagsOK'
  BY <1>3, ZenonT(30) DEF Call, CallFails, Called
<1>4. CASE \E m \in Manifests : Read(m) \/ Misread(m)
  BY <1>4, ZenonT(30) DEF Read, Misread, NoWarning
<1>5. CASE Refuse \/ NoManager \/ Skip \/ Admit
  BY <1>5, ZenonT(30) DEF Refuse, NoManager, Skip, Admit
<1>6. CASE NothingToRun \/ ManagerRuns \/ ManagerFails
  BY <1>6, ZenonT(30) DEF NothingToRun, ManagerRuns, ManagerFails, RunOrWarnFails
<1>7. CASE SelfcheckRuns \/ SelfcheckFails
  BY <1>7, ZenonT(30) DEF SelfcheckRuns, SelfcheckFails, RunOrWarnFails
<1>8. CASE Close \/ Mark
  BY <1>8, ZenonT(30) DEF Close, Mark
<1>9. CASE Report \/ Die \/ Finish \/ UNCHANGED vars
  BY <1>9, ZenonT(30) DEF Report, Die, Finish, vars
<1>. QED  BY <1>1, <1>2, <1>3, <1>4, <1>5, <1>6, <1>7, <1>8, <1>9 DEF Next

\* What the call has come to stays in range.
LEMMA WorkStep ==
  ASSUME TypeOK, [Next]_vars
  PROVE  WorkOK'
<1>. USE DEF TypeOK, WorkOK, files, given, work, past, Note, Places, Statuses
<1>1. CASE \E c \in Cores : ChangeCore(c)
  BY <1>1 DEF ChangeCore
<1>2. CASE \E b \in Blocklists : ChangeBlocklist(b)
  BY <1>2 DEF ChangeBlocklist
<1>3. ASSUME NEW e \in Events, NEW s \in BOOLEAN, NEW n \in BOOLEAN, Call(e, s, n) \/ CallFails(e, s, n)
      PROVE  WorkOK'
  BY <1>3 DEF Call, CallFails, Called
<1>4. CASE \E m \in Manifests : Read(m) \/ Misread(m)
  BY <1>4, HookAssumption DEF Read, Misread, FilesOK, Cores
<1>5. CASE Refuse \/ NoManager \/ Skip \/ Admit
  BY <1>5, VerdictType DEF Refuse, NoManager, Skip, Admit
<1>6. CASE NothingToRun \/ ManagerRuns \/ ManagerFails
  BY <1>6 DEF NothingToRun, ManagerRuns, ManagerFails, RunOrWarnFails
<1>7. CASE SelfcheckRuns \/ SelfcheckFails
  BY <1>7 DEF SelfcheckRuns, SelfcheckFails, RunOrWarnFails
<1>8. CASE Close \/ Mark
  BY <1>8 DEF Close, Mark
<1>9. CASE Report \/ Die \/ Finish \/ UNCHANGED vars
  BY <1>9 DEF Report, Die, Finish, vars
<1>. QED  BY <1>1, <1>2, <1>3, <1>4, <1>5, <1>6, <1>7, <1>8, <1>9 DEF Next

\* A step writes no file unless it is one of these.
LEMMA FilesQuiet ==
  ASSUME [Next]_vars
  PROVE  \/ UNCHANGED <<files, completed>>
         \/ \E c \in Cores : ChangeCore(c)
         \/ \E b \in Blocklists : ChangeBlocklist(b)
         \/ ManagerRuns \/ ManagerFails \/ Mark \/ Report \/ Die
  BY DEF Next, vars, past, Call, CallFails, Called, Read, Misread, Refuse, NoManager, Skip,
         Admit, NothingToRun, SelfcheckRuns, SelfcheckFails, Close, Finish

\* The files stay in range.
LEMMA FilesStep ==
  ASSUME TypeOK, [Next]_vars
  PROVE  FilesOK'
<1>. USE DEF TypeOK, FilesOK, WorkOK, files, past
<1>1. CASE UNCHANGED <<files, completed>>
  BY <1>1
<1>2. CASE \E c \in Cores : ChangeCore(c)
  BY <1>2 DEF ChangeCore
<1>3. CASE \E b \in Blocklists : ChangeBlocklist(b)
  BY <1>3, HookAssumption DEF ChangeBlocklist
<1>4. CASE ManagerRuns \/ ManagerFails
  BY <1>4, HookAssumption DEF ManagerRuns, ManagerFails
<1>5. CASE Mark
  <2>1. markers' \subseteq Keys \X Events \X Cores
    BY <1>5, HookAssumption DEF Mark, Touch, Marker
  <2>2. completed' \subseteq Manifests \X Events \X Cores
    BY <1>5 DEF Mark
  <2>. QED  BY <1>5, <2>1, <2>2 DEF Mark
<1>6. CASE Report
  <2>1. Item \in Items
    BY HookAssumption DEF Item, Items
  <2>2. registry' \in Registries
    BY <1>6, <2>1 DEF Report, Update, Registries
  <2>. QED  BY <1>6, <2>2 DEF Report
<1>7. CASE Die
  BY <1>7 DEF Die
<1>. QED  BY <1>1, <1>2, <1>3, <1>4, <1>5, <1>6, <1>7, FilesQuiet

\* Every variable stays in its range, however many manifests and calls there
\* are and wherever a call dies.
THEOREM HookTypeCorrect == Spec => []TypeOK
<1>1. Init => TypeOK
  <2>. USE DEF Init
  <2>1. Init => FlagsOK
    BY Zenon DEF FlagsOK
  <2>2. Init => FilesOK
    BY HookAssumption DEF FilesOK, IsBlocklist, Registries, Cores
  <2>3. Init => WorkOK
    BY HookAssumption DEF WorkOK, Places, Cores, Statuses
  <2>. QED  BY <2>1, <2>2, <2>3 DEF TypeOK
<1>2. TypeOK /\ [Next]_vars => TypeOK'
  BY FlagsStep, FilesStep, WorkStep DEF TypeOK
<1>. QED  BY <1>1, <1>2, PTL DEF Spec

----------------------------------------------------------------------------
(* The gates.  The version a manifest is judged by is the core's or 0, and  *)
(* the core and the block list stand still during a call.                   *)

VersionRead == at = "gate" \/ Admitted => cver \in {core, 0}
GateInv == VersionRead /\ GateHolds

\* One step keeps the gate's invariant.
LEMMA GateStep ==
  ASSUME TypeOK, GateInv, [Next]_vars
  PROVE  GateInv'
<1>. USE DEF GateInv, VersionRead, GateHolds, Admitted, files, given, work, past, Note
<1>1. CASE \E c \in Cores : ChangeCore(c)
  BY <1>1 DEF ChangeCore
<1>2. CASE \E b \in Blocklists : ChangeBlocklist(b)
  BY <1>2 DEF ChangeBlocklist
<1>3. CASE \E e \in Events, s, n \in BOOLEAN : Call(e, s, n) \/ CallFails(e, s, n)
  BY <1>3 DEF Call, CallFails, Called
<1>4. CASE \E m \in Manifests : Read(m) \/ Misread(m)
  BY <1>4 DEF Read, Misread
<1>5. CASE Refuse \/ NoManager \/ Skip
  BY <1>5 DEF Refuse, NoManager, Skip
<1>6. CASE Admit
  <2>1. Verdict = "admitted"
    BY <1>6 DEF Admit
  <2>2. ~TooOld /\ ~TooNew /\ cver \notin Barred[cur]
    BY <2>1 DEF Verdict
  <2>3. GlobalVerdict = "admitted"
    BY <2>1, <2>2 DEF Verdict
  <2>4. blocklist # Unreadable /\ <<Id[cur], cver>> \notin Closed(blocklist)
    BY <2>3 DEF GlobalVerdict
  <2>5. Min[cur] \in Nat /\ Max[cur] \in Nat /\ cver \in Nat
    BY HookAssumption DEF TypeOK, WorkOK, Cores
  <2>6. Min[cur] # 0 => cver = core /\ core >= Min[cur] /\ (Max[cur] # 0 => core <= Max[cur])
    BY <1>6, <2>2, <2>5 DEF Admit, TooOld, TooNew
  <2>. QED  BY <1>6, <2>2, <2>4, <2>6 DEF Admit
<1>7. CASE NothingToRun \/ ManagerRuns \/ ManagerFails
  BY <1>7 DEF NothingToRun, ManagerRuns, ManagerFails, RunOrWarnFails
<1>8. CASE SelfcheckRuns \/ SelfcheckFails
  BY <1>8 DEF SelfcheckRuns, SelfcheckFails, RunOrWarnFails
<1>9. CASE Close \/ Mark
  BY <1>9 DEF Close, Mark
<1>10. CASE Report \/ Die \/ Finish \/ UNCHANGED vars
  BY <1>10 DEF Report, Die, Finish, vars
<1>. QED  BY <1>1, <1>2, <1>3, <1>4, <1>5, <1>6, <1>7, <1>8, <1>9, <1>10 DEF Next

\* A plugin that states a minimum core version is acted upon only where its
\* manifest and the block list allow the installed core.
THEOREM GateIsShut == Spec => []GateHolds
<1>1. Init => GateInv
  BY DEF Init, GateInv, VersionRead, GateHolds, Admitted
<1>2. TypeOK /\ GateInv /\ [Next]_vars => GateInv'
  BY GateStep
<1>3. GateInv => GateHolds
  BY DEF GateInv
<1>. QED  BY <1>1, <1>2, <1>3, HookTypeCorrect, PTL DEF Spec

----------------------------------------------------------------------------
(* Markers.  PROCESS_WARNED is exact for the manifest at hand, so a marker  *)
(* is made only after everything went well; the marker comes before "ok".   *)

Exact == /\ at = "gate" => ~warned /\ ~harmed
         /\ Admitted => (warned <=> harmed)
         /\ at = "mark" => ~warned
Earned == \A m \in Manifests, e \in Events, v \in Cores :
             Key[m] # NoKey /\ <<Key[m], e, v>> \in markers => <<m, e, v>> \in completed
Reported == at = "report" /\ outcome = "ok" => Key[cur] = NoKey \/ Marker \in markers

\* One step keeps PROCESS_WARNED exact, and the status is the manifest's own.
LEMMA ExactStep ==
  ASSUME Exact, ReportsOwnActions, [Next]_vars
  PROVE  Exact' /\ ReportsOwnActions'
<1>. USE DEF Exact, ReportsOwnActions, Admitted, files, given, work, past, Note
<1>1. CASE \E c \in Cores : ChangeCore(c)
  BY <1>1, ZenonT(30) DEF ChangeCore
<1>2. CASE \E b \in Blocklists : ChangeBlocklist(b)
  BY <1>2, ZenonT(30) DEF ChangeBlocklist
<1>3. CASE \E e \in Events, s, n \in BOOLEAN : Call(e, s, n) \/ CallFails(e, s, n)
  BY <1>3 DEF Call, CallFails, Called
<1>4. CASE \E m \in Manifests : Read(m) \/ Misread(m)
  BY <1>4 DEF Read, Misread, NoWarning
<1>5. CASE Refuse \/ NoManager
  BY <1>5, VerdictIsGate DEF Refuse, NoManager
<1>6. CASE Skip \/ Admit
  BY <1>6 DEF Skip, Admit
<1>7. CASE NothingToRun \/ ManagerRuns \/ ManagerFails
  BY <1>7 DEF NothingToRun, ManagerRuns, ManagerFails, RunOrWarnFails
<1>8. CASE SelfcheckRuns \/ SelfcheckFails
  BY <1>8 DEF SelfcheckRuns, SelfcheckFails, RunOrWarnFails
<1>9. CASE Close \/ Mark
  BY <1>9 DEF Close, Mark
<1>10. CASE Report \/ Die \/ Finish \/ UNCHANGED vars
  BY <1>10 DEF Report, Die, Finish, vars
<1>. QED  BY <1>1, <1>2, <1>3, <1>4, <1>5, <1>6, <1>7, <1>8, <1>9, <1>10 DEF Next

\* What the registry is told is about the manifest at hand.
THEOREM ReportsAreOwn == Spec => [](Exact /\ ReportsOwnActions)
<1>1. Init => Exact /\ ReportsOwnActions
  BY DEF Init, Exact, ReportsOwnActions, Admitted
<1>2. Exact /\ ReportsOwnActions /\ [Next]_vars => (Exact /\ ReportsOwnActions)'
  BY ExactStep
<1>. QED  BY <1>1, <1>2, PTL DEF Spec

\* Markers and completed change together.
LEMMA MarksQuiet ==
  ASSUME [Next]_vars, ~Mark
  PROVE  UNCHANGED <<markers, completed>>
  BY DEF Next, vars, files, past, ChangeCore, ChangeBlocklist, Call, CallFails, Called, Read,
         Misread, Refuse, NoManager, Skip, Admit, NothingToRun, ManagerRuns, ManagerFails,
         SelfcheckRuns, SelfcheckFails, Close, Report, Die, Finish

\* With distinct keys a marker stands for its own manifest.
LEMMA EarnedStep ==
  ASSUME KeysDiffer, TypeOK, Exact, Earned, [Next]_vars
  PROVE  Earned'
<1>1. CASE ~Mark
  BY <1>1, MarksQuiet DEF Earned
<1>2. CASE Mark
  <2>1. ~harmed
    BY <1>2 DEF Mark, Exact, Admitted
  <2>2. <<cur, event, cver>> \in completed' /\ completed \subseteq completed'
    BY <1>2, <2>1 DEF Mark
  <2>3. SUFFICES ASSUME NEW m \in Manifests, NEW e \in Events, NEW v \in Cores,
                        Key[m] # NoKey, <<Key[m], e, v>> \in markers'
                 PROVE  <<m, e, v>> \in completed'
    BY DEF Earned
  <2>4. CASE <<Key[m], e, v>> \in markers
    BY <2>2, <2>3, <2>4 DEF Earned
  <2>5. CASE <<Key[m], e, v>> \notin markers
    <3>1. <<Key[m], e, v>> = <<Key[cur], event, cver>>
      BY <1>2, <2>3, <2>5 DEF Mark, Touch, Marker
    <3>2. m = cur /\ e = event /\ v = cver
      BY <2>3, <3>1 DEF KeysDiffer, TypeOK, WorkOK
    <3>. QED  BY <2>2, <3>2
  <2>. QED  BY <2>4, <2>5
<1>. QED  BY <1>1, <1>2

\* A manifest is skipped only with its marker there.
LEMMA SkipStep ==
  ASSUME TypeOK, Earned, SkipsOnlyWhatWasDone, [Next]_vars
  PROVE  SkipsOnlyWhatWasDone'
<1>. USE DEF SkipsOnlyWhatWasDone, files, given, work, past, Note
<1>1. CASE \E c \in Cores : ChangeCore(c)
  BY <1>1 DEF ChangeCore
<1>2. CASE \E b \in Blocklists : ChangeBlocklist(b)
  BY <1>2 DEF ChangeBlocklist
<1>3. CASE \E e \in Events, s, n \in BOOLEAN : Call(e, s, n) \/ CallFails(e, s, n)
  BY <1>3 DEF Call, CallFails, Called
<1>4. CASE \E m \in Manifests : Read(m) \/ Misread(m)
  BY <1>4 DEF Read, Misread
<1>5. CASE Refuse \/ NoManager \/ Admit
  BY <1>5, VerdictIsGate DEF Refuse, NoManager, Admit
<1>6. CASE Skip
  <2>1. Key[cur] # NoKey /\ <<Key[cur], event, cver>> \in markers
    BY <1>6 DEF Skip, Marked, Marker
  <2>2. <<cur, event, cver>> \in completed
    BY <2>1 DEF Earned, TypeOK, WorkOK
  <2>. QED  BY <1>6, <2>2 DEF Skip
<1>7. CASE NothingToRun \/ ManagerRuns \/ ManagerFails
  BY <1>7 DEF NothingToRun, ManagerRuns, ManagerFails, RunOrWarnFails
<1>8. CASE SelfcheckRuns \/ SelfcheckFails
  BY <1>8 DEF SelfcheckRuns, SelfcheckFails, RunOrWarnFails
<1>9. CASE Close \/ Mark
  BY <1>9 DEF Close, Mark
<1>10. CASE Report \/ Die \/ Finish \/ UNCHANGED vars
  BY <1>10 DEF Report, Die, Finish, vars
<1>. QED  BY <1>1, <1>2, <1>3, <1>4, <1>5, <1>6, <1>7, <1>8, <1>9, <1>10 DEF Next

\* Where no two manifests share a key, what is skipped as done was done.
THEOREM SkipsAreEarned ==
  ASSUME KeysDiffer
  PROVE  Spec => []SkipsOnlyWhatWasDone
<1>1. Init => Earned /\ SkipsOnlyWhatWasDone
  BY DEF Init, Earned, SkipsOnlyWhatWasDone
<1>2. TypeOK /\ Exact /\ Earned /\ SkipsOnlyWhatWasDone /\ [Next]_vars
         => (Earned /\ SkipsOnlyWhatWasDone)'
  BY KeysDiffer, EarnedStep, SkipStep
<1>. QED  BY <1>1, <1>2, HookTypeCorrect, ReportsAreOwn, PTL DEF Spec

\* A step away from the registry neither adds an ok nor takes a marker away.
LEMMA ReportedStep ==
  ASSUME Reported, [Next]_vars
  PROVE  Reported'
<1>. USE DEF Reported, Marker, files, given, work, past, Note
<1>1. CASE \E c \in Cores : ChangeCore(c)
  BY <1>1 DEF ChangeCore
<1>2. CASE \E b \in Blocklists : ChangeBlocklist(b)
  BY <1>2 DEF ChangeBlocklist
<1>3. CASE \E e \in Events, s, n \in BOOLEAN : Call(e, s, n) \/ CallFails(e, s, n)
  BY <1>3 DEF Call, CallFails, Called
<1>4. CASE \E m \in Manifests : Read(m) \/ Misread(m)
  BY <1>4 DEF Read, Misread
<1>5. CASE Refuse \/ NoManager \/ Skip \/ Admit
  BY <1>5, VerdictIsGate DEF Refuse, NoManager, Skip, Admit
<1>6. CASE NothingToRun \/ ManagerRuns \/ ManagerFails
  BY <1>6 DEF NothingToRun, ManagerRuns, ManagerFails, RunOrWarnFails
<1>7. CASE SelfcheckRuns \/ SelfcheckFails
  BY <1>7 DEF SelfcheckRuns, SelfcheckFails, RunOrWarnFails
<1>8. CASE Close \/ Mark
  BY <1>8 DEF Close, Mark, Touch
<1>9. CASE Report \/ Die \/ Finish \/ UNCHANGED vars
  BY <1>9 DEF Report, Die, Finish, vars
<1>. QED  BY <1>1, <1>2, <1>3, <1>4, <1>5, <1>6, <1>7, <1>8, <1>9 DEF Next

\* The registry changes only in Report and Die.
LEMMA RegistryQuiet ==
  ASSUME [Next]_vars
  PROVE  UNCHANGED registry \/ Report \/ registry' = Torn
  BY DEF Next, vars, files, ChangeCore, ChangeBlocklist, Call, CallFails, Called, Read,
         Misread, Refuse, NoManager, Skip, Admit, NothingToRun, ManagerRuns, ManagerFails,
         SelfcheckRuns, SelfcheckFails, Close, Mark, Die, Finish

\* No marker is ever removed.
LEMMA MarkersGrow ==
  ASSUME [Next]_vars
  PROVE  markers \subseteq markers'
  BY MarksQuiet DEF Mark, Touch

\* One step keeps a marker behind every ok.
LEMMA OkStep ==
  ASSUME TypeOK, Reported, OkHasMarker, [Next]_vars
  PROVE  OkHasMarker'
<1>1. CASE UNCHANGED registry \/ registry' = Torn
  BY <1>1, MarkersGrow DEF OkHasMarker
<1>2. CASE Report
  <2>1. SUFFICES ASSUME NEW p \in Plugins, registry'[p].status = "ok", registry'[p].key # NoKey
                 PROVE  LET i == registry'[p] IN <<i.key, i.event, i.core>> \in markers'
    BY DEF OkHasMarker
  <2>2. CASE p = Id[cur]
    <3>1. registry'[p] = Item
      BY <1>2, <2>2 DEF Report, Update
    <3>2. Marker \in markers
      BY <1>2, <2>1, <3>1 DEF Report, Item, Reported
    <3>. QED  BY <1>2, <3>1, <3>2 DEF Report, Item, Marker
  <2>3. CASE p # Id[cur] /\ registry = Torn
    BY <1>2, <2>1, <2>3 DEF Report, Update, Absent
  <2>4. CASE p # Id[cur] /\ registry # Torn
    BY <1>2, <2>1, <2>4 DEF Report, Update, OkHasMarker
  <2>. QED  BY <2>2, <2>3, <2>4
<1>. QED  BY <1>1, <1>2, RegistryQuiet

\* What the registry calls ok is not done again, wherever calls were killed.
THEOREM OkIsMarked == Spec => []OkHasMarker
<1>1. Init => Reported /\ OkHasMarker
  BY DEF Init, Reported, OkHasMarker, Absent
<1>2. TypeOK /\ Reported /\ OkHasMarker /\ [Next]_vars => (Reported /\ OkHasMarker)'
  BY ReportedStep, OkStep
<1>. QED  BY <1>1, <1>2, HookTypeCorrect, PTL DEF Spec

----------------------------------------------------------------------------
(* The exit status. *)

ExitInv ==
    /\ at # "idle" => code = 0
    /\ at \notin {"idle", "report"} => ~(strict /\ troubled)
    /\ at = "report" => (abort <=> strict /\ troubled)
    /\ ExitIsStrict

\* One step keeps the exit status in agreement with what happened.
LEMMA ExitStep ==
  ASSUME TypeOK, ExitInv, [Next]_vars
  PROVE  ExitInv'
<1>. USE DEF ExitInv, ExitIsStrict, files, given, work, past, Note
<1>1. CASE \E c \in Cores : ChangeCore(c)
  BY <1>1 DEF ChangeCore
<1>2. CASE \E b \in Blocklists : ChangeBlocklist(b)
  BY <1>2 DEF ChangeBlocklist
<1>3. ASSUME NEW e \in Events, NEW s \in BOOLEAN, NEW n \in BOOLEAN, Call(e, s, n) \/ CallFails(e, s, n)
      PROVE  ExitInv'
  BY <1>3 DEF Call, CallFails, Called
<1>4. CASE \E m \in Manifests : Read(m) \/ Misread(m)
  BY <1>4 DEF Read, Misread, TypeOK, FlagsOK
<1>5. CASE Refuse \/ NoManager \/ Skip \/ Admit
  BY <1>5 DEF Refuse, NoManager, Skip, Admit, TypeOK, FlagsOK
<1>6. CASE NothingToRun \/ ManagerRuns \/ ManagerFails
  BY <1>6 DEF NothingToRun, ManagerRuns, ManagerFails, RunOrWarnFails, TypeOK, FlagsOK
<1>7. CASE SelfcheckRuns \/ SelfcheckFails
  BY <1>7 DEF SelfcheckRuns, SelfcheckFails, RunOrWarnFails, TypeOK, FlagsOK
<1>8. CASE Close \/ Mark
  BY <1>8 DEF Close, Mark, TypeOK, FlagsOK
<1>9. CASE Report
  BY <1>9 DEF Report, TypeOK, FlagsOK
<1>10. CASE Die
  BY <1>10 DEF Die
<1>11. CASE Finish \/ UNCHANGED vars
  BY <1>11 DEF Finish, vars
<1>. QED  BY <1>1, <1>2, <1>3, <1>4, <1>5, <1>6, <1>7, <1>8, <1>9, <1>10, <1>11 DEF Next

\* A call that is not cut short fails exactly when it is strict and something
\* went wrong; else it has come to every manifest.
THEOREM ExitIsTruthful == Spec => []ExitIsStrict
<1>1. Init => ExitInv
  BY DEF Init, ExitInv, ExitIsStrict
<1>2. TypeOK /\ ExitInv /\ [Next]_vars => ExitInv'
  BY ExitStep
<1>3. ExitInv => ExitIsStrict
  BY DEF ExitInv
<1>. QED  BY <1>1, <1>2, <1>3, HookTypeCorrect, PTL DEF Spec
=============================================================================
