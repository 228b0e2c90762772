------------------------ MODULE MaintainFleetProofs ------------------------
(* Theorems about MaintainFleet and their proofs. *)
EXTENDS MaintainFleet, FiniteSetTheorems, TLAPS

\* A node is in one of the three modes; the last row is a node.
LEMMA Modes == /\ \A n \in Nodes : Mode(n) \in {"local", "gh", "compute"}
               /\ ScpHost \in Nodes
<1>. DEFINE S == [mode: {"local", "gh", "compute"}, slots: Nat \ {0}]
<1>1. Rows \in Seq(S) /\ Rows # <<>>
  BY MaintainAssumption
<1>2. Len(Rows) \in Nat \ {0} /\ DOMAIN Rows = 1..Len(Rows) /\ \A n \in Nodes : Rows[n] \in S
  <2>. HIDE DEF S
  <2>. QED BY <1>1 DEF Nodes
<1>. QED BY <1>2 DEF Nodes, Mode, ScpHost

----------------------------------------------------------------------------
(* Types need to know which key a handler works on. *)

Handling == {"pull", "publish", "upload", "tidy", "clear", "restart", "ship", "launch"}
Polling  == {"poll", "pull", "publish", "upload", "tidy", "clear", "restart"}

\* The key at hand is assigned and no longer to be visited; the first half of a
\* pass visits running keys; a retry is one that is left; no process, no tables.
CurIsAssigned ==
    /\ pc \in {"idle", "hung"} => running = {} /\ left = {}
    /\ pc \in Polling => left \subseteq running
    /\ pc \in Handling => cur \in assign /\ cur \notin left
    /\ pc \in {"clear", "restart"} => cur \in running /\ attempt[cur] < Attempts

\* A step is one of these.
LEMMA NextCases ==
  ASSUME [Next]_vars
  PROVE  \/ Begin \/ Enter \/ Fill \/ Again \/ Ends \/ Hang
         \/ Pull \/ Unpublish \/ Publish \/ Tidy \/ ClearMarks \/ Restart \/ Ship \/ Launch
         \/ \E n \in Nodes : LocalExit(n) \/ Equip(n) \/ LaunchFleet(n) \/ Prepare(n)
                             \/ FleetPushEnds(n) \/ NodeDies(n)
         \/ \E n \in Nodes, v \in Vers : LocalUpload(n, v) \/ FleetUpload(n, v) \/ FleetMark(n, v)
         \/ \E k \in Keys : \/ \E answer \in BOOLEAN : StillRunning(k, answer)
                            \/ NodeUploaded(k) \/ Exhausted(k) \/ Handle(k)
                            \/ PassBy(k) \/ Announce(k)
         \/ \E k \in Keys : JobWrites(k) \/ JobDone(k) \/ JobFails(k)
         \/ UNCHANGED vars
  BY DEF Next, Run, Loop, Handler, Dispatch, Visit, Finish, Abort, FleetStep, JobStep

Typed == TypeOK /\ CurIsAssigned

\* Before the first run.
LEMMA InitTyped == Init => Typed
<1>. SUFFICES ASSUME Init PROVE Typed
  OBVIOUS
<1>1. runs \in Seq((SUBSET Nodes) \ {{}})
  BY MaintainAssumption DEF Init
<1>2. stale \in [Keys -> BOOLEAN] /\ progress \in BOOLEAN
  BY Zenon DEF Init
<1>3. attempt \in [Keys -> 0..Attempts]
  BY MaintainAssumption DEF Init
<1>4. tool \subseteq Nodes
  BY MaintainAssumption DEF Init
<1>5. fleet \in [Nodes -> [at: {"none", "push", "mark"}, vers: SUBSET Vers]]
  BY DEF Init, NoFleet
<1>. QED BY <1>1, <1>2, <1>3, <1>4, <1>5
         DEF Init, Typed, TypeOK, CurIsAssigned, Handling, Polling, Files, Content

\* The steps of the loops that are not about one key.
LEMMA LoopTyped ==
  ASSUME Typed, Begin \/ Enter \/ Fill \/ Again \/ Ends \/ Hang
  PROVE  Typed'
<1>. USE DEF Typed, TypeOK, CurIsAssigned, Handling, Polling, loopVars, hereVars, nodeVars, histVars
<1>1. CASE Begin
  <2>1. runs' \in Seq((SUBSET Nodes) \ {{}}) /\ Head(runs) \subseteq Nodes
    BY <1>1 DEF Begin
  <2>2. assign' \subseteq Keys /\ due' \subseteq Nodes /\ left' \subseteq assign' /\ running' \subseteq assign'
    BY <1>1, <2>1 DEF Begin
  <2>. QED BY <1>1, <2>1, <2>2 DEF Begin, Journal, Content
<1>2. CASE Enter \/ Again
  BY <1>2 DEF Enter, Again, NewPass, PassEnd
<1>3. CASE Fill
  BY <1>3 DEF Fill
<1>4. CASE Ends \/ Hang
  <2>1. attempt' \in [Keys -> 0..Attempts] /\ starts' \in [Nodes -> Nat]
    BY <1>4, MaintainAssumption DEF Ends, Hang, Leaves
  <2>. QED BY <1>4, <2>1 DEF Ends, Hang, Leaves, Files
<1>. QED BY <1>1, <1>2, <1>3, <1>4

\* Starting a session.
LEMMA SessionType ==
  ASSUME TypeOK
  PROVE  /\ \A k \in Keys : StartJob(k) =>
               /\ job' \in [Keys -> {"none", "new", "xz"}] /\ stale' \in [Keys -> BOOLEAN]
               /\ fleet' = fleet /\ starts' = starts
         /\ \A n \in Nodes : StartFleet(n) =>
               /\ fleet' \in [Nodes -> [at: {"none", "push", "mark"}, vers: SUBSET Vers]]
               /\ starts' \in [Nodes -> Nat]
               /\ job' = job /\ stale' = stale
<1>1. ASSUME NEW k \in Keys, StartJob(k)
      PROVE  /\ job' \in [Keys -> {"none", "new", "xz"}]
             /\ fleet' = fleet /\ starts' = starts
  BY <1>1 DEF TypeOK, StartJob
<1>2. ASSUME NEW k \in Keys, StartJob(k)
      PROVE  stale' \in [Keys -> BOOLEAN]
  <2>1. stale' = [stale EXCEPT ![k] = "done" \in marks[k]] /\ stale \in [Keys -> BOOLEAN]
    BY <1>2 DEF TypeOK, StartJob
  <2>2. ("done" \in marks[k]) \in BOOLEAN
    OBVIOUS
  <2>. QED BY <2>1, <2>2, Zenon
<1>3. ASSUME NEW n \in Nodes, StartFleet(n)
      PROVE  /\ fleet' \in [Nodes -> [at: {"none", "push", "mark"}, vers: SUBSET Vers]]
             /\ starts' \in [Nodes -> Nat]
             /\ job' = job /\ stale' = stale
  BY <1>3 DEF TypeOK, StartFleet, Of
<1>. QED BY <1>1, <1>2, <1>3

\* The steps of the handlers.
LEMMA HandlerTyped ==
  ASSUME Typed, Pull \/ Unpublish \/ Publish \/ Tidy \/ ClearMarks \/ Restart \/ Ship \/ Launch
  PROVE  Typed'
<1>. USE DEF Typed, TypeOK, CurIsAssigned, Handling, Polling, loopVars, hereVars, nodeVars, histVars
<1>0. cur \in Keys /\ cur[1] \in Nodes /\ cur[2] \in Vers /\ cur \in assign /\ cur \notin left
  BY DEF Pull, Unpublish, Publish, Put, Tidy, ClearMarks, Restart, Ship, Launch, Keys
<1>1. CASE Pull
  <2>1. <<ScpHost, cur[2]>> \in Keys
    BY <1>0, Modes DEF Keys
  <2>2. copy' \in Files
    BY <1>1, <2>1 DEF Pull
  <2>. QED BY <1>1, <2>2 DEF Pull
<1>2. CASE Unpublish \/ Publish
  BY <1>2, <1>0 DEF Unpublish, Publish, Put, Files
<1>3. CASE Tidy
  BY <1>3, <1>0 DEF Tidy, Settle, Journal, Content, Files
<1>4. CASE ClearMarks
  BY <1>4, <1>0 DEF ClearMarks, Mark
<1>5. CASE Restart
  <2>1. attempt' \in [Keys -> 0..Attempts]
    BY <1>5, <1>0, MaintainAssumption DEF Restart, Count
  <2>2. /\ job' \in [Keys -> {"none", "new", "xz"}] /\ stale' \in [Keys -> BOOLEAN]
        /\ fleet' \in [Nodes -> [at: {"none", "push", "mark"}, vers: SUBSET Vers]]
        /\ starts' \in [Nodes -> Nat]
    BY <1>5, <1>0, SessionType DEF Restart
  <2>. QED BY <1>5, <2>1, <2>2 DEF Restart
<1>6. CASE Ship
  BY <1>6, <1>0, Modes DEF Ship
<1>7. CASE Launch
  <2>1. attempt' \in [Keys -> 0..Attempts]
    BY <1>7, <1>0, MaintainAssumption DEF Launch
  <2>2. /\ job' \in [Keys -> {"none", "new", "xz"}] /\ stale' \in [Keys -> BOOLEAN]
        /\ fleet' \in [Nodes -> [at: {"none", "push", "mark"}, vers: SUBSET Vers]]
        /\ starts' \in [Nodes -> Nat]
    BY <1>7, <1>0, SessionType DEF Launch
  <2>. QED BY <1>7, <1>0, <2>1, <2>2 DEF Launch
<1>. QED BY <1>1, <1>2, <1>3, <1>4, <1>5, <1>6, <1>7

\* The steps of one node.
LEMMA NodeTyped ==
  ASSUME Typed, NEW n \in Nodes,
         LocalExit(n) \/ Equip(n) \/ LaunchFleet(n) \/ Prepare(n) \/ FleetPushEnds(n) \/ NodeDies(n)
  PROVE  Typed'
<1>. USE DEF Typed, TypeOK, CurIsAssigned, Handling, Polling, loopVars, hereVars, nodeVars, histVars
<1>1. CASE LocalExit(n)
  BY <1>1 DEF LocalExit, Turn, Journal, Content
<1>2. CASE Equip(n)
  BY <1>2, Modes DEF Equip, Turn
<1>3. CASE LaunchFleet(n)
  <2>1. \A v \in Of(n) : <<n, v>> \in assign
    BY DEF Of
  <2>2. running' \subseteq assign
    BY <1>3, <2>1 DEF LaunchFleet
  <2>3. attempt' \in [Keys -> 0..Attempts]
    BY <1>3, MaintainAssumption DEF LaunchFleet
  <2>. QED BY <1>3, <2>2, <2>3, SessionType DEF LaunchFleet
<1>4. CASE Prepare(n)
  BY <1>4 DEF Prepare, Turn
<1>5. CASE FleetPushEnds(n)
  BY <1>5 DEF FleetPushEnds
<1>6. CASE NodeDies(n)
  BY <1>6 DEF NodeDies, NoFleet
<1>. QED BY <1>1, <1>2, <1>3, <1>4, <1>5, <1>6

\* The steps of one version on a node that runs fleet-push.py.
LEMMA FleetTyped ==
  ASSUME Typed, NEW n \in Nodes, NEW v \in Vers,
         LocalUpload(n, v) \/ FleetUpload(n, v) \/ FleetMark(n, v)
  PROVE  Typed'
<1>. USE DEF Typed, TypeOK, CurIsAssigned, Handling, Polling, loopVars, hereVars, nodeVars, histVars
<1>1. CASE LocalUpload(n, v) \/ FleetUpload(n, v)
  BY <1>1 DEF LocalUpload, FleetUpload, Put
<1>2. CASE FleetMark(n, v)
  <2>1. marks' \in [Keys -> SUBSET {"done", "failed"}]
    BY <1>2 DEF FleetMark, Mark, Verdicts, Keys
  <2>2. fleet' \in [Nodes -> [at: {"none", "push", "mark"}, vers: SUBSET Vers]]
    <3>1. fleet[n] \in [at: {"none", "push", "mark"}, vers: SUBSET Vers]
      OBVIOUS
    <3>2. [at |-> "mark", vers |-> fleet[n].vers \ {v}] \in [at: {"none", "push", "mark"}, vers: SUBSET Vers]
      BY <3>1
    <3>3. NoFleet \in [at: {"none", "push", "mark"}, vers: SUBSET Vers]
      BY DEF NoFleet
    <3>. QED BY <1>2, <3>2, <3>3 DEF FleetMark
  <2>. QED BY <1>2, <2>1, <2>2 DEF FleetMark
<1>. QED BY <1>1, <1>2

\* A visit to one key.
LEMMA VisitTyped ==
  ASSUME Typed, NEW k \in Keys,
         \/ \E answer \in BOOLEAN : StillRunning(k, answer)
         \/ NodeUploaded(k) \/ Exhausted(k) \/ Handle(k) \/ PassBy(k) \/ Announce(k)
  PROVE  Typed'
<1>. USE DEF Typed, TypeOK, CurIsAssigned, Handling, Polling, loopVars, hereVars, nodeVars, histVars
<1>1. CASE \E answer \in BOOLEAN : StillRunning(k, answer)
  BY <1>1 DEF StillRunning, Seen
<1>2. CASE NodeUploaded(k) \/ Exhausted(k)
  BY <1>2 DEF NodeUploaded, Exhausted, Seen, Settle, Journal, Content
<1>3. CASE PassBy(k)
  BY <1>3 DEF PassBy, First
<1>4. CASE Announce(k)
  BY <1>4 DEF Announce, First, Journal, Content
<1>5. CASE Handle(k)
  BY <1>5, MaintainAssumption DEF Handle, Seen, MayRetry
<1>. QED BY <1>1, <1>2, <1>3, <1>4, <1>5

\* The steps of one job.
LEMMA JobTyped ==
  ASSUME Typed, NEW k \in Keys, JobWrites(k) \/ JobDone(k) \/ JobFails(k)
  PROVE  Typed'
<1>. USE DEF Typed, TypeOK, CurIsAssigned, Handling, Polling, loopVars, hereVars, nodeVars, histVars
<1>1. CASE JobWrites(k)
  BY <1>1 DEF JobWrites, Files
<1>2. CASE JobDone(k) \/ JobFails(k)
  <2>1. marks' \in [Keys -> SUBSET {"done", "failed"}]
    <3>1. PICK m \in {"done", "failed"} : marks' = [marks EXCEPT ![k] = marks[k] \cup {m}]
      BY <1>2 DEF JobDone, JobFails, Mark
    <3>2. marks[k] \cup {m} \in SUBSET {"done", "failed"}
      OBVIOUS
    <3>. QED BY <3>1, <3>2
  <2>2. out' \in [Keys -> Files] /\ job' \in [Keys -> {"none", "new", "xz"}]
    BY <1>2 DEF JobDone, JobFails, Files
  <2>. QED BY <1>2, <2>1, <2>2 DEF JobDone, JobFails
<1>. QED BY <1>1, <1>2

\* Every step keeps the types.
LEMMA NextTyped == Typed /\ [Next]_vars => Typed'
<1>1. Typed /\ UNCHANGED vars => Typed'
  BY DEF Typed, TypeOK, CurIsAssigned, vars, loopVars, hereVars, nodeVars, histVars
<1>. QED BY <1>1, NextCases, LoopTyped, HandlerTyped, NodeTyped, FleetTyped, VisitTyped, JobTyped

\* Every variable stays in its range: the key a handler works on is one of the
\* run's own, and no version is tried more often than --attempts allows.
THEOREM MaintainTypeCorrect == Spec => []TypeOK
<1>. QED BY InitTyped, NextTyped, PTL DEF Spec, Typed

----------------------------------------------------------------------------
(* What a marker is worth.  fleet-run.sh writes .done beside an asset that   *)
(* is on the release; upx-job.sh writes it beside a complete output.         *)

\* The handlers of a compute node work on keys of compute nodes, and what a
\* pass has still to launch are such keys; no local version is ever running.
ComputeOnly ==
    /\ pc \in {"pull", "publish", "upload", "tidy", "ship", "launch"} => Mode(cur[1]) = "compute"
    /\ pc \in {"fill", "ship", "launch"} => \A k \in left : Mode(k[1]) = "compute"
    /\ \A k \in running : Mode(k[1]) # "local"
    /\ \A k \in Keys : job[k] # "none" \/ out[k] # "none" => Mode(k[1]) = "compute"
    /\ \A n \in Nodes : fleet[n].at # "none" => Mode(n) = "gh"

\* Published, and at most taken off the release again by a replacement: what is
\* marked done on a gh node, or went through Publish here.
MarkedIsReleased ==
    /\ \A k \in Keys : Mode(k[1]) = "gh" /\ "done" \in marks[k] => k[2] \in release \cup gone
    /\ pc = "tidy" => cur[2] \in release \cup gone

\* A marker that the job itself wrote stands beside a complete output.
FreshIsWhole ==
    /\ \A k \in Keys : "done" \in marks[k] /\ ~stale[k] => job[k] = "none" /\ out[k] # "part"
    /\ pc = "pull" => "done" \in marks[cur]

Inv == Typed /\ ComputeOnly /\ MarkedIsReleased /\ FreshIsWhole /\ DoneIsReleased

\* Before the first run.
LEMMA InitInv == Init => Inv
<1>1. Init => ComputeOnly /\ MarkedIsReleased /\ FreshIsWhole /\ DoneIsReleased
  BY DEF Init, ComputeOnly, MarkedIsReleased, FreshIsWhole, DoneIsReleased, NoFleet
<1>. QED BY <1>1, InitTyped DEF Inv

\* Only compute nodes run jobs, only gh nodes run fleet-run.sh.
LEMMA NextComputeOnly ==
  ASSUME Inv, [Next]_vars
  PROVE  ComputeOnly'
<1>. USE DEF Inv, Typed, CurIsAssigned, Handling, Polling, ComputeOnly,
             loopVars, hereVars, nodeVars, histVars
<1>0. /\ assign \subseteq Keys /\ running \subseteq assign /\ left \subseteq assign
      /\ job \in [Keys -> {"none", "new", "xz"}] /\ out \in [Keys -> Files]
      /\ fleet \in [Nodes -> [at: {"none", "push", "mark"}, vers: SUBSET Vers]]
      /\ \A k \in Keys : k[1] \in Nodes
  BY DEF TypeOK, Keys
<1>1. CASE Begin \/ Enter \/ Fill \/ Again \/ Ends \/ Hang
  BY <1>1 DEF Begin, Enter, Fill, Again, NewPass, PassEnd, Ends, Hang, Leaves
<1>2. CASE Pull \/ Unpublish \/ Publish \/ Tidy \/ ClearMarks \/ Ship
  BY <1>0, <1>2 DEF Pull, Unpublish, Publish, Put, Tidy, Settle, ClearMarks, Ship
<1>3. CASE Restart
  <2>1. cur \in Keys /\ cur[1] \in Nodes /\ (Mode(cur[1]) = "compute" \/ Mode(cur[1]) = "gh")
    BY <1>0, <1>3, Modes DEF Restart
  <2>2. \A k \in Keys : job'[k] # "none" => job[k] # "none" \/ (k = cur /\ Mode(cur[1]) = "compute")
    <3>1. CASE Mode(cur[1]) = "compute"
      <4>1. StartJob(cur)
        BY <1>3, <3>1 DEF Restart
      <4>. QED BY <4>1, <3>1, <1>0 DEF StartJob
    <3>2. CASE Mode(cur[1]) # "compute"
      BY <1>3, <3>2 DEF Restart, StartFleet
    <3>. QED BY <3>1, <3>2
  <2>3. \A n \in Nodes : fleet'[n].at # "none" => fleet[n].at # "none" \/ (n = cur[1] /\ Mode(n) = "gh")
    <3>1. CASE fleet' = fleet
      BY <3>1
    <3>2. CASE fleet' = [fleet EXCEPT ![cur[1]] = [at |-> "push", vers |-> Of(cur[1])]]
                /\ Mode(cur[1]) = "gh"
      BY <3>2, <2>1, <1>0
    <3>. QED BY <1>3, <2>1, <3>1, <3>2 DEF Restart, StartJob, StartFleet
  <2>. QED BY <1>3, <2>2, <2>3 DEF Restart
<1>4. CASE Launch
  <2>1. \A k \in Keys : job'[k] # "none" => job[k] # "none" \/ k = cur
    BY <1>4, <1>0 DEF Launch, StartJob
  <2>. QED BY <1>4, <1>0, <2>1 DEF Launch, StartJob
<1>5. ASSUME NEW n \in Nodes, LocalExit(n) \/ Equip(n) \/ LaunchFleet(n) \/ Prepare(n)
                              \/ FleetPushEnds(n) \/ NodeDies(n)
      PROVE  ComputeOnly'
  <2>1. CASE LocalExit(n) \/ Equip(n) \/ Prepare(n)
    BY <2>1 DEF LocalExit, Equip, Prepare, Turn
  <2>2. CASE LaunchFleet(n)
    <3>1. Mode(n) = "gh"
      BY <2>2 DEF LaunchFleet
    <3>2. fleet' = [fleet EXCEPT ![n] = [at |-> "push", vers |-> Of(n)]] /\ UNCHANGED job
      BY <2>2 DEF LaunchFleet, StartFleet
    <3>3. \A m \in Nodes : fleet'[m].at # "none" => fleet[m].at # "none" \/ m = n
      BY <3>2, <1>0
    <3>. QED BY <2>2, <3>1, <3>2, <3>3 DEF LaunchFleet
  <2>3. CASE FleetPushEnds(n)
    BY <2>3, <1>0 DEF FleetPushEnds
  <2>4. CASE NodeDies(n)
    BY <2>4, <1>0 DEF NodeDies, NoFleet
  <2>. QED BY <1>5, <2>1, <2>2, <2>3, <2>4
<1>6. ASSUME NEW n \in Nodes, NEW v \in Vers,
             LocalUpload(n, v) \/ FleetUpload(n, v) \/ FleetMark(n, v)
      PROVE  ComputeOnly'
  <2>1. \A m \in Nodes : fleet'[m].at # "none" => fleet[m].at # "none"
    BY <1>6, <1>0 DEF LocalUpload, FleetUpload, Put, FleetMark, NoFleet
  <2>. QED BY <1>6, <2>1 DEF LocalUpload, FleetUpload, Put, FleetMark
<1>7. ASSUME NEW k \in Keys,
             \/ \E answer \in BOOLEAN : StillRunning(k, answer)
             \/ NodeUploaded(k) \/ Exhausted(k) \/ Handle(k) \/ PassBy(k) \/ Announce(k)
      PROVE  ComputeOnly'
  BY <1>7 DEF StillRunning, NodeUploaded, Exhausted, Settle, Handle, Seen, PassBy, Announce, First
<1>8. ASSUME NEW k \in Keys, JobWrites(k) \/ JobDone(k) \/ JobFails(k)
      PROVE  ComputeOnly'
  BY <1>8, <1>0 DEF JobWrites, JobDone, JobFails
<1>9. CASE UNCHANGED vars
  BY <1>9 DEF vars
<1>. QED BY <1>1, <1>2, <1>3, <1>4, <1>5, <1>6, <1>7, <1>8, <1>9, NextCases

\* A step adds a "done" marker for a published version, or for a job's output.
LEMMA NewMark ==
  ASSUME Inv, [Next]_vars, NEW k \in Keys, "done" \in marks'[k], "done" \notin marks[k]
  PROVE  \/ k[2] \in release /\ Mode(k[1]) = "gh" /\ UNCHANGED <<job, out>>
         \/ JobDone(k)
<1>. USE DEF loopVars, hereVars, nodeVars, histVars
<1>0. marks \in [Keys -> SUBSET {"done", "failed"}]
  BY DEF Inv, Typed, TypeOK
<1>1. CASE \E n \in Nodes, v \in Vers : FleetMark(n, v)
  <2>1. PICK n \in Nodes, v \in Vers : FleetMark(n, v)
    BY <1>1
  <2>2. PICK m \in Verdicts(v) : marks' = [marks EXCEPT ![<<n, v>>] = marks[<<n, v>>] \cup {m}]
    BY <2>1 DEF FleetMark, Mark
  <2>3. k = <<n, v>> /\ m = "done"
    BY <2>2, <1>0
  <2>4. v \in release /\ Mode(n) = "gh"
    BY <2>1, <2>2, <2>3 DEF Verdicts, FleetMark, Inv, ComputeOnly
  <2>. QED BY <2>1, <2>3, <2>4 DEF FleetMark
<1>2. ASSUME NEW j \in Keys, JobDone(j) \/ JobFails(j) PROVE JobDone(k)
  BY <1>0, <1>2 DEF JobDone, JobFails, Mark
<1>3. CASE marks' = marks
  BY <1>3
<1>4. CASE ClearMarks
  BY <1>0, <1>4 DEF ClearMarks, Mark
<1>5. \/ marks' = marks \/ ClearMarks
      \/ \E n \in Nodes, v \in Vers : FleetMark(n, v)
      \/ \E j \in Keys : JobDone(j) \/ JobFails(j)
  BY NextCases DEF Begin, Enter, Fill, Again, Ends, Hang, Leaves, Pull, Unpublish, Publish, Put,
     Tidy, Restart, Ship, Launch, LocalExit, Equip, LaunchFleet, Prepare, FleetPushEnds,
     NodeDies, LocalUpload, FleetUpload, StillRunning, NodeUploaded, Exhausted, Handle, PassBy,
     Announce, JobWrites, vars
<1>. QED BY <1>1, <1>2, <1>3, <1>4, <1>5

\* What leaves the release leaves it for gone.
LEMMA ReleaseGrows ==
  ASSUME [Next]_vars
  PROVE  release \cup gone \subseteq release' \cup gone'
  BY NextCases DEF Begin, Enter, Fill, Again, Ends, Hang, Leaves, Pull, Unpublish, Publish, Put,
     Tidy, ClearMarks, Restart, Ship, Launch, LocalExit, Equip, LaunchFleet, Prepare,
     FleetPushEnds, NodeDies, LocalUpload, FleetUpload, FleetMark, StillRunning, NodeUploaded,
     Exhausted, Handle, PassBy, Announce, JobWrites, JobDone, JobFails, vars, loopVars, hereVars,
     nodeVars, histVars

\* What is marked done on a gh node is published, and what is tidied is.
LEMMA NextMarked ==
  ASSUME Inv, [Next]_vars
  PROVE  MarkedIsReleased'
<1>1. ASSUME NEW k \in Keys, Mode(k[1]) = "gh", "done" \in marks'[k]
      PROVE  k[2] \in release' \cup gone'
  <2>1. CASE "done" \in marks[k]
    BY <1>1, <2>1, ReleaseGrows DEF Inv, MarkedIsReleased
  <2>2. CASE "done" \notin marks[k]
    <3>1. ~JobDone(k)
      BY <1>1 DEF JobDone, Inv, ComputeOnly
    <3>. QED BY <1>1, <2>2, <3>1, NewMark, ReleaseGrows
  <2>. QED BY <2>1, <2>2
<1>2. ASSUME pc' = "tidy" PROVE cur'[2] \in release' \cup gone'
  <2>1. Publish \/ (pc = "tidy" /\ cur' = cur)
    BY <1>2, NextCases DEF Begin, Enter, Fill, Again, NewPass, Ends, Hang, Leaves, Pull,
       Unpublish, Tidy, ClearMarks, Restart, Ship, Launch, LocalExit, Equip, LaunchFleet,
       Prepare, Turn, FleetPushEnds, NodeDies, LocalUpload, FleetUpload, Put, FleetMark,
       StillRunning, NodeUploaded, Exhausted, Handle, Seen, PassBy, Announce, First, JobWrites,
       JobDone, JobFails, vars, loopVars
  <2>. QED BY <2>1, ReleaseGrows DEF Unpublish, Publish, Put, loopVars, Inv, MarkedIsReleased
<1>. QED BY <1>1, <1>2 DEF MarkedIsReleased

\* What the journal calls done is published.
LEMMA NextDone ==
  ASSUME Inv, [Next]_vars
  PROVE  DoneIsReleased'
<1>. USE DEF Inv, Typed, TypeOK
<1>. SUFFICES ASSUME NEW k \in Keys, journal'[k] = "done", Mode(k[1]) # "local"
              PROVE  k[2] \in release' \cup gone'
  BY DEF DoneIsReleased
<1>1. CASE journal[k] = "done"
  BY <1>1, ReleaseGrows DEF DoneIsReleased
<1>2. ASSUME NEW n \in Nodes, LocalExit(n), journal[k] # "done" PROVE FALSE
  BY <1>2 DEF LocalExit, Turn, Journal
<1>3. CASE NodeUploaded(k)
  BY <1>3, Modes, ReleaseGrows DEF NodeUploaded, MarkedIsReleased, Keys
<1>4. ASSUME NEW j \in Keys, NodeUploaded(j), journal[k] # "done" PROVE j = k
  BY <1>4 DEF NodeUploaded, Settle, Journal
<1>5. CASE Tidy /\ journal[k] # "done"
  BY <1>5, ReleaseGrows DEF Tidy, Settle, Journal, MarkedIsReleased
<1>6. ASSUME journal[k] # "done"
      PROVE  \/ Tidy
             \/ \E n \in Nodes : LocalExit(n)
             \/ \E j \in Keys : NodeUploaded(j)
  BY <1>6, NextCases DEF Begin, Enter, Fill, Again, Ends, Hang, Leaves, Pull, Unpublish, Publish,
     Put, ClearMarks, Restart, Ship, Launch, Equip, LaunchFleet, Prepare, FleetPushEnds,
     NodeDies, LocalUpload, FleetUpload, FleetMark, StillRunning, Exhausted, Settle, Handle,
     PassBy, Announce, Journal, JobWrites, JobDone, JobFails, vars
<1>. QED BY <1>1, <1>2, <1>3, <1>4, <1>5, <1>6

\* A job's own marker stands beside a complete output.
LEMMA NextFresh ==
  ASSUME Inv, [Next]_vars
  PROVE  FreshIsWhole'
<1>. USE DEF loopVars, hereVars, nodeVars, histVars
<1>0. /\ marks \in [Keys -> SUBSET {"done", "failed"}] /\ out \in [Keys -> Files]
      /\ job \in [Keys -> {"none", "new", "xz"}] /\ stale \in [Keys -> BOOLEAN]
  BY DEF Inv, Typed, TypeOK
<1>1. ASSUME NEW k \in Keys, "done" \in marks'[k], ~stale'[k]
      PROVE  job'[k] = "none" /\ out'[k] # "part"
  <2>1. CASE "done" \notin marks[k]
    <3>1. CASE JobDone(k)
      BY <1>0, <3>1 DEF JobDone
    <3>2. CASE Mode(k[1]) = "gh" /\ UNCHANGED <<job, out>>
      BY <3>2, <1>0 DEF Inv, ComputeOnly
    <3>. QED BY <1>1, <2>1, <3>1, <3>2, NewMark
  <2>2. CASE "done" \in marks[k] /\ ~stale[k]
    <3>1. job[k] = "none" /\ out[k] # "part"
      BY <2>2 DEF Inv, FreshIsWhole
    <3>2. ASSUME NEW j \in Keys, StartJob(j) PROVE job'[k] = "none"
      <4>1. j # k
        BY <1>1, <2>2, <3>2, <1>0, Zenon DEF StartJob
      <4>. QED BY <3>1, <3>2, <4>1, <1>0 DEF StartJob
    <3>3. CASE Restart \/ Launch
      <4>1. cur \in Keys
        BY <3>3 DEF Restart, Launch, Inv, Typed, TypeOK, CurIsAssigned, Handling
      <4>2. StartJob(cur) \/ job' = job
        BY <3>3 DEF Restart, Launch, StartFleet
      <4>. QED BY <3>1, <3>2, <3>3, <4>1, <4>2 DEF Restart, Launch
    <3>4. CASE Tidy
      BY <3>1, <3>4, <1>0 DEF Tidy
    <3>5. CASE \E n \in Nodes : NodeDies(n)
      BY <3>1, <3>5, <1>0 DEF NodeDies
    <3>6. ASSUME NEW j \in Keys, JobWrites(j) \/ JobDone(j) \/ JobFails(j)
          PROVE  job'[k] = "none" /\ out'[k] # "part"
      BY <3>1, <3>6, <1>0 DEF JobWrites, JobDone, JobFails
    <3>7. CASE UNCHANGED <<job, out>>
      BY <3>1, <3>7
    <3>8. \/ UNCHANGED <<job, out>> \/ Restart \/ Launch \/ Tidy \/ \E n \in Nodes : NodeDies(n)
          \/ \E j \in Keys : JobWrites(j) \/ JobDone(j) \/ JobFails(j)
      BY NextCases DEF Begin, Enter, Fill, Again, Ends, Hang, Leaves, Pull, Unpublish, Publish,
         Put, ClearMarks, Ship, LocalExit, Equip, LaunchFleet, StartFleet, Prepare,
         FleetPushEnds, LocalUpload, FleetUpload, FleetMark, StillRunning, NodeUploaded,
         Exhausted, Handle, PassBy, Announce, vars
    <3>. QED BY <3>3, <3>4, <3>5, <3>6, <3>7, <3>8
  <2>3. CASE "done" \in marks[k] /\ stale[k]
    <3>1. ASSUME NEW j \in Keys, StartJob(j) PROVE FALSE
      BY <1>0, <1>1, <2>3, <3>1, Zenon DEF StartJob
    <3>2. CASE Restart \/ Launch
      <4>1. cur \in Keys
        BY <3>2 DEF Restart, Launch, Inv, Typed, TypeOK, CurIsAssigned, Handling
      <4>2. StartJob(cur) \/ stale' = stale
        BY <3>2 DEF Restart, Launch, StartFleet
      <4>. QED BY <1>1, <2>3, <3>1, <4>1, <4>2
    <3>3. stale' = stale \/ Restart \/ Launch
      BY NextCases DEF Begin, Enter, Fill, Again, Ends, Hang, Leaves, Pull, Unpublish, Publish,
         Put, Tidy, ClearMarks, Ship, LocalExit, Equip, LaunchFleet, StartFleet, Prepare,
         FleetPushEnds, NodeDies, LocalUpload, FleetUpload, FleetMark, StillRunning,
         NodeUploaded, Exhausted, Handle, PassBy, Announce, JobWrites, JobDone, JobFails, vars
    <3>. QED BY <1>1, <2>3, <3>2, <3>3
  <2>. QED BY <2>1, <2>2, <2>3
<1>2. ASSUME pc' = "pull" PROVE "done" \in marks'[cur']
  <2>1. \/ \E k \in Keys : Handle(k)
        \/ (pc = "pull" /\ cur' = cur)
    BY <1>2, NextCases DEF Begin, Enter, Fill, Again, NewPass, Ends, Hang, Leaves, Unpublish,
       Publish, Put, Tidy, ClearMarks, Restart, Ship, Launch, LocalExit, Equip, LaunchFleet,
       Prepare, Turn, FleetPushEnds, NodeDies, LocalUpload, FleetUpload, FleetMark, StillRunning,
       NodeUploaded, Exhausted, Seen, PassBy, Announce, First, JobWrites, JobDone, JobFails,
       Pull, vars
  <2>2. CASE \E k \in Keys : Handle(k)
    BY <1>2, <2>2 DEF Handle
  <2>3. CASE pc = "pull" /\ cur' = cur
    <3>1. "done" \in marks[cur] /\ cur \in Keys
      BY <2>3 DEF Inv, FreshIsWhole, Typed, TypeOK, CurIsAssigned, Handling
    <3>2. ASSUME NEW k \in Keys PROVE marks[k] \subseteq marks'[k]
      <4>1. ~ClearMarks
        BY <2>3 DEF ClearMarks
      <4>2. ASSUME NEW j \in Keys, NEW ms, Mark(j, marks[j] \cup ms) PROVE marks[k] \subseteq marks'[k]
        BY <4>2, <1>0 DEF Mark
      <4>3. CASE \E n \in Nodes, v \in Vers : FleetMark(n, v)
        BY <4>2, <4>3 DEF FleetMark, Keys
      <4>4. CASE \E j \in Keys : JobDone(j) \/ JobFails(j)
        BY <4>2, <4>4 DEF JobDone, JobFails
      <4>5. \/ marks' = marks
            \/ \E n \in Nodes, v \in Vers : FleetMark(n, v)
            \/ \E j \in Keys : JobDone(j) \/ JobFails(j)
        BY <4>1, NextCases DEF Begin, Enter, Fill, Again, Ends, Hang, Leaves, Pull, Unpublish,
           Publish, Put, Tidy, Restart, Ship, Launch, LocalExit, Equip, LaunchFleet, Prepare,
           FleetPushEnds, NodeDies, LocalUpload, FleetUpload, StillRunning, NodeUploaded,
           Exhausted, Handle, PassBy, Announce, JobWrites, vars
      <4>. QED BY <4>3, <4>4, <4>5
    <3>. QED BY <2>3, <3>1, <3>2
  <2>. QED BY <2>1, <2>2, <2>3
<1>. QED BY <1>1, <1>2 DEF FreshIsWhole

\* The inductive invariant of the orchestrator and its nodes.
THEOREM MaintainInvariant == Spec => []Inv
<1>1. Inv /\ [Next]_vars => Inv'
  BY NextTyped, NextComputeOnly, NextMarked, NextDone, NextFresh DEF Inv
<1>. QED BY InitInv, <1>1, PTL DEF Spec

\* What the journal calls done on a remote node is on the release, for any
\* number of nodes, versions, attempts and runs.
THEOREM DoneIsOnTheRelease == Spec => []DoneIsReleased
  BY MaintainInvariant, PTL DEF Inv

\* A truncated output is never taken on the word of the job that wrote it.
THEOREM TruncatedMeansStale == Spec => TruncatedOnlyIfStale
<1>1. ASSUME Inv, [Next]_vars, pc = "pull", pc' = "publish", copy' = "part"
      PROVE  stale[cur] \/ cur[1] # ScpHost
  <2>1. Pull
    BY <1>1, NextCases DEF Begin, Enter, Fill, Again, NewPass, PassEnd, Ends, Hang, Leaves,
       Unpublish, Publish, Put, Tidy, ClearMarks, Restart, Ship, Launch, LocalExit, Equip,
       LaunchFleet, Prepare, Turn, FleetPushEnds, NodeDies, LocalUpload, FleetUpload, FleetMark,
       StillRunning, NodeUploaded, Exhausted, Handle, Seen, PassBy, Announce, First, JobWrites,
       JobDone, JobFails, vars
  <2>2. cur \in Keys /\ cur = <<cur[1], cur[2]>>
    BY <1>1 DEF Inv, Typed, TypeOK, CurIsAssigned, Handling, Keys
  <2>3. cur[1] = ScpHost => out[cur] = "part"
    BY <1>1, <2>1, <2>2 DEF Pull
  <2>. QED BY <1>1, <2>2, <2>3 DEF Inv, FreshIsWhole
<1>2. Inv /\ [Next]_vars =>
        [pc = "pull" /\ pc' = "publish" /\ copy' = "part" => stale[cur] \/ cur[1] # ScpHost]_vars
  BY <1>1
<1>. QED BY <1>2, MaintainInvariant, PTL DEF Spec, TruncatedOnlyIfStale

----------------------------------------------------------------------------
(* Verdicts. *)

\* A verdict on an assigned version of a gh or local node finds it neither
\* running nor waiting for the dispatch of its node.
Settled ==
    /\ pc \notin {"dispatch", "launch_fleet"} => due = {}
    /\ \A k \in assign : Mode(k[1]) # "compute" /\ journal[k] \in {"done", "failed"} =>
          k \notin running /\ k[1] \notin due

\* Every step leaves verdicts settled.
LEMMA NextSettled ==
  ASSUME Inv, Settled, [Next]_vars
  PROVE  Settled'
<1>. USE DEF Settled, loopVars, hereVars, nodeVars, histVars
<1>0. assign \subseteq Keys /\ running \subseteq assign /\ left \subseteq assign
  BY DEF Inv, Typed, TypeOK
<1>1. CASE Begin
  BY <1>1 DEF Begin, Journal, Inv, Typed, CurIsAssigned
<1>2. CASE Enter \/ Fill \/ Again \/ Ends \/ Hang
  BY <1>2 DEF Enter, Fill, Again, NewPass, PassEnd, Ends, Hang, Leaves
<1>3. CASE Pull \/ Unpublish \/ Publish \/ ClearMarks \/ Restart \/ Ship
  BY <1>3 DEF Pull, Unpublish, Publish, Put, ClearMarks, Restart, Ship
<1>4. CASE Tidy
  BY <1>4, <1>0 DEF Tidy, Settle, Journal
<1>5. CASE Launch
  BY <1>5 DEF Launch, Inv, ComputeOnly
<1>6. ASSUME NEW n \in Nodes, LocalExit(n) PROVE Settled'
  <2>1. \A k \in running : k[1] # n
    BY <1>6 DEF LocalExit, Turn, Inv, ComputeOnly
  <2>2. \A k \in assign : journal'[k] # journal[k] => k[1] = n
    BY <1>6, <1>0 DEF LocalExit, Journal
  <2>3. n \notin due' /\ due' \subseteq due /\ running' = running /\ assign' = assign /\ pc' = pc
    BY <1>6 DEF LocalExit
  <2>. QED BY <2>1, <2>2, <2>3, <1>6 DEF LocalExit, Turn
<1>7. ASSUME NEW n \in Nodes, LaunchFleet(n) PROVE Settled'
  <2>1. \A k \in running' : k \in running \/ k[1] = n
    BY <1>7 DEF LaunchFleet
  <2>2. n \in due /\ due' \subseteq due /\ journal' = journal /\ assign' = assign
    BY <1>7 DEF LaunchFleet
  <2>. QED BY <2>1, <2>2, <1>7 DEF LaunchFleet
<1>8. ASSUME NEW n \in Nodes, Equip(n) \/ Prepare(n) \/ FleetPushEnds(n) \/ NodeDies(n)
      PROVE  Settled'
  BY <1>8 DEF Equip, Prepare, Turn, FleetPushEnds, NodeDies
<1>9. ASSUME NEW n \in Nodes, NEW v \in Vers,
             LocalUpload(n, v) \/ FleetUpload(n, v) \/ FleetMark(n, v)
      PROVE  Settled'
  BY <1>9 DEF LocalUpload, FleetUpload, Put, FleetMark
<1>10. ASSUME NEW k \in Keys,
              \/ \E answer \in BOOLEAN : StillRunning(k, answer)
              \/ NodeUploaded(k) \/ Exhausted(k) \/ Handle(k) \/ PassBy(k)
       PROVE  Settled'
  BY <1>10, <1>0 DEF StillRunning, NodeUploaded, Exhausted, Settle, Journal, Handle, Seen, PassBy, First
<1>11. ASSUME NEW k \in Keys, Announce(k) PROVE Settled'
  BY <1>11, <1>0 DEF Announce, First, Journal
<1>12. ASSUME NEW k \in Keys, JobWrites(k) \/ JobDone(k) \/ JobFails(k)
       PROVE  Settled'
  BY <1>12 DEF JobWrites, JobDone, JobFails
<1>13. CASE UNCHANGED vars
  BY <1>13 DEF vars
<1>. QED BY <1>1, <1>2, <1>3, <1>4, <1>5, <1>6, <1>7, <1>8, <1>9, <1>10, <1>11, <1>12, <1>13, NextCases

\* Verdicts are settled in every state.
THEOREM SettledInvariant == Spec => []Settled
<1>1. Init => Settled
  BY DEF Init, Settled
<1>2. Inv /\ Settled /\ [Next]_vars => Settled'
  BY NextSettled
<1>. QED BY <1>1, <1>2, MaintainInvariant, PTL DEF Spec

\* A verdict on a version of a gh or local node is final within its run.
THEOREM VerdictsAreFinal == Spec => VerdictStays
<1>2. ASSUME Inv, Settled, [Next]_vars, NEW k \in Keys, Mode(k[1]) # "compute",
             journal[k] \in {"done", "failed"}, runs' = runs
      PROVE  journal'[k] = journal[k]
  <2>1. ~Begin
    <3>1. runs \in Seq((SUBSET Nodes) \ {{}})
      BY <1>2 DEF Inv, Typed, TypeOK
    <3>2. ASSUME runs # <<>> PROVE Tail(runs) # runs
      BY <3>1, <3>2
    <3>. QED BY <1>2, <3>2 DEF Begin
  <2>2. ASSUME NEW j \in Keys, NodeUploaded(j) \/ Exhausted(j) PROVE journal'[k] = journal[k]
    <3>1. j \in running /\ j \in assign
      BY <2>2, <1>2 DEF NodeUploaded, Exhausted, Seen, Inv, Typed, TypeOK, CurIsAssigned, Polling
    <3>2. k # j
      BY <3>1, <1>2 DEF Settled
    <3>. QED BY <2>2, <3>2 DEF NodeUploaded, Exhausted, Settle, Journal
  <2>3. ASSUME NEW n \in Nodes, LocalExit(n) PROVE journal'[k] = journal[k]
    <3>1. ~(k \in assign /\ k[1] = n)
      BY <2>3, <1>2 DEF LocalExit, Turn, Settled
    <3>2. \A v \in Of(n) : <<n, v>> \in assign /\ <<n, v>>[1] = n
      BY DEF Of
    <3>3. \A v \in Of(n) : <<n, v>> # k
      BY <3>1, <3>2
    <3>4. k \notin {<<n, v>> : v \in Of(n)}
      BY <3>3
    <3>. QED BY <2>3, <3>4 DEF LocalExit, Journal
  <2>4. CASE Tidy
    BY <2>4, <1>2 DEF Tidy, Settle, Journal, Inv, ComputeOnly
  <2>5. ASSUME NEW j \in Keys, Announce(j) PROVE journal'[k] = journal[k]
    BY <2>5, <1>2 DEF Announce, First, Journal, Inv, ComputeOnly
  <2>6. \/ journal' = journal \/ Tidy
        \/ \E n \in Nodes : LocalExit(n)
        \/ \E j \in Keys : NodeUploaded(j) \/ Exhausted(j) \/ Announce(j)
    BY <1>2, <2>1, NextCases DEF Enter, Fill, Again, Ends, Hang, Leaves, Pull, Unpublish,
       Publish, Put, ClearMarks, Restart, Ship, Launch, Equip, LaunchFleet, Prepare,
       FleetPushEnds, NodeDies, LocalUpload, FleetUpload, FleetMark, StillRunning, Handle,
       PassBy, JobWrites, JobDone, JobFails, vars, loopVars, hereVars, nodeVars, histVars
  <2>. QED BY <2>2, <2>3, <2>4, <2>5, <2>6
<1>3. Inv /\ Settled /\ [Next]_vars =>
        [\A k \in Keys :
            Mode(k[1]) # "compute" /\ journal[k] \in {"done", "failed"} /\ runs' = runs
              => journal'[k] = journal[k]]_vars
  BY <1>2
<1>. QED BY <1>3, MaintainInvariant, SettledInvariant, PTL DEF Spec, VerdictStays

----------------------------------------------------------------------------
(* Sessions.  A restart of a node is paid for by one attempt of one of its *)
(* versions.  The attempts used beyond the first are kept as a set of      *)
(* pairs, so that they can be counted: every restart adds one, and there   *)
(* are not more of them than versions times spare attempts.                *)

Spent(n) == {p \in Of(n) \X (2..Attempts) : p[2] <= attempt[<<n, p[1]>>]}

Budget(n) == starts[n] <= IF Of(n) = {} THEN 0 ELSE 1 + Cardinality(Spent(n))

BudgetInv ==
    /\ \A k \in running : attempt[k] # 0
    /\ pc \in {"idle", "hung"} => \A n \in Nodes : starts[n] = 0
    /\ \A n \in due : /\ starts[n] = 0 /\ Of(n) # {}
                      /\ \A k \in running : k[1] # n
    /\ \A n \in Nodes : Mode(n) = "gh" => Budget(n)

\* Pairs of a version and a spare attempt can be counted.
LEMMA SpareAttempts ==
  ASSUME NEW V \in SUBSET Vers, NEW E \in SUBSET (V \X (2..Attempts))
  PROVE  /\ IsFiniteSet(E) /\ Cardinality(E) \in Nat
         /\ Cardinality(E) <= (Attempts - 1) * Cardinality(V)
<1>1. NVers \in Nat /\ Attempts \in Nat /\ Attempts >= 1
  BY MaintainAssumption
<1>2. IsFiniteSet(V)
  <2>1. IsFiniteSet(1..NVers)
    BY <1>1, FS_Interval
  <2>. QED BY <2>1, FS_Subset DEF Vers
<1>3. IsFiniteSet(2..Attempts) /\ Cardinality(2..Attempts) = Attempts - 1
  BY <1>1, FS_Interval
<1>4. /\ IsFiniteSet(V \X (2..Attempts))
      /\ Cardinality(V \X (2..Attempts)) = Cardinality(V) * Cardinality(2..Attempts)
  BY <1>2, <1>3, FS_Product, Zenon
<1>5. IsFiniteSet(E) /\ Cardinality(E) <= Cardinality(V \X (2..Attempts))
  BY <1>4, FS_Subset
<1>6. Cardinality(V) \in Nat /\ Cardinality(E) \in Nat
  BY <1>2, <1>5, FS_CardinalityType
<1>7. Cardinality(V) * (Attempts - 1) = (Attempts - 1) * Cardinality(V)
  BY <1>1, <1>6
<1>. QED BY <1>3, <1>4, <1>5, <1>6, <1>7

\* ... in every state and after every step.
LEMMA SpentCount ==
  ASSUME NEW n \in Nodes
  PROVE  /\ Cardinality(Spent(n)) \in Nat /\ IsFiniteSet(Spent(n))
         /\ Cardinality(Spent(n)) <= (Attempts - 1) * Cardinality(Of(n))
         /\ Cardinality(Spent(n)') \in Nat
<1>1. Of(n) \in SUBSET Vers /\ Spent(n) \in SUBSET (Of(n) \X (2..Attempts))
  BY DEF Of, Spent
<1>2. Of(n)' \in SUBSET Vers /\ Spent(n)' \in SUBSET (Of(n)' \X (2..Attempts))
  BY DEF Of, Spent
<1>. QED BY <1>1, <1>2, SpareAttempts

\* A step that is not about the attempts of a node's versions.
LEMMA BudgetKept ==
  ASSUME NEW n \in Nodes, Budget(n), assign' = assign, starts'[n] = starts[n],
         \A v \in Vers : attempt'[<<n, v>>] = attempt[<<n, v>>]
  PROVE  Budget(n)'
<1>1. Of(n)' = Of(n)
  BY DEF Of
<1>2. Spent(n)' = Spent(n)
  BY <1>1 DEF Spent, Of
<1>. QED BY <1>1, <1>2 DEF Budget

\* The steps that leave the orchestrator's tables alone.
LEMMA BudgetQuiet ==
  ASSUME BudgetInv, pc' \notin {"idle", "hung"} \/ pc' = pc,
         UNCHANGED <<assign, starts, attempt>>, due' \subseteq due, running' \subseteq running
  PROVE  BudgetInv'
<1>1. \A n \in Nodes : Mode(n) = "gh" => Budget(n)'
  BY BudgetKept DEF BudgetInv
<1>2. \A n \in due' : Of(n)' # {}
  BY DEF BudgetInv, Of
<1>. QED BY <1>1, <1>2 DEF BudgetInv

\* The first session of a node in a run.
LEMMA LaunchBudget ==
  ASSUME Inv, BudgetInv, NEW n \in Nodes, LaunchFleet(n)
  PROVE  BudgetInv'
<1>0. /\ assign \subseteq Keys /\ running \subseteq assign /\ due \subseteq Nodes
      /\ attempt \in [Keys -> 0..Attempts] /\ starts \in [Nodes -> Nat]
  BY DEF Inv, Typed, TypeOK
<1>1. /\ n \in due /\ due' = due \ {n} /\ assign' = assign /\ pc' = "dispatch"
      /\ starts' = [starts EXCEPT ![n] = @ + 1]
      /\ running' = running \cup {<<n, v>> : v \in Of(n)}
      /\ attempt' = [k \in Keys |-> IF k[1] = n /\ k[2] \in Of(n) THEN 1 ELSE attempt[k]]
  BY DEF LaunchFleet, StartFleet
<1>2. starts[n] = 0 /\ Of(n) # {}
  BY <1>1 DEF BudgetInv
<1>3. \A m \in Nodes : Of(m)' = Of(m)
  BY <1>1 DEF Of
<1>4. ASSUME NEW k \in running' PROVE attempt'[k] # 0 /\ (k \in running \/ k[1] = n)
  <2>1. CASE k \in running
    <3>1. k \in Keys /\ attempt[k] # 0
      BY <1>0, <2>1 DEF BudgetInv
    <3>. QED BY <1>1, <2>1, <3>1
  <2>2. CASE k \in {<<n, v>> : v \in Of(n)}
    <3>1. PICK v \in Of(n) : k = <<n, v>>
      BY <2>2
    <3>2. k \in Keys
      BY <1>0, <3>1 DEF Of
    <3>. QED BY <1>1, <3>1, <3>2
  <2>. QED BY <1>1, <2>1, <2>2
<1>5. Budget(n)'
  BY <1>0, <1>1, <1>2, <1>3, SpentCount DEF Budget
<1>6. ASSUME NEW m \in Nodes \ {n}, Mode(m) = "gh" PROVE Budget(m)'
  <2>1. \A v \in Vers : attempt'[<<m, v>>] = attempt[<<m, v>>]
    BY <1>1 DEF Keys
  <2>2. starts'[m] = starts[m]
    BY <1>0, <1>1
  <2>. QED BY <1>1, <1>6, <2>1, <2>2, BudgetKept DEF BudgetInv
<1>7. \A m \in due' : starts'[m] = 0 /\ Of(m)' # {} /\ \A k \in running' : k[1] # m
  BY <1>0, <1>1, <1>3, <1>4 DEF BudgetInv
<1>. QED BY <1>1, <1>4, <1>5, <1>6, <1>7 DEF BudgetInv

\* A restart: the node's sessions and the attempts spent grow by one each.
LEMMA RestartBudget ==
  ASSUME Inv, BudgetInv, Restart
  PROVE  BudgetInv'
<1>0. /\ assign \subseteq Keys /\ running \subseteq assign /\ due \subseteq Nodes
      /\ attempt \in [Keys -> 0..Attempts] /\ starts \in [Nodes -> Nat]
      /\ Attempts \in Nat
  BY MaintainAssumption DEF Inv, Typed, TypeOK
<1>1. cur \in running /\ attempt[cur] < Attempts /\ cur \in Keys /\ pc' = "poll"
  BY <1>0 DEF Restart, Inv, Typed, CurIsAssigned
<1>a. PICK n \in Nodes, v \in Vers : cur = <<n, v>>
  BY <1>1 DEF Keys
<1>2. n \in Nodes /\ v \in Of(n) /\ cur = <<n, v>>
  BY <1>0, <1>1, <1>a DEF Of
<1>3. /\ assign' = assign /\ due' = due /\ running' = running
      /\ attempt' = [attempt EXCEPT ![cur] = @ + 1]
  BY DEF Restart, Count
<1>4. attempt[cur] # 0 /\ attempt'[cur] = attempt[cur] + 1
      /\ \A k \in Keys : k # cur => attempt'[k] = attempt[k]
  BY <1>0, <1>1, <1>3 DEF BudgetInv
<1>5. \A k \in running : attempt'[k] # 0
  BY <1>0, <1>4 DEF BudgetInv
<1>6. \A m \in Nodes : Of(m)' = Of(m)
  BY <1>3 DEF Of
<1>7. n \notin due
  BY <1>1, <1>2 DEF BudgetInv
<1>8. starts' = starts \/ starts' = [starts EXCEPT ![n] = @ + 1]
  BY <1>2 DEF Restart, StartJob, StartFleet
<1>9. \A m \in Nodes \ {n} : starts'[m] = starts[m]
  BY <1>0, <1>8
<1>10. ASSUME NEW m \in Nodes \ {n}, Mode(m) = "gh" PROVE Budget(m)'
  <2>1. \A w \in Vers : attempt'[<<m, w>>] = attempt[<<m, w>>]
    BY <1>2, <1>4 DEF Keys
  <2>. QED BY <1>3, <1>9, <1>10, <2>1, BudgetKept DEF BudgetInv
<1>11. ASSUME Mode(n) = "gh" PROVE Budget(n)'
  <2>. PICK a \in Int : a = attempt[cur] + 1
    BY <1>0, <1>1
  <2> DEFINE new == <<v, a>>
  <2>1. new \notin Spent(n)
    BY <1>0, <1>1, <1>2 DEF Spent
  <2>2. a \in 2..Attempts
    BY <1>0, <1>1, <1>4
  <2>3. Spent(n)' = Spent(n) \cup {new}
    <3>1. ASSUME NEW p \in Of(n) \X (2..Attempts)
          PROVE  p[2] <= attempt'[<<n, p[1]>>] <=> (p[2] <= attempt[<<n, p[1]>>] \/ p = new)
      <4>1. p[1] \in Of(n) /\ p[2] \in 2..Attempts /\ p = <<p[1], p[2]>> /\ <<n, p[1]>> \in Keys
        BY <1>2 DEF Of, Keys
      <4>2. CASE p[1] = v
        BY <1>0, <1>1, <1>2, <1>4, <4>1, <4>2
      <4>3. CASE p[1] # v
        BY <1>2, <1>4, <4>1, <4>3
      <4>. QED BY <4>2, <4>3
    <3>2. new \in Of(n) \X (2..Attempts)
      BY <1>2, <2>2
    <3>. QED BY <1>2, <1>6, <3>1, <3>2 DEF Spent
  <2>4. Cardinality(Spent(n)') = Cardinality(Spent(n)) + 1 /\ Cardinality(Spent(n)) \in Nat
    BY <1>2, <2>1, <2>3, SpentCount, FS_AddElement
  <2>5. starts[n] <= 1 + Cardinality(Spent(n)) /\ starts[n] \in Nat
    BY <1>0, <1>2, <1>11 DEF BudgetInv, Budget
  <2>6. starts'[n] <= starts[n] + 1
    BY <1>0, <1>2, <1>8
  <2>7. starts'[n] \in Nat
    BY <1>0, <1>2, <1>8
  <2>8. Of(n)' # {}
    BY <1>2, <1>6
  <2>. QED BY <2>4, <2>5, <2>6, <2>7, <2>8 DEF Budget
<1>12. \A m \in due' : starts'[m] = 0 /\ Of(m)' # {} /\ \A k \in running' : k[1] # m
  BY <1>0, <1>3, <1>6, <1>7, <1>9 DEF BudgetInv
<1>. QED BY <1>1, <1>3, <1>5, <1>10, <1>11, <1>12 DEF BudgetInv

\* Every step keeps within the budget.
LEMMA NextBudget ==
  ASSUME Inv, Settled, BudgetInv, [Next]_vars
  PROVE  BudgetInv'
<1>. USE DEF loopVars, hereVars, nodeVars, histVars
<1>0. /\ assign \subseteq Keys /\ running \subseteq assign /\ due \subseteq Nodes
      /\ attempt \in [Keys -> 0..Attempts] /\ starts \in [Nodes -> Nat]
  BY DEF Inv, Typed, TypeOK
<1>1. CASE Begin
  <2>1. /\ starts' = starts /\ \A n \in Nodes : starts[n] = 0
        /\ running = {} /\ running' = running /\ pc' = "dispatch"
    BY <1>1 DEF Begin, BudgetInv, Inv, Typed, CurIsAssigned
  <2>2. \A n \in due' : n \in Nodes /\ Of(n)' # {}
    <3>1. runs \in Seq((SUBSET Nodes) \ {{}}) /\ runs # <<>>
      BY <1>1 DEF Begin, Inv, Typed, TypeOK
    <3>2. Head(runs) \subseteq Nodes
      BY <3>1
    <3>. QED BY <1>1, <3>2 DEF Begin, Of
  <2>3. \A n \in Nodes : Budget(n)'
    BY <2>1, SpentCount DEF Budget
  <2>. QED BY <2>1, <2>2, <2>3 DEF BudgetInv
<1>2. CASE Enter \/ Fill \/ Again
  BY <1>2, BudgetQuiet DEF Enter, Fill, Again, NewPass, PassEnd
<1>3. CASE Ends \/ Hang
  <2>1. \A n \in Nodes : starts'[n] = 0
    BY <1>3 DEF Ends, Hang, Leaves
  <2>2. \A n \in Nodes : Budget(n)'
    BY <2>1, SpentCount DEF Budget
  <2>. QED BY <1>3, <2>1, <2>2 DEF Ends, Hang, Leaves, BudgetInv
<1>4. CASE Pull \/ Unpublish \/ Publish \/ Tidy \/ ClearMarks \/ Ship
  BY <1>4, BudgetQuiet DEF Pull, Unpublish, Publish, Put, Tidy, Settle, ClearMarks, Ship
<1>5. CASE Launch
  <2>1. /\ due = {} /\ Mode(cur[1]) = "compute" /\ cur \in Keys /\ pc' = "fill"
        /\ due' = due /\ assign' = assign /\ starts' = starts
        /\ running' = running \cup {cur} /\ attempt' = [attempt EXCEPT ![cur] = 1]
    BY <1>0, <1>5 DEF Launch, StartJob, Settled, Inv, ComputeOnly, Typed, CurIsAssigned, Handling
  <2>2. ASSUME NEW n \in Nodes, Mode(n) = "gh" PROVE Budget(n)'
    <3>1. \A v \in Vers : attempt'[<<n, v>>] = attempt[<<n, v>>]
      BY <1>0, <2>1, <2>2 DEF Keys
    <3>. QED BY <2>1, <2>2, <3>1, BudgetKept DEF BudgetInv
  <2>3. \A k \in running' : attempt'[k] # 0
    BY <1>0, <2>1 DEF BudgetInv
  <2>. QED BY <2>1, <2>2, <2>3 DEF BudgetInv
<1>6. ASSUME NEW n \in Nodes,
             LocalExit(n) \/ Equip(n) \/ Prepare(n) \/ FleetPushEnds(n) \/ NodeDies(n)
      PROVE  BudgetInv'
  BY <1>6, BudgetQuiet DEF LocalExit, Equip, Prepare, Turn, FleetPushEnds, NodeDies
<1>7. ASSUME NEW n \in Nodes, NEW v \in Vers,
             LocalUpload(n, v) \/ FleetUpload(n, v) \/ FleetMark(n, v)
      PROVE  BudgetInv'
  BY <1>7, BudgetQuiet DEF LocalUpload, FleetUpload, Put, FleetMark
<1>8. ASSUME NEW k \in Keys,
             \/ \E answer \in BOOLEAN : StillRunning(k, answer)
             \/ NodeUploaded(k) \/ Exhausted(k) \/ Handle(k) \/ PassBy(k) \/ Announce(k)
      PROVE  BudgetInv'
  BY <1>8, BudgetQuiet DEF StillRunning, NodeUploaded, Exhausted, Settle, Handle, Seen, PassBy,
     Announce, First
<1>9. ASSUME NEW k \in Keys, JobWrites(k) \/ JobDone(k) \/ JobFails(k)
      PROVE  BudgetInv'
  BY <1>9, BudgetQuiet DEF JobWrites, JobDone, JobFails
<1>10. CASE UNCHANGED vars
  BY <1>10, BudgetQuiet DEF vars
<1>. QED BY <1>1, <1>2, <1>3, <1>4, <1>5, <1>6, <1>7, <1>8, <1>9, <1>10, LaunchBudget,
            RestartBudget, NextCases

\* A node is given no more sessions in a run than the attempts of its versions
\* allow, however its versions fail and in whatever order it is told.
THEOREM SessionsAreBounded == Spec => []StartsBounded
<1>1. Init => BudgetInv
  <2>. SUFFICES ASSUME Init PROVE BudgetInv
    OBVIOUS
  <2>1. \A n \in Nodes : starts[n] = 0
    BY DEF Init
  <2>2. \A n \in Nodes : Budget(n)
    BY <2>1, SpentCount DEF Budget
  <2>. QED BY <2>1, <2>2 DEF Init, BudgetInv
<1>2. Inv /\ Settled /\ BudgetInv /\ [Next]_vars => BudgetInv'
  BY NextBudget
<1>3. Inv /\ BudgetInv => StartsBounded
  <2>. SUFFICES ASSUME Inv, BudgetInv, NEW n \in Nodes, Mode(n) = "gh", Of(n) # {}
                PROVE  starts[n] <= 1 + (Attempts - 1) * Cardinality(Of(n))
    BY DEF StartsBounded, BudgetInv, Budget
  <2>1. starts[n] <= 1 + Cardinality(Spent(n))
    BY DEF BudgetInv, Budget
  <2>2. starts[n] \in Nat
    BY DEF Inv, Typed, TypeOK
  <2>3. Attempts \in Nat /\ Cardinality(Of(n)) \in Nat
    <3>1. IsFiniteSet(Vers)
      BY MaintainAssumption, FS_Interval DEF Vers
    <3>2. IsFiniteSet(Of(n))
      BY <3>1, FS_Subset DEF Of
    <3>. QED BY <3>2, MaintainAssumption, FS_CardinalityType
  <2>4. (Attempts - 1) * Cardinality(Of(n)) \in Int
    BY <2>3
  <2>. QED BY <2>1, <2>2, <2>4, SpentCount
<1>. QED BY <1>1, <1>2, <1>3, MaintainInvariant, SettledInvariant, PTL DEF Spec
=============================================================================
