----------------------- MODULE FleetSchedulerProofs ------------------------
(***************************************************************************)
(* The safety of the fleet scheduler, for any number of versions, slots,   *)
(* nodes and attempts, and any interleaving of jobs and signals.           *)
(***************************************************************************)
EXTENDS FleetScheduler, TLAPS

\* The actions of the main thread that touch none of the books.
QuietLoop == LoopTop \/ LoopLeave \/ PollEnd \/ ScanEnd

\* Local and remote slots divide the slots, and NoVer is no version.
LEMMA SlotFacts ==
    /\ Slots \in SUBSET Int /\ Vers \in SUBSET Int
    /\ LocalSlots \cup RemoteSlots = Slots
    /\ LocalSlots \cap RemoteSlots = {}
    /\ NoVer \notin Vers
    /\ \A s \in Slots : NodeOf(s) \in {NoNode, Local} \cup RemoteSlots
  BY FleetAssumption
     DEF Slots, Vers, LocalSlots, RemoteSlots, NoVer, NodeOf, NoNode, Local

\* The queue the scheduler starts from is well typed.
LEMMA InitTypeOK == Init => TypeOK
  BY FleetAssumption, SlotFacts DEF Init, TypeOK, InFlight, Terminal, AttemptCap, NoVer

\* The steps of the loop that only move its own counters keep the types.
LEMMA LoopTypeOK == TypeOK /\ QuietLoop => TypeOK'
  BY DEF QuietLoop, LoopTop, LoopLeave, PollEnd, ScanEnd, TypeOK, verVars, healthVars, Jobs

\* Polling one job (sched_loop's reaping half) keeps the types.
LEMMA PollTypeOK ==
  ASSUME TypeOK, NEW s \in Slots, NEW v \in Vers, Poll(s, v)
  PROVE  TypeOK'
<1>1. CASE PollUnfinished(s, v)
  BY <1>1 DEF PollUnfinished, TypeOK, verVars, healthVars
<1>2. ASSUME Reap(s, v),
             vstate' \in [Vers -> {"pending"} \cup InFlight \cup Terminal],
             vnode' \in [Vers -> {NoNode, Local} \cup RemoteSlots],
             verr' \in [Vers -> {"none", "transient", "untar", "fatal", "stalefatal"}]
      PROVE  TypeOK'
  BY <1>2 DEF Reap, FreeSlot, TypeOK, healthVars
<1>3. CASE RequeuePush(s, v)
  BY <1>2, <1>3 DEF RequeuePush, Unassign, TypeOK
<1>4. CASE Complete(s, v)
  BY <1>2, <1>4 DEF Complete, TypeOK, Terminal
<1>5. CASE GiveUp(s, v)
  BY <1>2, <1>5 DEF GiveUp, TypeOK, Terminal
<1>6. CASE Retry(s, v)
  BY <1>2, <1>6 DEF Retry, Unassign, TypeOK
<1>. QED BY <1>1, <1>3, <1>4, <1>5, <1>6 DEF Poll

\* A node's health check keeps the slots and its two tables' types.
LEMMA HealthOkTypes ==
  ASSUME TypeOK, NEW s \in Slots, HealthOk(s)
  PROVE  /\ slots' = slots
         /\ health' \in [RemoteSlots -> {"unknown", "up", "down"}]
         /\ fails' \in [RemoteSlots -> 0..FailLimit]
<1>1. FailLimit \in Nat
  BY FleetAssumption
<1>2. CASE UNCHANGED healthVars
  BY <1>2 DEF TypeOK, healthVars
<1>3. CASE /\ s \in RemoteSlots
           /\ health' = [health EXCEPT ![s] = "up"]
           /\ fails' = [fails EXCEPT ![s] = 0]
           /\ UNCHANGED slots
  BY <1>1, <1>3 DEF TypeOK
<1>. QED BY <1>2, <1>3 DEF HealthOk

\* Visiting one slot (the assigning half of the loop) keeps the types.
LEMMA VisitTypeOK ==
  ASSUME TypeOK, NEW s \in Slots, Visit(s)
  PROVE  TypeOK'
<1>1. CASE SkipBusy(s) \/ SkipUnhealthy(s)
  BY <1>1 DEF SkipBusy, SkipUnhealthy, PassBy, TypeOK, verVars, healthVars
<1>2. CASE ProbeFails(s)
  BY <1>2, FleetAssumption DEF ProbeFails, Quarantined, PassBy, TypeOK, verVars
<1>3. CASE NothingPending(s)
  BY <1>3, HealthOkTypes DEF NothingPending, PassBy, TypeOK, verVars
<1>4. ASSUME NEW v \in Vers, Assign(s, v) PROVE TypeOK'
  <2>1. /\ pc' = "start" /\ pollTodo' = pollTodo /\ pkg' = pkg /\ sigs' = sigs
        /\ scanTodo' \in SUBSET Slots
        /\ slotJob' \in [Slots -> Vers \cup {NoVer}]
        /\ job' \in [Slots -> [Vers -> {"none", "new", "running", "stuck", "packed"} \cup Finished]]
    BY <1>4 DEF Assign, PassBy, TypeOK
  <2>2. /\ vstate' \in [Vers -> {"pending"} \cup InFlight \cup Terminal]
        /\ vnode' \in [Vers -> {NoNode, Local} \cup RemoteSlots]
        /\ pushed' \in [Vers -> BOOLEAN]
    BY <1>4, SlotFacts DEF Assign, TypeOK, InFlight
  <2>3. /\ verr' \in [Vers -> {"none", "transient", "untar", "fatal", "stalefatal"}]
        /\ sha' \in [Vers -> {"none", "fresh", "stale"}]
    BY <1>4 DEF Assign, TypeOK
  <2>4. attempt' \in [Vers -> 0..AttemptCap]
    BY <1>4, FleetAssumption DEF Assign, TypeOK, AttemptCap
  <2>5. HealthOk(s)
    BY <1>4 DEF Assign
  <2>. QED BY <2>1, <2>2, <2>3, <2>4, <2>5, HealthOkTypes DEF TypeOK
<1>. QED BY <1>1, <1>2, <1>3, <1>4 DEF Visit

\* Starting the process of an assigned version keeps the types.
LEMMA StartTypeOK ==
  ASSUME TypeOK, NEW s \in Slots, NEW v \in Vers, StartJob(s, v)
  PROVE  TypeOK'
  BY DEF StartJob, TypeOK, verVars, healthVars

\* What a running job does by itself keeps the types.
LEMMA JobTypeOK ==
  ASSUME TypeOK, NEW s \in Slots, NEW v \in Vers, JobStep(s, v)
  PROVE  TypeOK'
<1>1. CASE PushDone(s, v)
  BY <1>1 DEF PushDone, TypeOK, loopVars, healthVars
<1>2. CASE Pack(s, v)
  BY <1>2 DEF Pack, ShaLine, TypeOK, loopVars, healthVars
<1>3. CASE Upload(s, v)
  BY <1>3 DEF Upload, TypeOK, loopVars, verVars, healthVars, Finished
<1>4. CASE FailStep(s, v)
  BY <1>4, FleetAssumption DEF FailStep, TypeOK, loopVars, healthVars, Finished
<1>5. CASE FailSilently(s, v)
  BY <1>5 DEF FailSilently, TypeOK, loopVars, verVars, healthVars, Finished
<1>. QED BY <1>1, <1>2, <1>3, <1>4, <1>5 DEF JobStep

\* The actors around the scheduler, and the end of the program.
Around ==
    \/ \E v \in Vers : Prefetch(v)
    \/ \E n \in RemoteSlots : HealthExpires(n)
    \/ Operator \/ Cleanup \/ Over

\* A kill ends a job and never creates one.
LEMMA KilledType ==
  ASSUME TypeOK
  PROVE  /\ Killed \in [Slots -> [Vers -> {"none", "new", "running", "stuck", "packed"} \cup Finished]]
         /\ \A s \in Slots, v \in Vers : Killed[s][v] = "none" <=> job[s][v] = "none"
  BY DEF Killed, TypeOK, Finished

\* Signals, the operator, cleanup and expiring health keep the types.
LEMMA AroundTypeOK ==
  ASSUME TypeOK, Around
  PROVE  TypeOK'
<1>1. CASE \E v \in Vers : Prefetch(v)
  BY <1>1 DEF Prefetch, TypeOK, loopVars, verVars, healthVars
<1>2. CASE \E n \in RemoteSlots : HealthExpires(n)
  BY <1>2 DEF HealthExpires, TypeOK, loopVars, verVars
<1>3. CASE FirstSignal
  BY <1>3, FleetAssumption DEF FirstSignal, TypeOK, loopVars, verVars, healthVars
<1>4. CASE SecondSignal
  BY <1>4, KilledType, FleetAssumption DEF SecondSignal, TypeOK, verVars, healthVars
<1>5. CASE ThirdSignal
  BY <1>5, FleetAssumption DEF ThirdSignal, TypeOK, verVars, healthVars
<1>6. CASE Cleanup
  BY <1>6, KilledType DEF Cleanup, TypeOK, verVars, healthVars
<1>7. CASE Over
  BY <1>7 DEF Over, vars, TypeOK
<1>. QED BY <1>1, <1>2, <1>3, <1>4, <1>5, <1>6, <1>7 DEF Around, Operator

\* A step is the loop's, a poll, a visit, a job's, or comes from around it.
LEMMA NextCases ==
  ASSUME [Next]_vars
  PROVE  \/ QuietLoop
         \/ \E s \in Slots, v \in Vers : Poll(s, v)
         \/ \E s \in Slots : Visit(s)
         \/ \E s \in Slots, v \in Vers : StartJob(s, v)
         \/ \E s \in Slots, v \in Vers : JobStep(s, v)
         \/ Around
         \/ UNCHANGED vars
  BY DEF Next, MainThread, QuietLoop, Around

\* Every step keeps the types.
LEMMA NextTypeOK == TypeOK /\ [Next]_vars => TypeOK'
<1>1. TypeOK /\ UNCHANGED vars => TypeOK'
  BY DEF TypeOK, vars
<1>. QED BY <1>1, NextCases, LoopTypeOK, PollTypeOK, VisitTypeOK, StartTypeOK, JobTypeOK, AroundTypeOK

\* Every variable keeps its range.
THEOREM TypeCorrect == Spec => []TypeOK
  BY InitTypeOK, NextTypeOK, PTL DEF Spec

----------------------------------------------------------------------------
(***************************************************************************)
(* The books.  sched.jobs, f.slot_job and the version's own state are      *)
(* three records of one fact, and none of BooksAgree, OneSlotPerVersion    *)
(* and NothingLeftBehind is inductive alone: a slot is reused because      *)
(* slot_job says it is idle, a job is reaped because sched.jobs holds it,  *)
(* and the loop is left because every version's state is terminal.         *)
(***************************************************************************)
BooksInv == TypeOK /\ BooksAgree /\ OneSlotPerVersion /\ NothingLeftBehind

\* A step that leaves the records alone leaves what they say alone.
LEMMA BooksKept ==
  ASSUME BooksAgree, OneSlotPerVersion,
         slotJob' = slotJob, vstate' = vstate, vnode' = vnode,
         \A s \in Slots, v \in Vers : job'[s][v] = "none" <=> job[s][v] = "none"
  PROVE  BooksAgree' /\ OneSlotPerVersion'
  BY DEF BooksAgree, OneSlotPerVersion

\* ... and a loop that is not over does not end by it.
LEMMA StillEmpty ==
  ASSUME NothingLeftBehind,
         pc' \in {"cleanup", "wedged", "ended"} => pc \in {"cleanup", "wedged", "ended"},
         \A s \in Slots, v \in Vers : job'[s][v] = "none" <=> job[s][v] = "none"
  PROVE  NothingLeftBehind'
  BY DEF NothingLeftBehind, Jobs

\* With no job anywhere the books agree.
LEMMA InitBooks == Init => BooksInv
<1>. SUFFICES ASSUME Init PROVE BooksInv
  OBVIOUS
<1>1. BooksAgree
  BY SlotFacts DEF Init, BooksAgree
<1>2. \A v \in Vers : vstate[v] \notin InFlight
  BY DEF Init, InFlight
<1>3. OneSlotPerVersion
  BY <1>2, SlotFacts DEF Init, OneSlotPerVersion
<1>4. NothingLeftBehind
  BY DEF Init, NothingLeftBehind
<1>. QED BY <1>1, <1>3, <1>4, InitTypeOK DEF BooksInv

\* Moving the loop's counters keeps the books, and it leaves only when empty.
LEMMA LoopBooks == BooksInv /\ QuietLoop => (BooksAgree /\ OneSlotPerVersion /\ NothingLeftBehind)'
<1>. SUFFICES ASSUME BooksInv, QuietLoop
              PROVE  (BooksAgree /\ OneSlotPerVersion /\ NothingLeftBehind)'
  OBVIOUS
<1>1. slotJob' = slotJob /\ job' = job /\ vstate' = vstate /\ vnode' = vnode
  BY DEF QuietLoop, LoopTop, LoopLeave, PollEnd, ScanEnd, verVars
<1>2. (BooksAgree /\ OneSlotPerVersion)'
  BY <1>1, BooksKept DEF BooksInv
<1>3. NothingLeftBehind'
  <2>1. CASE LoopLeave
    BY <2>1, <1>1 DEF LoopLeave, MayLeave, NothingLeftBehind, Jobs
  <2>2. CASE PollEnd
    <3>1. CASE AllTerminal
      <4>1. \A v \in Vers : vstate[v] \notin InFlight
        BY <3>1 DEF AllTerminal, Terminal, InFlight
      <4>2. \A s \in Slots, v \in Vers : job[s][v] = "none"
        BY <4>1 DEF BooksInv, BooksAgree, OneSlotPerVersion
      <4>. QED BY <4>2, <1>1 DEF NothingLeftBehind, Jobs
    <3>2. CASE ~AllTerminal
      BY <2>2, <3>2, <1>1 DEF PollEnd, NothingLeftBehind
    <3>. QED BY <3>1, <3>2
  <2>3. CASE LoopTop \/ ScanEnd
    BY <2>3, <1>1 DEF LoopTop, ScanEnd, NothingLeftBehind
  <2>. QED BY <2>1, <2>2, <2>3 DEF QuietLoop
<1>. QED BY <1>2, <1>3

\* A job that is over: its slot is free, and the version is in no other one.
LEMMA ReapBooks ==
  ASSUME BooksInv, NEW s \in Slots, NEW v \in Vers, Reap(s, v),
         \A w \in Vers : w # v => vstate'[w] = vstate[w] /\ vnode'[w] = vnode[w],
         vstate'[v] \notin InFlight
  PROVE  (BooksAgree /\ OneSlotPerVersion /\ NothingLeftBehind)'
<1>1. job[s][v] # "none" /\ pc' = "poll"
  BY DEF Reap, Finished
<1>2. slotJob[s] = v
  BY <1>1 DEF BooksInv, BooksAgree
<1>3. /\ slotJob' = [slotJob EXCEPT ![s] = NoVer]
      /\ job' = [job EXCEPT ![s][v] = "none"]
  BY DEF Reap, FreeSlot
<1>4. BooksAgree'
  BY <1>2, <1>3, SlotFacts DEF BooksInv, BooksAgree, TypeOK
<1>5. \A t \in Slots : slotJob'[t] # v
  BY <1>2, <1>3, SlotFacts DEF BooksInv, OneSlotPerVersion, TypeOK
<1>6. \A t \in Slots, w \in Vers : w # v => (slotJob'[t] = w <=> slotJob[t] = w)
  BY <1>2, <1>3, SlotFacts DEF BooksInv, TypeOK
<1>7. OneSlotPerVersion'
  BY <1>5, <1>6 DEF BooksInv, OneSlotPerVersion
<1>8. NothingLeftBehind'
  BY <1>1 DEF NothingLeftBehind
<1>. QED BY <1>4, <1>7, <1>8

\* Reaping a job empties its slot and the version's books together.
LEMMA PollBooks ==
  ASSUME BooksInv, NEW s \in Slots, NEW v \in Vers, Poll(s, v)
  PROVE  (BooksAgree /\ OneSlotPerVersion /\ NothingLeftBehind)'
<1>1. CASE PollUnfinished(s, v)
  BY <1>1, BooksKept, StillEmpty DEF PollUnfinished, verVars, BooksInv
<1>2. CASE RequeuePush(s, v)
  BY <1>2, ReapBooks DEF RequeuePush, Unassign, BooksInv, TypeOK, InFlight
<1>3. CASE Complete(s, v)
  BY <1>3, ReapBooks DEF Complete, BooksInv, TypeOK, InFlight
<1>4. CASE GiveUp(s, v)
  BY <1>4, ReapBooks DEF GiveUp, BooksInv, TypeOK, InFlight
<1>5. CASE Retry(s, v)
  BY <1>5, ReapBooks DEF Retry, Unassign, BooksInv, TypeOK, InFlight
<1>. QED BY <1>1, <1>2, <1>3, <1>4, <1>5 DEF Poll

\* Assigning fills an empty slot with a version that is in no slot.
LEMMA VisitBooks ==
  ASSUME BooksInv, NEW s \in Slots, Visit(s)
  PROVE  (BooksAgree /\ OneSlotPerVersion /\ NothingLeftBehind)'
<1>1. CASE SkipBusy(s) \/ SkipUnhealthy(s) \/ ProbeFails(s) \/ NothingPending(s)
  BY <1>1, BooksKept, StillEmpty
     DEF SkipBusy, SkipUnhealthy, ProbeFails, NothingPending, verVars, BooksInv
<1>2. ASSUME NEW v \in Vers, Assign(s, v)
      PROVE  (BooksAgree /\ OneSlotPerVersion /\ NothingLeftBehind)'
  <2>1. /\ slotJob[s] = NoVer /\ vstate[v] = "pending" /\ pc' = "start"
        /\ slotJob' = [slotJob EXCEPT ![s] = v]
        /\ job' = [job EXCEPT ![s][v] = "new"]
        /\ vnode' = [vnode EXCEPT ![v] = NodeOf(s)]
        /\ vstate' = [vstate EXCEPT ![v] = IF s \in RemoteSlots THEN "push" ELSE "compute"]
    BY <1>2 DEF Assign, NextPending, Waiting
  <2>2. \A t \in Slots : slotJob[t] # v
    BY <2>1 DEF BooksInv, OneSlotPerVersion, InFlight
  <2>3. \A w \in Vers : job[s][w] = "none"
    BY <2>1, SlotFacts DEF BooksInv, BooksAgree
  <2>4. BooksAgree'
    BY <2>1, <2>2, <2>3 DEF BooksInv, BooksAgree, TypeOK
  <2>5. OneSlotPerVersion'
    BY <2>1, <2>2, SlotFacts DEF BooksInv, OneSlotPerVersion, TypeOK, InFlight
  <2>6. NothingLeftBehind'
    BY <2>1 DEF NothingLeftBehind
  <2>. QED BY <2>4, <2>5, <2>6
<1>. QED BY <1>1, <1>2 DEF Visit

\* A job that moves on, or comes to life, stays in sched.jobs.
LEMMA JobBooks ==
  ASSUME BooksInv, NEW s \in Slots, NEW v \in Vers, StartJob(s, v) \/ JobStep(s, v)
  PROVE  (BooksAgree /\ OneSlotPerVersion /\ NothingLeftBehind)'
<1>1. /\ slotJob' = slotJob /\ vstate' = vstate /\ vnode' = vnode
      /\ pc' = pc \/ pc' = "scan"
  BY DEF StartJob, JobStep, PushDone, Pack, ShaLine, Upload, FailStep, FailSilently, loopVars, verVars
<1>2. \A t \in Slots, w \in Vers : job'[t][w] = "none" <=> job[t][w] = "none"
  BY DEF StartJob, JobStep, PushDone, Pack, ShaLine, Upload, FailStep, FailSilently, BooksInv, TypeOK
<1>. QED BY <1>1, <1>2, BooksKept, StillEmpty DEF BooksInv

\* Signals and cleanup do not touch the books before the loop is left.
LEMMA AroundBooks ==
  ASSUME BooksInv, Around
  PROVE  (BooksAgree /\ OneSlotPerVersion /\ NothingLeftBehind)'
<1>1. slotJob' = slotJob /\ vstate' = vstate /\ vnode' = vnode
  BY DEF Around, Prefetch, HealthExpires, Operator, FirstSignal, SecondSignal,
         ThirdSignal, Cleanup, Over, vars, verVars
<1>2. job' = job \/ job' = Killed
  BY DEF Around, Prefetch, HealthExpires, Operator, FirstSignal, SecondSignal,
         ThirdSignal, Cleanup, Over, vars
<1>3. \A t \in Slots, w \in Vers : job'[t][w] = "none" <=> job[t][w] = "none"
  BY <1>2, KilledType DEF BooksInv
<1>4. pc' \in {"cleanup", "wedged", "ended"} => pc \in {"cleanup", "wedged", "ended"}
  BY DEF Around, Prefetch, HealthExpires, Operator, FirstSignal, SecondSignal,
         ThirdSignal, Cleanup, Over, vars, loopVars
<1>. QED BY <1>1, <1>3, <1>4, BooksKept, StillEmpty DEF BooksInv

\* Every step keeps the books.
LEMMA NextBooks == BooksInv /\ [Next]_vars => BooksInv'
<1>1. BooksInv /\ UNCHANGED vars => BooksInv'
  BY DEF BooksInv, TypeOK, BooksAgree, OneSlotPerVersion, NothingLeftBehind, Jobs, vars
<1>2. BooksInv /\ [Next]_vars /\ ~UNCHANGED vars
         => (BooksAgree /\ OneSlotPerVersion /\ NothingLeftBehind)'
  BY NextCases, LoopBooks, PollBooks, VisitBooks, JobBooks, AroundBooks
<1>. QED BY <1>1, <1>2, NextTypeOK DEF BooksInv

\* The inductive invariant of the scheduler's books: sched.jobs, slot_job and
\* the versions' states agree, and the loop leaves nothing behind.
THEOREM BooksInvariant == Spec => []BooksInv
  BY InitBooks, NextBooks, PTL DEF Spec

\* sched.jobs and slot_job never disagree.
THEOREM BooksAlwaysAgree == Spec => []BooksAgree
  BY BooksInvariant, PTL DEF BooksInv

\* No version is ever in two slots.
THEOREM NeverTwoSlots == Spec => []OneSlotPerVersion
  BY BooksInvariant, PTL DEF BooksInv

\* The main loop is never left with a job still in the books.
THEOREM LoopLeavesNothing == Spec => []NothingLeftBehind
  BY BooksInvariant, PTL DEF BooksInv

----------------------------------------------------------------------------
(* Nodes.  A node that has reached the limit is not probed again, so its   *)
(* count never falls back: what was removed because of it stays explained. *)

LEMMA NextLost ==
  ASSUME TypeOK, LostOnlyToQuarantine, [Next]_vars
  PROVE  LostOnlyToQuarantine'
<1>1. ASSUME slots' = slots,
             \A n \in RemoteSlots : Quarantined(n) => fails'[n] = fails[n]
      PROVE  LostOnlyToQuarantine'
  BY <1>1 DEF LostOnlyToQuarantine, Quarantined
<1>2. CASE UNCHANGED <<slots, fails>>
  BY <1>1, <1>2 DEF Quarantined
<1>3. ASSUME NEW s \in Slots, HealthOk(s) PROVE LostOnlyToQuarantine'
  <2>1. slots' = slots
    BY <1>3 DEF HealthOk, healthVars
  <2>2. \A n \in RemoteSlots : Quarantined(n) => fails'[n] = fails[n]
    BY <1>3 DEF HealthOk, healthVars, Quarantined, TypeOK
  <2>. QED BY <1>1, <2>1, <2>2
<1>4. ASSUME NEW s \in Slots, ProbeFails(s) PROVE LostOnlyToQuarantine'
  <2>1. /\ s \in RemoteSlots /\ ~Quarantined(s)
        /\ fails' = [fails EXCEPT ![s] = @ + 1]
        /\ slots' = IF fails'[s] >= FailLimit THEN slots \ SlotsOfNode(s) ELSE slots
    BY <1>4 DEF ProbeFails
  <2>2. \A n \in RemoteSlots : Quarantined(n) => fails'[n] = fails[n]
    BY <2>1 DEF Quarantined, TypeOK
  <2>3. CASE fails'[s] < FailLimit
    BY <1>1, <2>1, <2>2, <2>3, FleetAssumption DEF TypeOK
  <2>4. CASE fails'[s] >= FailLimit
    <3>1. slots' = slots \ SlotsOfNode(s)
      BY <2>1, <2>4
    <3>2. ASSUME NEW t \in Slots \ slots'
          PROVE  \E n \in RemoteSlots : <<t, n>> \in StartsWith /\ fails'[n] >= FailLimit
      <4>1. CASE t \in slots
        BY <2>1, <2>4, <3>1, <4>1 DEF SlotsOfNode
      <4>2. CASE t \notin slots
        BY <2>2, <4>2 DEF LostOnlyToQuarantine, Quarantined
      <4>. QED BY <4>1, <4>2
    <3>. QED BY <3>2 DEF LostOnlyToQuarantine, Quarantined
  <2>5. fails'[s] < FailLimit \/ fails'[s] >= FailLimit
    BY <2>1, FleetAssumption DEF TypeOK
  <2>. QED BY <2>3, <2>4, <2>5
<1>5. CASE QuietLoop
  BY <1>2, <1>5 DEF QuietLoop, LoopTop, LoopLeave, PollEnd, ScanEnd, healthVars
<1>6. ASSUME NEW s \in Slots, NEW v \in Vers, Poll(s, v) PROVE LostOnlyToQuarantine'
  BY <1>2, <1>6 DEF Poll, PollUnfinished, RequeuePush, Complete, GiveUp, Retry, Reap, healthVars
<1>7. ASSUME NEW s \in Slots, Visit(s) PROVE LostOnlyToQuarantine'
  <2>1. CASE SkipBusy(s) \/ SkipUnhealthy(s)
    BY <1>2, <2>1 DEF SkipBusy, SkipUnhealthy, healthVars
  <2>2. CASE NothingPending(s) \/ \E v \in Vers : Assign(s, v)
    BY <1>3, <2>2 DEF NothingPending, Assign
  <2>. QED BY <1>4, <1>7, <2>1, <2>2 DEF Visit
<1>8. ASSUME NEW s \in Slots, NEW v \in Vers, StartJob(s, v) \/ JobStep(s, v)
      PROVE  LostOnlyToQuarantine'
  BY <1>2, <1>8 DEF StartJob, JobStep, PushDone, Pack, ShaLine, Upload, FailStep, FailSilently, healthVars
<1>9. CASE Around
  BY <1>2, <1>9 DEF Around, Prefetch, HealthExpires, Operator, FirstSignal,
                    SecondSignal, ThirdSignal, Cleanup, Over, vars, healthVars
<1>10. CASE UNCHANGED vars
  BY <1>2, <1>10 DEF vars
<1>. QED BY <1>5, <1>6, <1>7, <1>8, <1>9, <1>10, NextCases

\* Whatever the names and the network do, a slot, local or remote, goes only
\* with a quarantined node whose name begins its own.
THEOREM SlotsAreNotLost == Spec => []LostOnlyToQuarantine
<1>1. Init => LostOnlyToQuarantine
  BY SlotFacts DEF Init, LostOnlyToQuarantine
<1>2. TypeOK /\ LostOnlyToQuarantine /\ [Next]_vars => LostOnlyToQuarantine'
  BY NextLost
<1>. QED BY <1>1, <1>2, TypeCorrect, PTL DEF Spec

\* Where no node's name begins another slot's, quarantine is what its name
\* says: a slot goes only with its own node, and the local slots stay.
THEOREM UnrelatedNamesKeepSlots ==
  ASSUME \A s \in Slots, n \in RemoteSlots : <<s, n>> \in StartsWith => s = n
  PROVE  Spec => []LostToItsOwnNode
<1>1. LostOnlyToQuarantine => LostToItsOwnNode
  BY DEF LostOnlyToQuarantine, LostToItsOwnNode
<1>. QED BY <1>1, SlotsAreNotLost, PTL

\* A slot is filled by Assign alone.
LEMMA FilledByAssign ==
  ASSUME TypeOK, [Next]_vars, NEW s \in Slots, slotJob[s] = NoVer, slotJob'[s] # NoVer
  PROVE  \E v \in Vers : Assign(s, v)
<1>1. ASSUME NEW t \in Slots, NEW v \in Vers, Assign(t, v) PROVE t = s
  BY <1>1 DEF Assign, TypeOK
<1>2. ASSUME NEW t \in Slots, NEW v \in Vers, Reap(t, v) PROVE FALSE
  BY <1>2 DEF Reap, FreeSlot, TypeOK
<1>3. slotJob' # slotJob
  OBVIOUS
<1>4. ~QuietLoop /\ ~Around /\ ~UNCHANGED vars
  BY <1>3 DEF QuietLoop, LoopTop, LoopLeave, PollEnd, ScanEnd, Around, Prefetch,
              HealthExpires, Operator, FirstSignal, SecondSignal, ThirdSignal,
              Cleanup, Over, vars
<1>5. ASSUME NEW t \in Slots, NEW v \in Vers PROVE ~Poll(t, v)
  BY <1>2, <1>3 DEF Poll, PollUnfinished, RequeuePush, Complete, GiveUp, Retry
<1>6. ASSUME NEW t \in Slots, NEW v \in Vers PROVE ~StartJob(t, v) /\ ~JobStep(t, v)
  BY <1>3 DEF StartJob, JobStep, PushDone, Pack, ShaLine, Upload, FailStep, FailSilently
<1>7. PICK t \in Slots : Visit(t)
  BY <1>4, <1>5, <1>6, NextCases
<1>8. \E v \in Vers : Assign(t, v)
  BY <1>3, <1>7 DEF Visit, SkipBusy, SkipUnhealthy, ProbeFails, NothingPending
<1>. QED BY <1>1, <1>8

\* A quarantined or refusing node gets no job, at any step of any run.
THEOREM DeadNodesRest == Spec => NoJobForDeadNode
<1>1. ASSUME TypeOK, [Next]_vars, NEW s \in RemoteSlots,
             fails[s] >= FailLimit \/ health[s] = "down", slotJob[s] = NoVer
      PROVE  slotJob'[s] = NoVer
  <2>1. s \in Slots /\ s \notin LocalSlots
    BY SlotFacts
  <2>2. ~HealthOk(s)
    BY <1>1, <2>1 DEF HealthOk, Quarantined
  <2>. QED BY <1>1, <2>1, <2>2, FilledByAssign DEF Assign
<1>2. TypeOK /\ [Next]_vars =>
        [\A s \in RemoteSlots :
           (fails[s] >= FailLimit \/ health[s] = "down") /\ slotJob[s] = NoVer
              => slotJob'[s] = NoVer]_vars
  BY <1>1
<1>. QED BY <1>2, TypeCorrect, PTL DEF Spec, NoJobForDeadNode

----------------------------------------------------------------------------
(* The scheduler keeps the promises of FleetClaims. *)

LEMMA InitClaims == Init => Claims!ClaimInit
<1>. SUFFICES ASSUME Init PROVE Claims!ClaimInit
  OBVIOUS
<1>1. {v \in Vers : vstate[v] \in Terminal} = Vers \ {v \in Vers : vstate[v] = "pending"}
  BY DEF Init, Terminal
<1>2. \A p \in Slots \X Vers : slotJob[p[1]] # p[2]
  BY SlotFacts DEF Init
<1>. QED BY <1>1, <1>2 DEF Claims!ClaimInit

\* Steps that touch neither the slots nor the states are stutters.
LEMMA ClaimStutter ==
  ASSUME slotJob' = slotJob, vstate' = vstate
  PROVE  UNCHANGED Claims!claimVars
  BY DEF Claims!claimVars

\* Assigning a version is the abstract claim.
LEMMA AssignClaims ==
  ASSUME BooksInv, NEW s \in Slots, NEW v \in Vers, Assign(s, v)
  PROVE  Claims!Claim(s, v)
<1>1. /\ slotJob[s] = NoVer /\ vstate[v] = "pending"
      /\ slotJob' = [slotJob EXCEPT ![s] = v]
      /\ vstate' = [vstate EXCEPT ![v] = IF s \in RemoteSlots THEN "push" ELSE "compute"]
  BY DEF Assign, NextPending, Waiting
<1>2. \A h \in {p \in Slots \X Vers : slotJob[p[1]] = p[2]} : h[1] # s
  BY <1>1, SlotFacts
<1>3. {p \in Slots \X Vers : slotJob'[p[1]] = p[2]}
        = {p \in Slots \X Vers : slotJob[p[1]] = p[2]} \cup {<<s, v>>}
  BY <1>1, SlotFacts DEF BooksInv, TypeOK
<1>4. {w \in Vers : vstate'[w] = "pending"} = {w \in Vers : vstate[w] = "pending"} \ {v}
  BY <1>1 DEF BooksInv, TypeOK
<1>5. {w \in Vers : vstate'[w] \in Terminal} = {w \in Vers : vstate[w] \in Terminal}
  BY <1>1 DEF BooksInv, TypeOK, Terminal
<1>. QED BY <1>1, <1>2, <1>3, <1>4, <1>5 DEF Claims!Claim

\* Reaping a version is the abstract release or close.
LEMMA ReapClaims ==
  ASSUME BooksInv, NEW s \in Slots, NEW v \in Vers, Reap(s, v),
         NEW x \in {"pending"} \cup Terminal,
         vstate' = [vstate EXCEPT ![v] = x]
  PROVE  Claims!Release(s, v) \/ Claims!Close(s, v)
<1>1. slotJob[s] = v
  BY DEF Reap, Finished, BooksInv, BooksAgree
<1>2. slotJob' = [slotJob EXCEPT ![s] = NoVer]
  BY DEF Reap, FreeSlot
<1>3. vstate[v] \in InFlight
  BY <1>1 DEF BooksInv, OneSlotPerVersion
<1>4. /\ <<s, v>> \in {p \in Slots \X Vers : slotJob[p[1]] = p[2]}
      /\ {p \in Slots \X Vers : slotJob'[p[1]] = p[2]}
           = {p \in Slots \X Vers : slotJob[p[1]] = p[2]} \ {<<s, v>>}
  BY <1>1, <1>2, SlotFacts DEF BooksInv, TypeOK
<1>5. CASE x = "pending"
  <2>1. {w \in Vers : vstate'[w] = "pending"} = {w \in Vers : vstate[w] = "pending"} \cup {v}
    BY <1>5 DEF BooksInv, TypeOK
  <2>2. {w \in Vers : vstate'[w] \in Terminal} = {w \in Vers : vstate[w] \in Terminal}
    BY <1>3, <1>5 DEF BooksInv, TypeOK, Terminal, InFlight
  <2>. QED BY <1>4, <2>1, <2>2 DEF Claims!Release
<1>6. CASE x \in Terminal
  <2>1. {w \in Vers : vstate'[w] = "pending"} = {w \in Vers : vstate[w] = "pending"}
    BY <1>3, <1>6 DEF BooksInv, TypeOK, Terminal, InFlight
  <2>2. {w \in Vers : vstate'[w] \in Terminal} = {w \in Vers : vstate[w] \in Terminal} \cup {v}
    BY <1>6 DEF BooksInv, TypeOK
  <2>. QED BY <1>4, <2>1, <2>2 DEF Claims!Close
<1>. QED BY <1>5, <1>6

\* Every step of the scheduler is a step of the claims or a stutter.
LEMMA StepClaims == BooksInv /\ [Next]_vars => [Claims!ClaimNext]_Claims!claimVars
<1>. SUFFICES ASSUME BooksInv, [Next]_vars
              PROVE  Claims!ClaimNext \/ UNCHANGED Claims!claimVars
  OBVIOUS
<1>1. ASSUME NEW s \in Slots, NEW v \in Vers, Poll(s, v)
      PROVE  Claims!ClaimNext \/ UNCHANGED Claims!claimVars
  <2>1. CASE PollUnfinished(s, v)
    BY <2>1, ClaimStutter DEF PollUnfinished, verVars
  <2>2. CASE RequeuePush(s, v) \/ Complete(s, v) \/ GiveUp(s, v) \/ Retry(s, v)
    <3>1. /\ Reap(s, v)
          /\ \E x \in {"pending"} \cup Terminal : vstate' = [vstate EXCEPT ![v] = x]
      BY <2>2 DEF RequeuePush, Complete, GiveUp, Retry, Terminal
    <3>. QED BY <3>1, ReapClaims DEF Claims!ClaimNext
  <2>. QED BY <1>1, <2>1, <2>2 DEF Poll
<1>2. ASSUME NEW s \in Slots, Visit(s)
      PROVE  Claims!ClaimNext \/ UNCHANGED Claims!claimVars
  <2>1. CASE SkipBusy(s) \/ SkipUnhealthy(s) \/ ProbeFails(s) \/ NothingPending(s)
    BY <2>1, ClaimStutter DEF SkipBusy, SkipUnhealthy, ProbeFails, NothingPending, verVars
  <2>. QED BY <1>2, <2>1, AssignClaims DEF Visit, Claims!ClaimNext
<1>3. CASE QuietLoop
  BY <1>3, ClaimStutter DEF QuietLoop, LoopTop, LoopLeave, PollEnd, ScanEnd, verVars
<1>4. ASSUME NEW s \in Slots, NEW v \in Vers, StartJob(s, v) \/ JobStep(s, v)
      PROVE  UNCHANGED Claims!claimVars
  BY <1>4, ClaimStutter
     DEF StartJob, JobStep, PushDone, Pack, ShaLine, Upload, FailStep, FailSilently, verVars
<1>5. CASE Around
  BY <1>5, ClaimStutter DEF Around, Prefetch, HealthExpires, Operator, FirstSignal,
                            SecondSignal, ThirdSignal, Cleanup, Over, vars, verVars
<1>6. CASE UNCHANGED vars
  BY <1>6, ClaimStutter DEF vars
<1>. QED BY <1>1, <1>2, <1>3, <1>4, <1>5, <1>6, NextCases

\* Every run of the scheduler is a run of FleetClaims: a slot holds one
\* version, a version one slot, and a settled version is never taken up again.
THEOREM SchedulerImplementsClaims == Spec => ImplementsClaims
  BY InitClaims, StepClaims, BooksInvariant, PTL DEF Spec, ImplementsClaims, Claims!ClaimSpec

----------------------------------------------------------------------------
(* Retries and results. *)

\* v.state changes in the hands of poll() and assign() only.
LEMMA StateChange ==
  ASSUME [Next]_vars, vstate' # vstate
  PROVE  \/ \E s \in Slots, v \in Vers : Assign(s, v)
         \/ \E s \in Slots, v \in Vers :
               RequeuePush(s, v) \/ Complete(s, v) \/ GiveUp(s, v) \/ Retry(s, v)
<1>1. ~QuietLoop /\ ~Around /\ ~UNCHANGED vars
  BY DEF QuietLoop, LoopTop, LoopLeave, PollEnd, ScanEnd, Around, Prefetch,
         HealthExpires, Operator, FirstSignal, SecondSignal, ThirdSignal,
         Cleanup, Over, vars, verVars
<1>2. ASSUME NEW s \in Slots, NEW v \in Vers PROVE ~StartJob(s, v) /\ ~JobStep(s, v)
  BY DEF StartJob, JobStep, PushDone, Pack, ShaLine, Upload, FailStep, FailSilently, verVars
<1>3. CASE \E s \in Slots, v \in Vers : Poll(s, v)
  BY <1>3 DEF Poll, PollUnfinished, verVars
<1>4. CASE \E s \in Slots : Visit(s)
  BY <1>4 DEF Visit, SkipBusy, SkipUnhealthy, ProbeFails, NothingPending, verVars
<1>. QED BY <1>1, <1>2, <1>3, <1>4, NextCases

\* Past the limit only a broken push puts a version back in the queue.
THEOREM LimitHoldsButForPushes == Spec => OnlyPushesOutlastTheLimit
<1>1. ASSUME TypeOK, [Next]_vars, NEW v \in Vers,
             attempt[v] >= Attempts, vstate[v] \in InFlight, vstate'[v] = "pending"
      PROVE  vstate[v] = "push" /\ ~pushed[v]
  <2>1. vstate' # vstate
    BY <1>1 DEF InFlight
  <2>2. ASSUME NEW s \in Slots, NEW w \in Vers, Assign(s, w) PROVE FALSE
    BY <1>1, <2>2 DEF Assign, TypeOK, InFlight
  <2>3. ASSUME NEW s \in Slots, NEW w \in Vers,
               Complete(s, w) \/ GiveUp(s, w) \/ Retry(s, w)
        PROVE  FALSE
    BY <1>1, <2>3 DEF Complete, GiveUp, Retry, OutOfAttempts, TypeOK, InFlight
  <2>4. ASSUME NEW s \in Slots, NEW w \in Vers, RequeuePush(s, w)
        PROVE  vstate[v] = "push" /\ ~pushed[v]
    BY <1>1, <2>4 DEF RequeuePush, PushBroken, TypeOK, InFlight
  <2>. QED BY <1>1, <2>1, <2>2, <2>3, <2>4, StateChange
<1>2. TypeOK /\ [Next]_vars =>
        [\A v \in Vers :
            (/\ attempt[v] >= Attempts
             /\ vstate[v] \in InFlight /\ vstate'[v] = "pending")
                => vstate[v] = "push" /\ ~pushed[v]]_vars
  BY <1>1
<1>. QED BY <1>2, TypeCorrect, PTL DEF Spec, OnlyPushesOutlastTheLimit

\* Without remote nodes nothing is ever pushed, and a version that waits has
\* an attempt left.
LocalInv ==
    \A v \in Vers :
        /\ attempt[v] <= Attempts
        /\ vstate[v] = "pending" => attempt[v] < Attempts
        /\ vstate[v] # "push"

\* Only an assignment counts an attempt.
LEMMA AttemptChange ==
  ASSUME [Next]_vars, attempt' # attempt
  PROVE  \E s \in Slots, v \in Vers : Assign(s, v)
<1>1. ~QuietLoop /\ ~Around /\ ~UNCHANGED vars
  BY DEF QuietLoop, LoopTop, LoopLeave, PollEnd, ScanEnd, Around, Prefetch,
         HealthExpires, Operator, FirstSignal, SecondSignal, ThirdSignal,
         Cleanup, Over, vars, verVars
<1>2. ASSUME NEW s \in Slots, NEW v \in Vers PROVE ~StartJob(s, v) /\ ~JobStep(s, v)
  BY DEF StartJob, JobStep, PushDone, Pack, ShaLine, Upload, FailStep, FailSilently, verVars
<1>3. ASSUME NEW s \in Slots, NEW v \in Vers PROVE ~Poll(s, v)
  BY DEF Poll, PollUnfinished, RequeuePush, Complete, GiveUp, Retry, Reap, verVars
<1>4. CASE \E s \in Slots : Visit(s)
  BY <1>4 DEF Visit, SkipBusy, SkipUnhealthy, ProbeFails, NothingPending, verVars
<1>. QED BY <1>1, <1>2, <1>3, <1>4, NextCases

\* With local slots alone no push is ever requeued, so every retry is counted.
LEMMA NextLocal ==
  ASSUME NRemote = 0, TypeOK, LocalInv, [Next]_vars
  PROVE  LocalInv'
<1>1. RemoteSlots = {}
  BY FleetAssumption DEF RemoteSlots
<1>2. CASE attempt' = attempt /\ vstate' = vstate
  BY <1>2 DEF LocalInv
<1>3. ASSUME NEW s \in Slots, NEW v \in Vers, Assign(s, v) PROVE LocalInv'
  <2>1. /\ vstate[v] = "pending"
        /\ vstate' = [vstate EXCEPT ![v] = "compute"]
        /\ attempt' = [attempt EXCEPT ![v] = IF @ < AttemptCap THEN @ + 1 ELSE @]
    BY <1>1, <1>3 DEF Assign, NextPending, Waiting
  <2>2. attempt[v] < Attempts
    BY <2>1 DEF LocalInv
  <2>a. attempt[v] < AttemptCap
    BY <2>2, FleetAssumption DEF AttemptCap, TypeOK
  <2>3. attempt' = [attempt EXCEPT ![v] = attempt[v] + 1]
    BY <2>1, <2>a
  <2>. QED BY <2>1, <2>2, <2>3, FleetAssumption DEF LocalInv, TypeOK, AttemptCap
<1>4. ASSUME NEW s \in Slots, NEW v \in Vers,
             RequeuePush(s, v) \/ Complete(s, v) \/ GiveUp(s, v) \/ Retry(s, v)
      PROVE  LocalInv'
  <2>1. attempt' = attempt
    BY <1>4 DEF RequeuePush, Complete, GiveUp, Retry, Reap
  <2>2. ~RequeuePush(s, v)
    BY DEF RequeuePush, PushBroken, LocalInv
  <2>3. CASE Complete(s, v)
    BY <2>1, <2>3 DEF Complete, LocalInv, TypeOK
  <2>4. CASE GiveUp(s, v)
    BY <2>1, <2>4 DEF GiveUp, LocalInv, TypeOK
  <2>5. CASE Retry(s, v)
    BY <2>1, <2>5, FleetAssumption DEF Retry, OutOfAttempts, LocalInv, TypeOK, AttemptCap
  <2>. QED BY <1>4, <2>2, <2>3, <2>4, <2>5
<1>. QED BY <1>2, <1>3, <1>4, StateChange, AttemptChange

\* On this machine alone, no version is tried more than --attempts times.
THEOREM LocalAttemptsBounded ==
  ASSUME NRemote = 0
  PROVE  Spec => []AttemptsBounded
<1>1. Init => LocalInv
  BY FleetAssumption DEF Init, LocalInv
<1>2. TypeOK /\ LocalInv /\ [Next]_vars => LocalInv'
  BY NextLocal
<1>3. LocalInv => AttemptsBounded
  BY DEF LocalInv, AttemptsBounded
<1>. QED BY <1>1, <1>2, <1>3, TypeCorrect, PTL DEF Spec

\* While no line is cut, a job past its packing step has left its sha, and
\* the version it is reaped into keeps it.
ShaInv ==
    /\ \A s \in Slots, v \in Vers : job[s][v] \in {"packed", "ok"} => sha[v] = "fresh"
    /\ DoneShaFresh

\* A recorded checksum is always of the current attempt's output.
LEMMA NextSha ==
  ASSUME ~SplitLines, BooksInv, ShaInv, [Next]_vars
  PROVE  ShaInv'
<1>1. ASSUME sha' = sha, vstate' = vstate, attempt' = attempt,
             \A s \in Slots, v \in Vers :
                job'[s][v] \in {"packed", "ok"} => job[s][v] \in {"packed", "ok"}
      PROVE  ShaInv'
  BY <1>1 DEF ShaInv, DoneShaFresh
<1>2. CASE QuietLoop
  BY <1>1, <1>2 DEF QuietLoop, LoopTop, LoopLeave, PollEnd, ScanEnd, verVars
<1>3. CASE Around
  <2>1. job' = job \/ job' = Killed
    BY <1>3 DEF Around, Prefetch, HealthExpires, Operator, FirstSignal, SecondSignal,
                ThirdSignal, Cleanup, Over, vars
  <2>2. sha' = sha /\ vstate' = vstate /\ attempt' = attempt
    BY <1>3 DEF Around, Prefetch, HealthExpires, Operator, FirstSignal, SecondSignal,
                ThirdSignal, Cleanup, Over, vars, verVars
  <2>. QED BY <1>1, <2>1, <2>2 DEF Killed
<1>4. ASSUME NEW s \in Slots, NEW v \in Vers, Poll(s, v) PROVE ShaInv'
  <2>1. CASE PollUnfinished(s, v)
    BY <1>1, <2>1 DEF PollUnfinished, verVars
  <2>2. ASSUME Reap(s, v), vstate'[v] = "done" => sha[v] = "fresh",
               \A w \in Vers : w # v => vstate'[w] = vstate[w]
        PROVE  ShaInv'
    BY <2>2 DEF Reap, ShaInv, DoneShaFresh, BooksInv, TypeOK
  <2>3. CASE Complete(s, v)
    BY <2>2, <2>3 DEF Complete, Succeeded, ShaInv, BooksInv, TypeOK
  <2>4. CASE RequeuePush(s, v) \/ GiveUp(s, v) \/ Retry(s, v)
    <3>1. Reap(s, v)
      BY <2>4 DEF RequeuePush, GiveUp, Retry
    <3>2. \/ vstate' = [vstate EXCEPT ![v] = "pending"]
          \/ vstate' = [vstate EXCEPT ![v] = "failed"]
      BY <2>4 DEF RequeuePush, GiveUp, Retry
    <3>3. vstate'[v] # "done" /\ \A w \in Vers : w # v => vstate'[w] = vstate[w]
      BY <3>2 DEF BooksInv, TypeOK
    <3>. QED BY <2>2, <3>1, <3>3
  <2>. QED BY <1>4, <2>1, <2>3, <2>4 DEF Poll
<1>5. ASSUME NEW s \in Slots, NEW v \in Vers, Assign(s, v) PROVE ShaInv'
  <2>1. /\ slotJob[s] = NoVer /\ vstate[v] = "pending"
        /\ job' = [job EXCEPT ![s][v] = "new"]
        /\ vstate'[v] # "done"
        /\ \A w \in Vers : w # v => vstate'[w] = vstate[w] /\ sha'[w] = sha[w]
                                    /\ attempt'[w] = attempt[w]
    BY <1>5 DEF Assign, NextPending, Waiting, BooksInv, TypeOK
  <2>2. \A t \in Slots : job[t][v] = "none"
    BY <2>1 DEF BooksInv, BooksAgree, OneSlotPerVersion, InFlight
  <2>. QED BY <2>1, <2>2 DEF ShaInv, DoneShaFresh, BooksInv, TypeOK
<1>6. ASSUME NEW s \in Slots, Visit(s) PROVE ShaInv'
  <2>1. CASE SkipBusy(s) \/ SkipUnhealthy(s) \/ ProbeFails(s) \/ NothingPending(s)
    BY <1>1, <2>1 DEF SkipBusy, SkipUnhealthy, ProbeFails, NothingPending, verVars
  <2>. QED BY <1>5, <1>6, <2>1 DEF Visit
<1>7. ASSUME NEW s \in Slots, NEW v \in Vers, StartJob(s, v) PROVE ShaInv'
  BY <1>1, <1>7 DEF StartJob, verVars, BooksInv, TypeOK
<1>8. ASSUME NEW s \in Slots, NEW v \in Vers, JobStep(s, v) PROVE ShaInv'
  <2>1. CASE Pack(s, v)
    BY <2>1 DEF Pack, ShaLine, ShaInv, DoneShaFresh, BooksInv, TypeOK
  <2>2. CASE PushDone(s, v) \/ Upload(s, v) \/ FailStep(s, v) \/ FailSilently(s, v)
    BY <1>1, <2>2 DEF PushDone, Upload, FailStep, FailSilently, verVars, BooksInv, TypeOK
  <2>. QED BY <1>8, <2>1, <2>2 DEF JobStep
<1>9. CASE UNCHANGED vars
  BY <1>1, <1>9 DEF vars
<1>. QED BY <1>2, <1>3, <1>4, <1>6, <1>7, <1>8, <1>9, NextCases

\* While the reader loses no line, a finished version carries the sha of the
\* output its last attempt made, whatever the attempts before left behind.
THEOREM ShaIsOfLastAttempt ==
  ASSUME ~SplitLines
  PROVE  Spec => []DoneShaFresh
<1>1. Init => ShaInv
  BY DEF Init, ShaInv, DoneShaFresh
<1>2. BooksInv /\ ShaInv /\ [Next]_vars => ShaInv'
  BY NextSha
<1>3. ShaInv => DoneShaFresh
  BY DEF ShaInv
<1>. QED BY <1>1, <1>2, <1>3, BooksInvariant, PTL DEF Spec

\* An error that is final, still in v.err, has ended the version or is about
\* to: the job it comes from is over and waits to be reaped, past its push.
Reported(v) ==
    \E s \in Slots : /\ slotJob[s] = v /\ job[s][v] = "bad"
                     /\ vstate[v] = "push" => pushed[v]

ErrOf(v) ==
    /\ vstate[v] = "push" => vnode[v] \in RemoteSlots
    /\ verr[v] # "stalefatal"
    /\ verr[v] = "fatal" => vstate[v] = "failed" \/ Reported(v)
    /\ vstate[v] = "failed" => attempt[v] >= Attempts \/ verr[v] = "fatal"

ErrInv == \A v \in Vers : ErrOf(v)

\* A version with a fatal error on record still holds the job that met it.
LEMMA FatalJob ==
  ASSUME BooksInv, ErrInv, NEW s \in Slots, NEW v \in Vers,
         slotJob[s] = v, verr[v] = "fatal"
  PROVE  job[s][v] = "bad" /\ (vstate[v] = "push" => pushed[v])
<1>1. vstate[v] \in InFlight
  BY DEF BooksInv, OneSlotPerVersion
<1>2. Reported(v)
  BY <1>1 DEF ErrInv, ErrOf, InFlight
<1>3. \A t \in Slots : slotJob[t] = v => t = s
  BY DEF BooksInv, OneSlotPerVersion
<1>. QED BY <1>2, <1>3 DEF Reported

\* A step that leaves the books alone keeps the record of errors.
LEMMA ErrQuiet ==
  ASSUME ErrInv,
         verr' = verr, vstate' = vstate, vnode' = vnode, attempt' = attempt,
         slotJob' = slotJob,
         \A v \in Vers : pushed[v] => pushed'[v],
         \A s \in Slots, v \in Vers : job[s][v] = "bad" => job'[s][v] = "bad"
  PROVE  ErrInv'
<1>. SUFFICES ASSUME NEW v \in Vers PROVE ErrOf(v)'
  BY DEF ErrInv
<1>1. Reported(v) => Reported(v)'
  BY DEF Reported
<1>2. ErrOf(v)
  BY DEF ErrInv
<1>. QED BY <1>1, <1>2 DEF ErrOf

\* Polling keeps the record of errors.
LEMMA ErrPoll ==
  ASSUME BooksInv, ErrInv, NEW s \in Slots, NEW v \in Vers, Poll(s, v)
  PROVE  ErrInv'
<1>1. CASE PollUnfinished(s, v)
  BY <1>1, ErrQuiet DEF PollUnfinished, verVars
<1>2. ASSUME Reap(s, v),
             \A w \in Vers \ {v} : /\ vstate'[w] = vstate[w] /\ vnode'[w] = vnode[w]
                                  /\ verr'[w] = verr[w],
             vstate'[v] \notin InFlight,
             verr'[v] # "stalefatal",
             verr'[v] = "fatal" => vstate'[v] = "failed",
             vstate'[v] = "failed" => attempt[v] >= Attempts \/ verr'[v] = "fatal"
      PROVE  ErrInv'
  <2>1. /\ slotJob' = [slotJob EXCEPT ![s] = NoVer]
        /\ job' = [job EXCEPT ![s][v] = "none"]
        /\ pushed' = pushed /\ attempt' = attempt
    BY <1>2 DEF Reap, FreeSlot
  <2>2. slotJob[s] = v
    BY <1>2 DEF Reap, BooksInv, BooksAgree, Finished
  <2>3. ASSUME NEW w \in Vers \ {v}, NEW t \in Slots, slotJob[t] = w
        PROVE  slotJob'[t] = w /\ job'[t][w] = job[t][w]
    BY <2>1, <2>2, <2>3 DEF BooksInv, TypeOK
  <2>4. ErrOf(v)'
    BY <1>2, <2>1 DEF ErrOf, InFlight
  <2>5. ASSUME NEW w \in Vers \ {v} PROVE ErrOf(w)'
    <3>1. Reported(w) => Reported(w)'
      BY <1>2, <2>1, <2>3, <2>5 DEF Reported
    <3>. QED BY <1>2, <2>1, <2>5, <3>1 DEF ErrInv, ErrOf
  <2>. QED BY <2>4, <2>5 DEF ErrInv
<1>3. verr[v] # "stalefatal"
  BY DEF ErrInv, ErrOf
<1>4. CASE RequeuePush(s, v)
  <2>1. slotJob[s] = v /\ vstate[v] = "push" /\ ~pushed[v]
    BY <1>4 DEF RequeuePush, PushBroken, Reap, BooksInv, BooksAgree, Finished
  <2>2. verr[v] # "fatal"
    BY <2>1, FatalJob
  <2>. QED BY <1>2, <1>3, <1>4, <2>2 DEF RequeuePush, Unassign, BooksInv, TypeOK, InFlight
<1>5. CASE Complete(s, v)
  <2>1. slotJob[s] = v /\ job[s][v] = "ok" /\ vstate[v] # "failed"
    BY <1>5 DEF Complete, Succeeded, Reap, BooksInv, BooksAgree, OneSlotPerVersion, Finished, InFlight
  <2>2. verr[v] # "fatal"
    BY <2>1, FatalJob
  <2>. QED BY <1>2, <1>3, <1>5, <2>2 DEF Complete, BooksInv, TypeOK, InFlight
<1>6. CASE GiveUp(s, v)
  BY <1>2, <1>3, <1>6 DEF GiveUp, Deterministic, OutOfAttempts, BooksInv, TypeOK, InFlight
<1>7. CASE Retry(s, v)
  BY <1>2, <1>7 DEF Retry, Unassign, BooksInv, TypeOK, InFlight
<1>. QED BY <1>1, <1>4, <1>5, <1>6, <1>7 DEF Poll

\* An assignment clears the old error before a new job can meet one.
LEMMA ErrVisit ==
  ASSUME BooksInv, ErrInv, NEW s \in Slots, Visit(s)
  PROVE  ErrInv'
<1>1. CASE SkipBusy(s) \/ SkipUnhealthy(s) \/ ProbeFails(s) \/ NothingPending(s)
  BY <1>1, ErrQuiet DEF SkipBusy, SkipUnhealthy, ProbeFails, NothingPending, verVars
<1>2. ASSUME NEW v \in Vers, Assign(s, v) PROVE ErrInv'
  <2>1. slotJob[s] = NoVer /\ vstate[v] = "pending"
    BY <1>2 DEF Assign, NextPending, Waiting
  <2>2. verr[v] \notin {"fatal", "stalefatal"}
    BY <2>1 DEF ErrInv, ErrOf, Reported, BooksInv, OneSlotPerVersion, InFlight
  <2>3. /\ vnode' = [vnode EXCEPT ![v] = NodeOf(s)]
        /\ vstate' = [vstate EXCEPT ![v] = IF s \in RemoteSlots THEN "push" ELSE "compute"]
        /\ \A w \in Vers \ {v} : /\ attempt'[w] = attempt[w] /\ pushed'[w] = pushed[w]
        /\ verr' = verr
        /\ slotJob' = [slotJob EXCEPT ![s] = v]
        /\ job' = [job EXCEPT ![s][v] = "new"]
    BY <1>2, <2>2 DEF Assign, BooksInv, TypeOK
  <2>4. s \in RemoteSlots => NodeOf(s) \in RemoteSlots
    BY SlotFacts DEF NodeOf
  <2>5. vstate'[v] \in InFlight /\ (vstate'[v] = "push" => vnode'[v] \in RemoteSlots)
    BY <2>3, <2>4 DEF BooksInv, TypeOK, InFlight
  <2>6. ASSUME NEW w \in Vers \ {v}, NEW t \in Slots, slotJob[t] = w
        PROVE  slotJob'[t] = w /\ job'[t][w] = job[t][w]
    BY <2>1, <2>3, <2>6, SlotFacts DEF BooksInv, TypeOK
  <2>7. \A w \in Vers \ {v} : vstate'[w] = vstate[w] /\ vnode'[w] = vnode[w]
    BY <2>3 DEF BooksInv, TypeOK
  <2>8. ErrOf(v)'
    BY <2>2, <2>3, <2>5 DEF ErrOf, InFlight
  <2>9. ASSUME NEW w \in Vers \ {v} PROVE ErrOf(w)'
    <3>1. Reported(w) => Reported(w)'
      BY <2>3, <2>6, <2>7, <2>9 DEF Reported
    <3>. QED BY <2>3, <2>7, <2>9, <3>1 DEF ErrInv, ErrOf
  <2>. QED BY <2>8, <2>9 DEF ErrInv
<1>. QED BY <1>1, <1>2 DEF Visit

\* A job that fails records the error it met.
LEMMA ErrFail ==
  ASSUME BooksInv, ErrInv, NEW s \in Slots, NEW v \in Vers, FailStep(s, v)
  PROVE  ErrInv'
<1>1. PICK e \in Errors : /\ job[s][v] \in {"running", "packed"}
                         /\ verr' = [verr EXCEPT ![v] = e]
  BY DEF FailStep
<1>2. /\ job' = [job EXCEPT ![s][v] = "bad"]
      /\ s \in RemoteSlots => pushed[v]
      /\ UNCHANGED <<slotJob, vstate, vnode, attempt, pushed>>
  BY DEF FailStep
<1>3. slotJob[s] = v /\ vstate[v] \in InFlight
  BY <1>1 DEF BooksInv, BooksAgree, OneSlotPerVersion
<1>4. vstate[v] = "push" => s \in RemoteSlots
  <2>1. vnode[v] = NodeOf(s)
    BY <1>3 DEF BooksInv, OneSlotPerVersion
  <2>2. Local \notin RemoteSlots
    BY FleetAssumption DEF Local, RemoteSlots
  <2>3. vstate[v] = "push" => vnode[v] \in RemoteSlots
    BY DEF ErrInv, ErrOf
  <2>. QED BY <2>1, <2>2, <2>3, SlotFacts DEF NodeOf
<1>5. e # "stalefatal"
  BY FleetAssumption
<1>6. job'[s][v] = "bad"
  BY <1>2 DEF BooksInv, TypeOK
<1>7. verr'[v] = e /\ \A w \in Vers \ {v} : verr'[w] = verr[w]
  BY <1>1 DEF BooksInv, TypeOK
<1>8. \A t \in Slots, w \in Vers : job[t][w] = "bad" => job'[t][w] = "bad"
  BY <1>2 DEF BooksInv, TypeOK
<1>9. ErrOf(v)'
  <2>1. Reported(v)'
    BY <1>2, <1>3, <1>4, <1>6 DEF Reported
  <2>. QED BY <1>2, <1>3, <1>5, <1>7, <2>1 DEF ErrInv, ErrOf, InFlight
<1>10. ASSUME NEW w \in Vers \ {v} PROVE ErrOf(w)'
  <2>1. Reported(w) => Reported(w)'
    BY <1>2, <1>8 DEF Reported
  <2>. QED BY <1>2, <1>7, <2>1 DEF ErrInv, ErrOf
<1>. QED BY <1>9, <1>10 DEF ErrInv

\* No version is given up with attempts left unless its last attempt met an
\* error that cannot go away.
THEOREM OnlyFinalErrorsEndEarly == Spec => []GiveUpJustified
<1>1. Init => ErrInv
  BY DEF Init, ErrInv, ErrOf
<1>2. ASSUME BooksInv, ErrInv, [Next]_vars PROVE ErrInv'
  <2>1. CASE QuietLoop
    BY <1>2, <2>1, ErrQuiet DEF QuietLoop, LoopTop, LoopLeave, PollEnd, ScanEnd, verVars
  <2>2. CASE Around
    <3>1. job' = job \/ job' = Killed
      BY <2>2 DEF Around, Prefetch, HealthExpires, Operator, FirstSignal, SecondSignal,
                  ThirdSignal, Cleanup, Over, vars
    <3>2. UNCHANGED <<verVars, slotJob>>
      BY <2>2 DEF Around, Prefetch, HealthExpires, Operator, FirstSignal, SecondSignal,
                  ThirdSignal, Cleanup, Over, vars, verVars
    <3>. QED BY <1>2, <3>1, <3>2, ErrQuiet DEF Killed, verVars
  <2>3. ASSUME NEW s \in Slots, NEW v \in Vers, StartJob(s, v) PROVE ErrInv'
    BY <1>2, <2>3, ErrQuiet DEF StartJob, verVars, BooksInv, TypeOK
  <2>4. ASSUME NEW s \in Slots, NEW v \in Vers, JobStep(s, v) PROVE ErrInv'
    <3>1. CASE PushDone(s, v)
      BY <1>2, <3>1, ErrQuiet DEF PushDone, BooksInv, TypeOK
    <3>2. CASE Pack(s, v)
      BY <1>2, <3>2, ErrQuiet DEF Pack, ShaLine, BooksInv, TypeOK
    <3>3. CASE Upload(s, v) \/ FailSilently(s, v)
      BY <1>2, <3>3, ErrQuiet DEF Upload, FailSilently, verVars, BooksInv, TypeOK
    <3>. QED BY <1>2, <2>4, <3>1, <3>2, <3>3, ErrFail DEF JobStep
  <2>5. CASE UNCHANGED vars
    BY <1>2, <2>5, ErrQuiet DEF vars
  <2>. QED BY <1>2, <2>1, <2>2, <2>3, <2>4, <2>5, ErrPoll, ErrVisit, NextCases
<1>3. TypeOK /\ ErrInv => GiveUpJustified
  BY FleetAssumption DEF ErrInv, ErrOf, GiveUpJustified, TypeOK, AttemptCap
<1>4. BooksInv => TypeOK
  BY DEF BooksInv
<1>. QED BY <1>1, <1>2, <1>3, <1>4, BooksInvariant, PTL DEF Spec

----------------------------------------------------------------------------
(* The end of the run.  AllSettled speaks of "ended" alone and is not      *)
(* inductive: what decides it is the poll that leaves the loop, two steps  *)
(* before, and a signal may still come in between.                         *)

SettledInv == pc \in {"cleanup", "ended"} /\ ~Stopped => AllTerminal

\* No signal is ever taken back.
LEMMA SignalsStay ==
  ASSUME TypeOK, [Next]_vars, Stopped
  PROVE  Stopped'
<1>1. sigs \in Int
  BY FleetAssumption DEF TypeOK
<1>2. CASE Operator
  BY <1>1, <1>2 DEF Operator, FirstSignal, SecondSignal, ThirdSignal, Stopped
<1>3. CASE sigs' = sigs
  BY <1>3 DEF Stopped
<1>4. CASE QuietLoop
  BY <1>3, <1>4 DEF QuietLoop, LoopTop, LoopLeave, PollEnd, ScanEnd
<1>5. ASSUME NEW s \in Slots, NEW v \in Vers, Poll(s, v) PROVE sigs' = sigs
  BY <1>5 DEF Poll, PollUnfinished, RequeuePush, Complete, GiveUp, Retry, Reap
<1>6. ASSUME NEW s \in Slots, Visit(s) PROVE sigs' = sigs
  BY <1>6 DEF Visit, SkipBusy, SkipUnhealthy, ProbeFails, NothingPending, Assign
<1>7. ASSUME NEW s \in Slots, NEW v \in Vers, StartJob(s, v) \/ JobStep(s, v)
      PROVE  sigs' = sigs
  BY <1>7 DEF StartJob, JobStep, PushDone, Pack, Upload, FailStep, FailSilently
<1>8. Around => sigs' = sigs \/ Operator
  BY DEF Around, Prefetch, HealthExpires, Cleanup, Over, vars
<1>9. UNCHANGED vars => sigs' = sigs
  BY DEF vars
<1>. QED BY <1>2, <1>3, <1>4, <1>5, <1>6, <1>7, <1>8, <1>9, NextCases

\* The loop is left through a poll that found every version settled, or after
\* a signal; and once it is left no version changes its state.
LEMMA NextSettled ==
  ASSUME TypeOK, SettledInv, [Next]_vars
  PROVE  SettledInv'
<1>. SUFFICES ASSUME pc' \in {"cleanup", "ended"}, ~Stopped' PROVE AllTerminal'
  BY DEF SettledInv
<1>1. ~Stopped
  BY SignalsStay
<1>2. CASE vstate' = vstate /\ pc \in {"cleanup", "ended"}
  BY <1>1, <1>2 DEF SettledInv, AllTerminal
<1>3. CASE QuietLoop
  BY <1>1, <1>3 DEF QuietLoop, LoopTop, LoopLeave, MayLeave, PollEnd, ScanEnd, AllTerminal, verVars
<1>4. ASSUME NEW s \in Slots, NEW v \in Vers, Poll(s, v) PROVE FALSE
  BY <1>4 DEF Poll, PollUnfinished, RequeuePush, Complete, GiveUp, Retry, Reap
<1>5. ASSUME NEW s \in Slots, Visit(s) PROVE FALSE
  BY <1>5 DEF Visit, SkipBusy, SkipUnhealthy, ProbeFails, NothingPending, Assign, Visiting
<1>6. ASSUME NEW s \in Slots, NEW v \in Vers, StartJob(s, v) \/ JobStep(s, v)
      PROVE  vstate' = vstate /\ pc \in {"cleanup", "ended"}
  BY <1>6 DEF StartJob, JobStep, PushDone, Pack, Upload, FailStep, FailSilently, loopVars, verVars
<1>7. CASE Around
  BY <1>2, <1>7 DEF Around, Prefetch, HealthExpires, Operator, FirstSignal, SecondSignal,
                    ThirdSignal, Cleanup, Over, vars, loopVars, verVars
<1>8. CASE UNCHANGED vars
  BY <1>2, <1>8 DEF vars
<1>. QED BY <1>2, <1>3, <1>4, <1>5, <1>6, <1>7, <1>8, NextCases

\* A run that ends without a signal leaves every version done, failed or
\* skipped, whatever happened to its jobs and its nodes.
THEOREM UninterruptedRunSettles == Spec => []AllSettled
<1>1. Init => SettledInv
  BY DEF Init, SettledInv
<1>2. TypeOK /\ SettledInv /\ [Next]_vars => SettledInv'
  BY NextSettled
<1>3. SettledInv => AllSettled
  BY DEF SettledInv, AllSettled, AllTerminal, Terminal
<1>. QED BY <1>1, <1>2, <1>3, TypeCorrect, PTL DEF Spec
============================================================================
