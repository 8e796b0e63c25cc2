------------------------ MODULE QualificationProofs ------------------------
(***************************************************************************)
(* Theorems about Qualification, for any number of phases and signals.     *)
(***************************************************************************)
EXTENDS Qualification, TLAPS

\* A phase is only running while the plan still has one: what keeps the count
\* of attempted phases in its range.
RunsWithinPlan == pc \in RunPoints => i < PhaseCount

TypeInv == TypeOK /\ RunsWithinPlan

\* Every step keeps every variable in its range.
LEMMA TypeStep == TypeInv /\ [Next]_vars => TypeInv'
<1> SUFFICES ASSUME TypeInv, [Next]_vars PROVE TypeInv'
  OBVIOUS
<1> USE PhaseCountAssumption, MaxSignalsAssumption, MaxLostAssumption
    DEF TypeOK, RunsWithinPlan, Points, BodyPoints, RunPoints,
        StopPoints, FinallyPoints, RestorePoints, Errors, ChildStates, Signals,
        Goto, At, vars, mainVars, errorVars, phaseVars, dockerVars, testVars
<1>1. CASE Body
  <2>1. CASE Drain
    BY <2>1 DEF TypeInv, Drain, RaiseFromBody
  <2>2. CASE Preflight
    BY <2>2 DEF TypeInv, Preflight, RaiseFromBody
  <2>3. CASE InspectProduction
    BY <2>3 DEF TypeInv, InspectProduction, RaiseFromBody
  <2>4. CASE MarkStopped
    BY <2>4 DEF TypeInv, MarkStopped
  <2>5. CASE AskStop
    BY <2>5 DEF TypeInv, AskStop
  <2>6. CASE AwaitStop
    BY <2>6 DEF TypeInv, AwaitStop, RaiseFromBody
  <2>7. CASE CheckContamination
    BY <2>7 DEF TypeInv, CheckContamination, RaiseFromBody
  <2>8. CASE Launch
    BY <2>8 DEF TypeInv, Launch
  <2>9. CASE EnterWait
    BY <2>9 DEF TypeInv, EnterWait
  <2>10. CASE PhaseExits
    BY <2>10 DEF TypeInv, PhaseExits, FinishPhase
  <2>11. CASE PhaseTimesOut
    BY <2>11 DEF TypeInv, PhaseTimesOut
  <2>12. CASE KillPhase
    BY <2>12 DEF TypeInv, KillPhase, ClientGone
  <2>13. CASE ReapPhase
    BY <2>13 DEF TypeInv, ReapPhase, RaiseFromBody, FinishPhase
  <2>14. CASE AllPhasesRun
    BY <2>14 DEF TypeInv, AllPhasesRun
  <2>15. CASE WriteExecuted
    BY <2>15 DEF TypeInv, WriteExecuted
  <2> QED
    BY <1>1, <2>1, <2>2, <2>3, <2>4, <2>5, <2>6, <2>7, <2>8, <2>9, <2>10,
       <2>11, <2>12, <2>13, <2>14, <2>15 DEF Body
<1>2. CASE Stop
  <2>1. CASE StopInspect
    <3>1. found' \in BOOLEAN
      BY <2>1 DEF TypeInv, StopInspect
    <3> QED
      BY <2>1, <3>1 DEF TypeInv, StopInspect, RaiseFromBody, RaiseFromStop,
         ReturnFromStop, InspectsAsAbsent, InspectsAsPresent
  <2>2. CASE StopCapture
    BY <2>2 DEF TypeInv, StopCapture
  <2>3. CASE StopRemove
    <3>1. testOps' \subseteq {"start", "remove"}
      BY <2>3 DEF TypeInv, StopRemove
    <3> QED BY <2>3, <3>1 DEF TypeInv, StopRemove
  <2>4. CASE StopGone
    BY <2>4 DEF TypeInv, StopGone, RaiseFromBody, RaiseFromStop, ReturnFromStop
  <2> QED
    BY <1>2, <2>1, <2>2, <2>3, <2>4 DEF Stop
<1>3. CASE Finally
  <2>1. CASE WriteInterrupted
    BY <2>1 DEF TypeInv, WriteInterrupted
  <2>2. CASE SetGuardStop
    BY <2>2 DEF TypeInv, SetGuardStop
  <2>3. CASE JoinMonitor
    BY <2>3 DEF TypeInv, JoinMonitor
  <2>4. CASE EnterRestore
    BY <2>4 DEF TypeInv, EnterRestore
  <2>5. CASE DeferSigint
    BY <2>5 DEF TypeInv, DeferSigint
  <2>6. CASE DeferSigterm
    BY <2>6 DEF TypeInv, DeferSigterm
  <2>7. CASE RestoreInspect
    BY <2>7 DEF TypeInv, RestoreInspect, RaiseFromRestore, InspectsAsAbsent,
       InspectsAsPresent
  <2>8. CASE RestoreStop
    BY <2>8 DEF TypeInv, RestoreStop, OnGpu
  <2>9. CASE RestoreStopWait
    BY <2>9 DEF TypeInv, RestoreStopWait, RaiseFromRestore
  <2>10. CASE RestoreStart
    BY <2>10 DEF TypeInv, RestoreStart, RaiseFromRestore, OnGpu
  <2>11. CASE RestoreHealth
    <3>1. receipts' \subseteq {"interrupted", "executed", "restored"}
      BY <2>11 DEF TypeInv, RestoreHealth
    <3> QED BY <2>11, <3>1 DEF TypeInv, RestoreHealth
  <2>12. CASE RestoreHandlers
    BY <2>12 DEF TypeInv, RestoreHandlers
  <2>13. CASE Exit
    BY <2>13 DEF TypeInv, Exit
  <2> QED
    BY <1>3, <2>1, <2>2, <2>3, <2>4, <2>5, <2>6, <2>7, <2>8, <2>9, <2>10,
       <2>11, <2>12, <2>13 DEF Finally
<1>4. CASE ChildNext
  <2>1. CASE ChildBoots
    BY <2>1 DEF TypeInv, ChildBoots
  <2>2. CASE ChildBootsUnlisted
    BY <2>2 DEF TypeInv, ChildBootsUnlisted
  <2>3. CASE ClientCreates
    <3>1. orphans' \subseteq {"booting", "created"}
      BY <2>3 DEF TypeInv, ClientCreates
    <3> QED BY <2>3, <3>1 DEF TypeInv, ClientCreates
  <2>4. CASE ClientStarts
    <3>1. /\ orphans' \subseteq {"booting", "created"}
          /\ testOps' \subseteq {"start", "remove"}
      BY <2>4 DEF TypeInv, ClientStarts
    <3> QED BY <2>4, <3>1 DEF TypeInv, ClientStarts
  <2>5. CASE ClientTimesOut
    BY <2>5 DEF TypeInv, ClientTimesOut, ClientGone
  <2>6. CASE OrphanEnds
    <3>1. PICK state \in orphans :
            orphans' = orphans \ {state} /\ ClientGone(state)
      BY <2>6 DEF OrphanEnds
    <3>2. lost' \in 0 .. MaxLost
      BY <3>1 DEF TypeInv, ClientGone
    <3>3. orphans' \subseteq {"booting", "created"}
      BY <3>1 DEF TypeInv
    <3> QED BY <2>6, <3>2, <3>3 DEF TypeInv, OrphanEnds
  <2>7. CASE ChildRemoves
    BY <2>7 DEF TypeInv, ChildRemoves
  <2>8. CASE ChildRemoved
    BY <2>8 DEF TypeInv, ChildRemoved
  <2>9. CASE ChildExits
    BY <2>9 DEF TypeInv, ChildExits
  <2>10. CASE ChildDies
    BY <2>10 DEF TypeInv, ChildDies
  <2> QED
    BY <1>4, <2>1, <2>2, <2>3, <2>4, <2>5, <2>6, <2>7, <2>8, <2>9, <2>10 DEF
       ChildNext
<1>5. CASE DaemonNext
  <2>1. CASE DaemonStopsProduction
    <3>1. prodStop' \in BOOLEAN
      BY <2>1 DEF TypeInv, DaemonStopsProduction
    <3> QED BY <2>1, <3>1 DEF TypeInv, DaemonStopsProduction
  <2>2. CASE ProductionReady
    BY <2>2 DEF TypeInv, ProductionReady
  <2>3. CASE DaemonStartsTest
    BY <2>3 DEF TypeInv, DaemonStartsTest
  <2>4. CASE DaemonRemovesTest
    <3>1. orphans' \subseteq {"booting", "created"} /\ found' \in BOOLEAN
      BY <2>4 DEF TypeInv, DaemonRemovesTest
    <3> QED BY <2>4, <3>1 DEF TypeInv, DaemonRemovesTest
  <2>5. CASE TestServerEnds
    BY <2>5 DEF TypeInv, TestServerEnds
  <2>6. CASE DaemonCreatesLate
    BY <2>6 DEF TypeInv, DaemonCreatesLate
  <2> QED
    BY <1>5, <2>1, <2>2, <2>3, <2>4, <2>5, <2>6 DEF DaemonNext
<1>6. ASSUME NEW s \in Signals, Deliver(s), signals' \in 0 .. MaxSignals,
           monitor' \in {"off", "on", "done"}
     PROVE  TypeInv'
  BY <1>6 DEF TypeInv, Deliver, Interrupted, RaiseFromBody, RaiseFromStop,
     RaiseFromRestore
<1>7. CASE Signal
  <2>1. signals' \in 0 .. MaxSignals /\ monitor' = monitor
    BY <1>7 DEF Signal, TypeInv
  <2>2. PICK s \in Signals : Deliver(s)
    BY <1>7 DEF Signal
  <2>3. monitor' \in {"off", "on", "done"}
    BY <2>1 DEF TypeInv
  <2> QED BY <1>6, <2>1, <2>2, <2>3
<1>8. CASE MonitorInterrupts
  <2>1. monitor' = "done" /\ signals' = signals /\ Deliver("SIGINT")
    BY <1>8 DEF MonitorInterrupts
  <2>2. signals' \in 0 .. MaxSignals
    BY <2>1 DEF TypeInv
  <2> QED BY <1>6, <2>1, <2>2
<1>9. CASE Terminated
  BY <1>9 DEF TypeInv, Terminated
<1>10. CASE UNCHANGED vars
  BY <1>10 DEF TypeInv
<1> QED
  BY <1>1, <1>2, <1>3, <1>4, <1>5, <1>7, <1>8, <1>9, <1>10 DEF Next, MainNext

\* The initial states are in range, and no phase runs.
LEMMA TypeInit == Init => TypeInv
<1> SUFFICES ASSUME Init PROVE TypeInv
  OBVIOUS
<1>1. handler \in [Signals -> {"raise", "defer"}]
  BY DEF Init
<1>2. test \in {"absent", "stopped", "running", "late", "unowned"}
  BY InitialTestAssumption DEF Init
<1>3. /\ stoppedProduction \in BOOLEAN /\ found \in BOOLEAN
      /\ prodStop \in BOOLEAN
  BY Zenon DEF Init
<1>4. /\ testOps \subseteq {"start", "remove"}
      /\ orphans \subseteq {"booting", "created"}
      /\ receipts \subseteq {"interrupted", "executed", "restored"}
  BY DEF Init
<1> QED
  BY <1>1, <1>2, <1>3, <1>4, PhaseCountAssumption, MaxSignalsAssumption,
     MaxLostAssumption
   DEF Init, TypeInv, TypeOK, RunsWithinPlan, Points, BodyPoints, RunPoints,
       StopPoints, FinallyPoints, RestorePoints, Errors, ChildStates, Signals

\* Type correctness of the coordinator, for every value of the constants.
THEOREM TypeCorrect == Spec => []TypeOK
<1>1. TypeInv => TypeOK
  BY DEF TypeInv
<1> QED
  BY <1>1, TypeInit, TypeStep, PTL DEF Spec

-----------------------------------------------------------------------------
(* No overlap, and honest restore receipts.                                *)

\* The environment in which both hold: no signal is taken at the points that
\* defeat the cleanup, a failing `docker inspect` means there is no container,
\* and no docker client outlives its phase.  Clients may fail otherwise.
Covered ==
  /\ SignalPoints \cap CleanupGaps = {}
  /\ ~InspectMayFail
  /\ ~OrphanClients

\* No test server runs and nothing can still start one.
Quiet == child = "none" /\ test # "running" /\ "start" \notin testOps

\* Main is between the stop of production and the end of the phases.
Lent == \/ pc \in {"contamination", "launch", "spawned", "phaseWait", "killing",
                   "reaping"}
        \/ pc \in StopPoints /\ ctx = "phase"

\* A phase process only exists while rt.run looks after it.
ChildAttended ==
  /\ orphans = {}
  /\ child # "none" => pc \in {"spawned", "phaseWait", "killing"}

\* A start only waits for a container that exists.
StartHasContainer == test = "absent" => "start" \notin testOps

\* Production only holds the GPUs when no test server can get them.
ProductionIsAlone == OnGpu => Quiet

\* A stop that main waits for is under way, or done.
StopJoined == pc \in {"stopWait", "rStopWait"} => prodStop \/ ~OnGpu

PhasesNeedPause == Lent => ~OnGpu

\* From the check that the test container is gone to the start of production.
RestoreIsQuiet ==
  /\ pc \in {"rStop", "rStopWait", "rStart"} => Quiet
  /\ pc = "rStart" => ~OnGpu /\ ~prodStop
  /\ pc = "rHealth" => prod \in {"starting", "restored"} /\ ~prodStop

ReceiptInv ==
  "restored" \in receipts =>
    /\ pc \in {"rHandlers", "exit", "exited"}
    /\ prod = "restored" /\ ~prodStop /\ Quiet

\* Until main sets its flag nothing has been asked of the daemon.
BeforePause ==
  ~stoppedProduction =>
    /\ pc \in {"drain", "preflight", "inspect", "pause", "except", "finally",
              "join", "restoreEnter", "exit", "exited"}
    /\ ~prodStop /\ Quiet /\ prod \in {"serving", "stopped"}

PauseNeedsServing ==
  /\ pc \in {"drain", "preflight", "inspect", "pause"} => ~stoppedProduction
  /\ pc = "pause" => prod = "serving"

\* Production that was started again is not stopped again.
ReturnIsFinal ==
  prod \in {"starting", "restored"} =>
    pc \in {"rHealth", "rHandlers", "exit", "exited"} /\ ~prodStop

LeaseInv == /\ ChildAttended /\ StartHasContainer
            /\ ProductionIsAlone /\ StopJoined /\ PhasesNeedPause
            /\ RestoreIsQuiet /\ ReceiptInv /\ BeforePause
            /\ PauseNeedsServing /\ ReturnIsFinal

\* Every step keeps the invariant, given the environment.
LEMMA LeaseStep ==
  ASSUME Covered, TypeInv, LeaseInv, [Next]_vars
  PROVE  LeaseInv'
<1> USE DEF Covered, CleanupGaps, TypeInv, TypeOK, LeaseInv, ChildAttended,
        StartHasContainer, ProductionIsAlone, StopJoined, PhasesNeedPause,
        RestoreIsQuiet, ReceiptInv, BeforePause, PauseNeedsServing, ReturnIsFinal,
        Quiet, Lent, OnGpu, BodyPoints, RunPoints,
        StopPoints, FinallyPoints, RestorePoints, ChildStates, Goto, At, vars,
        mainVars, errorVars, phaseVars, dockerVars, testVars
<1>1. CASE Body
  <2>1. CASE Drain
    BY <2>1 DEF Drain, RaiseFromBody
  <2>2. CASE Preflight
    BY <2>2 DEF Preflight, RaiseFromBody
  <2>3. CASE InspectProduction
    BY <2>3 DEF InspectProduction, RaiseFromBody
  <2>4. CASE MarkStopped
    BY <2>4 DEF MarkStopped
  <2>5. CASE AskStop
    BY <2>5 DEF AskStop
  <2>6. CASE AwaitStop
    BY <2>6 DEF AwaitStop, RaiseFromBody
  <2>7. CASE CheckContamination
    BY <2>7 DEF CheckContamination, RaiseFromBody
  <2>8. CASE Launch
    BY <2>8 DEF Launch
  <2>9. CASE EnterWait
    BY <2>9 DEF EnterWait
  <2>10. CASE PhaseExits
    BY <2>10 DEF PhaseExits, FinishPhase
  <2>11. CASE PhaseTimesOut
    BY <2>11 DEF PhaseTimesOut
  <2>12. CASE KillPhase
    BY <2>12 DEF KillPhase, ClientGone
  <2>13. CASE ReapPhase
    BY <2>13 DEF ReapPhase, RaiseFromBody, FinishPhase
  <2>14. CASE AllPhasesRun
    BY <2>14 DEF AllPhasesRun
  <2>15. CASE WriteExecuted
    BY <2>15 DEF WriteExecuted
  <2> QED
    BY <1>1, <2>1, <2>2, <2>3, <2>4, <2>5, <2>6, <2>7, <2>8, <2>9, <2>10,
       <2>11, <2>12, <2>13, <2>14, <2>15 DEF Body
<1>2. CASE Stop
  <2>1. CASE StopInspect
    BY <2>1 DEF StopInspect, RaiseFromBody, RaiseFromStop, ReturnFromStop,
       InspectsAsAbsent, InspectsAsPresent
  <2>2. CASE StopCapture
    BY <2>2 DEF StopCapture
  <2>3. CASE StopRemove
    BY <2>3 DEF StopRemove
  <2>4. CASE StopGone
    BY <2>4 DEF StopGone, RaiseFromBody, RaiseFromStop, ReturnFromStop
  <2> QED
    BY <1>2, <2>1, <2>2, <2>3, <2>4 DEF Stop
<1>3. CASE Finally
  <2>1. CASE WriteInterrupted
    BY <2>1 DEF WriteInterrupted
  <2>2. CASE SetGuardStop
    BY <2>2 DEF SetGuardStop
  <2>3. CASE JoinMonitor
    BY <2>3 DEF JoinMonitor
  <2>4. CASE EnterRestore
    BY <2>4 DEF EnterRestore
  <2>5. CASE DeferSigint
    BY <2>5 DEF DeferSigint
  <2>6. CASE DeferSigterm
    BY <2>6 DEF DeferSigterm
  <2>7. CASE RestoreInspect
    BY <2>7 DEF RestoreInspect, RaiseFromRestore, InspectsAsAbsent,
       InspectsAsPresent
  <2>8. CASE RestoreStop
    BY <2>8 DEF RestoreStop, OnGpu
  <2>9. CASE RestoreStopWait
    BY <2>9 DEF RestoreStopWait, RaiseFromRestore
  <2>10. CASE RestoreStart
    BY <2>10 DEF RestoreStart, RaiseFromRestore, OnGpu
  <2>11. CASE RestoreHealth
    BY <2>11 DEF RestoreHealth
  <2>12. CASE RestoreHandlers
    BY <2>12 DEF RestoreHandlers
  <2>13. CASE Exit
    BY <2>13 DEF Exit
  <2> QED
    BY <1>3, <2>1, <2>2, <2>3, <2>4, <2>5, <2>6, <2>7, <2>8, <2>9, <2>10,
       <2>11, <2>12, <2>13 DEF Finally
<1>4. CASE ChildNext
  <2>1. CASE ChildBoots
    BY <2>1 DEF ChildBoots
  <2>2. CASE ChildBootsUnlisted
    BY <2>2 DEF ChildBootsUnlisted
  <2>3. CASE ClientCreates
    BY <2>3 DEF ClientCreates
  <2>4. CASE ClientStarts
    BY <2>4 DEF ClientStarts
  <2>5. CASE ClientTimesOut
    BY <2>5 DEF ClientTimesOut, ClientGone
  <2>6. CASE OrphanEnds
    BY <2>6 DEF OrphanEnds
  <2>7. CASE ChildRemoves
    BY <2>7 DEF ChildRemoves
  <2>8. CASE ChildRemoved
    BY <2>8 DEF ChildRemoved
  <2>9. CASE ChildExits
    BY <2>9 DEF ChildExits
  <2>10. CASE ChildDies
    BY <2>10 DEF ChildDies
  <2> QED
    BY <1>4, <2>1, <2>2, <2>3, <2>4, <2>5, <2>6, <2>7, <2>8, <2>9, <2>10 DEF
       ChildNext
<1>5. CASE DaemonNext
  <2>1. CASE DaemonStopsProduction
    <3>1. prodStop /\ stoppedProduction /\ "restored" \notin receipts
      BY <2>1 DEF DaemonStopsProduction
    <3>2. /\ prod' = "stopped" /\ ~prodStop'
          /\ UNCHANGED <<pc, ctx, stoppedProduction, child, orphans, test,
                testOps, receipts>>
      BY <2>1 DEF DaemonStopsProduction
    <3>3. UNCHANGED Quiet
      BY <3>2
    <3>4. ChildAttended'
      BY <3>1, <3>2
    <3>5. StartHasContainer'
      BY <3>1, <3>2
    <3>6. ProductionIsAlone'
      BY <3>1, <3>2
    <3>7. StopJoined'
      BY <3>1, <3>2
    <3>8. PhasesNeedPause'
      BY <3>1, <3>2
    <3>9. RestoreIsQuiet'
      BY <3>1, <3>2
    <3>10. ReceiptInv'
      BY <3>1, <3>2
    <3>11. BeforePause'
      BY <3>1, <3>2
    <3>12. PauseNeedsServing'
      BY <3>1, <3>2
    <3>13. ReturnIsFinal'
      BY <3>1, <3>2
    <3> QED
      BY <3>4, <3>5, <3>6, <3>7, <3>8, <3>9, <3>10, <3>11, <3>12, <3>13
  <2>2. CASE ProductionReady
    BY <2>2 DEF ProductionReady
  <2>3. CASE DaemonStartsTest
    BY <2>3 DEF DaemonStartsTest
  <2>4. CASE DaemonRemovesTest
    BY <2>4 DEF DaemonRemovesTest
  <2>5. CASE TestServerEnds
    BY <2>5 DEF TestServerEnds
  <2>6. CASE DaemonCreatesLate
    BY <2>6 DEF DaemonCreatesLate
  <2> QED
    BY <1>5, <2>1, <2>2, <2>3, <2>4, <2>5, <2>6 DEF DaemonNext
<1>6. ASSUME NEW s \in Signals, Deliver(s)
     PROVE  LeaseInv'
  BY <1>6 DEF Deliver, Interrupted, RaiseFromBody, RaiseFromStop,
     RaiseFromRestore
<1>7. CASE Signal
  BY <1>6, <1>7 DEF Signal
<1>8. CASE MonitorInterrupts
  BY <1>6, <1>8 DEF MonitorInterrupts, Signals
<1>9. CASE Terminated
  BY <1>9 DEF Terminated
<1>10. CASE UNCHANGED vars
  BY <1>10
<1> QED
  BY <1>1, <1>2, <1>3, <1>4, <1>5, <1>7, <1>8, <1>9, <1>10 DEF Next, MainNext

\* The invariant holds throughout.
LEMMA LeaseInvariant == ASSUME Covered PROVE Spec => []LeaseInv
<1>1. Init => TypeInv
  BY TypeInit
<1>2. Init => LeaseInv
  BY InitialTestAssumption
     DEF Init, LeaseInv, ChildAttended, StartHasContainer, ProductionIsAlone,
         StopJoined, PhasesNeedPause, RestoreIsQuiet, ReceiptInv, BeforePause,
         PauseNeedsServing, ReturnIsFinal, Quiet, Lent, StopPoints
<1>3. TypeInv /\ LeaseInv /\ [Next]_vars => LeaseInv'
  BY LeaseStep
<1> QED
  BY <1>1, <1>2, <1>3, TypeStep, PTL DEF Spec

\* Production and a test server never hold the GPUs together: for any number of
\* phases, any number of signals at the covered points, and docker clients
\* that fail or time out whenever they like.
THEOREM OverlapExcluded == ASSUME Covered PROVE Spec => []NoOverlap
<1>1. LeaseInv => NoOverlap
  BY DEF LeaseInv, NoOverlap, ProductionIsAlone, Quiet
<1> QED
  BY <1>1, LeaseInvariant, PTL

\* A production-restored receipt is only written for a production server that
\* is up, that no stop threatens and that no phase process can collide with.
THEOREM ReceiptHonest == ASSUME Covered PROVE Spec => []RestoreReceiptHonest
<1>1. LeaseInv => RestoreReceiptHonest
  BY DEF LeaseInv, ReceiptInv, RestoreReceiptHonest, Quiet
<1> QED
  BY <1>1, LeaseInvariant, PTL

-----------------------------------------------------------------------------
(* The run implements the GPU lease.                                       *)

LEMMA LeaseMapInit == Init => GpuLease!LeaseInit
  BY InitialTestAssumption
     DEF Init, GpuLease!LeaseInit, Holder, Lease, OnGpu

\* Each step of the run is a step of the lease or leaves it alone.
LEMMA LeaseMapStep ==
  ASSUME Covered, TypeInv, LeaseInv, [Next]_vars
  PROVE  [GpuLease!LeaseNext]_GpuLease!leaseVars
<1> USE DEF Covered, TypeInv, TypeOK, LeaseInv, ChildAttended,
        StartHasContainer, ProductionIsAlone, StopJoined, PhasesNeedPause,
        RestoreIsQuiet, BeforePause, PauseNeedsServing, ReturnIsFinal, Quiet,
        Lent, OnGpu, Goto, At, vars, mainVars, errorVars, phaseVars,
        dockerVars, testVars, Holder, Lease, GpuLease!LeaseNext, GpuLease!leaseVars,
        GpuLease!Lend, GpuLease!Vacate, GpuLease!Acquire, GpuLease!Release,
        GpuLease!Return
<1>1. CASE Body
  <2>1. CASE Drain
    BY <2>1 DEF Drain, RaiseFromBody
  <2>2. CASE Preflight
    BY <2>2 DEF Preflight, RaiseFromBody
  <2>3. CASE InspectProduction
    BY <2>3 DEF InspectProduction, RaiseFromBody
  <2>4. CASE MarkStopped
    BY <2>4 DEF MarkStopped
  <2>5. CASE AskStop
    BY <2>5 DEF AskStop
  <2>6. CASE AwaitStop
    BY <2>6 DEF AwaitStop, RaiseFromBody
  <2>7. CASE CheckContamination
    BY <2>7 DEF CheckContamination, RaiseFromBody
  <2>8. CASE Launch
    BY <2>8 DEF Launch
  <2>9. CASE EnterWait
    BY <2>9 DEF EnterWait
  <2>10. CASE PhaseExits
    BY <2>10 DEF PhaseExits, FinishPhase
  <2>11. CASE PhaseTimesOut
    BY <2>11 DEF PhaseTimesOut
  <2>12. CASE KillPhase
    BY <2>12 DEF KillPhase, ClientGone
  <2>13. CASE ReapPhase
    BY <2>13 DEF ReapPhase, RaiseFromBody, FinishPhase
  <2>14. CASE AllPhasesRun
    BY <2>14 DEF AllPhasesRun
  <2>15. CASE WriteExecuted
    BY <2>15 DEF WriteExecuted
  <2> QED
    BY <1>1, <2>1, <2>2, <2>3, <2>4, <2>5, <2>6, <2>7, <2>8, <2>9, <2>10,
       <2>11, <2>12, <2>13, <2>14, <2>15 DEF Body
<1>2. CASE Stop
  <2>1. CASE StopInspect
    BY <2>1 DEF StopInspect, RaiseFromBody, RaiseFromStop, ReturnFromStop,
       InspectsAsAbsent, InspectsAsPresent
  <2>2. CASE StopCapture
    BY <2>2 DEF StopCapture
  <2>3. CASE StopRemove
    BY <2>3 DEF StopRemove
  <2>4. CASE StopGone
    BY <2>4 DEF StopGone, RaiseFromBody, RaiseFromStop, ReturnFromStop
  <2> QED
    BY <1>2, <2>1, <2>2, <2>3, <2>4 DEF Stop
<1>3. CASE Finally
  <2>1. CASE WriteInterrupted
    BY <2>1 DEF WriteInterrupted
  <2>2. CASE SetGuardStop
    BY <2>2 DEF SetGuardStop
  <2>3. CASE JoinMonitor
    BY <2>3 DEF JoinMonitor
  <2>4. CASE EnterRestore
    BY <2>4 DEF EnterRestore
  <2>5. CASE DeferSigint
    BY <2>5 DEF DeferSigint
  <2>6. CASE DeferSigterm
    BY <2>6 DEF DeferSigterm
  <2>7. CASE RestoreInspect
    BY <2>7 DEF RestoreInspect, RaiseFromRestore, InspectsAsAbsent,
       InspectsAsPresent
  <2>8. CASE RestoreStop
    BY <2>8 DEF RestoreStop, OnGpu
  <2>9. CASE RestoreStopWait
    BY <2>9 DEF RestoreStopWait, RaiseFromRestore
  <2>10. CASE RestoreStart
    BY <2>10 DEF RestoreStart, RaiseFromRestore, OnGpu
  <2>11. CASE RestoreHealth
    BY <2>11 DEF RestoreHealth
  <2>12. CASE RestoreHandlers
    BY <2>12 DEF RestoreHandlers
  <2>13. CASE Exit
    BY <2>13 DEF Exit
  <2> QED
    BY <1>3, <2>1, <2>2, <2>3, <2>4, <2>5, <2>6, <2>7, <2>8, <2>9, <2>10,
       <2>11, <2>12, <2>13 DEF Finally
<1>4. CASE ChildNext
  <2>1. CASE ChildBoots
    BY <2>1 DEF ChildBoots
  <2>2. CASE ChildBootsUnlisted
    BY <2>2 DEF ChildBootsUnlisted
  <2>3. CASE ClientCreates
    BY <2>3 DEF ClientCreates
  <2>4. CASE ClientStarts
    BY <2>4 DEF ClientStarts
  <2>5. CASE ClientTimesOut
    BY <2>5 DEF ClientTimesOut, ClientGone
  <2>6. CASE OrphanEnds
    BY <2>6 DEF OrphanEnds
  <2>7. CASE ChildRemoves
    BY <2>7 DEF ChildRemoves
  <2>8. CASE ChildRemoved
    BY <2>8 DEF ChildRemoved
  <2>9. CASE ChildExits
    BY <2>9 DEF ChildExits
  <2>10. CASE ChildDies
    BY <2>10 DEF ChildDies
  <2> QED
    BY <1>4, <2>1, <2>2, <2>3, <2>4, <2>5, <2>6, <2>7, <2>8, <2>9, <2>10 DEF
       ChildNext
<1>5. CASE DaemonNext
  <2>1. CASE DaemonStopsProduction
    BY <2>1 DEF DaemonStopsProduction
  <2>2. CASE ProductionReady
    BY <2>2 DEF ProductionReady
  <2>3. CASE DaemonStartsTest
    BY <2>3 DEF DaemonStartsTest
  <2>4. CASE DaemonRemovesTest
    BY <2>4 DEF DaemonRemovesTest
  <2>5. CASE TestServerEnds
    BY <2>5 DEF TestServerEnds
  <2>6. CASE DaemonCreatesLate
    BY <2>6 DEF DaemonCreatesLate
  <2> QED
    BY <1>5, <2>1, <2>2, <2>3, <2>4, <2>5, <2>6 DEF DaemonNext
<1>6. CASE Signal
  BY <1>6 DEF Signal, Deliver
<1>7. CASE MonitorInterrupts
  BY <1>7 DEF MonitorInterrupts, Deliver
<1>8. CASE Terminated
  BY <1>8 DEF Terminated
<1>9. CASE UNCHANGED vars
  BY <1>9
<1> QED
  BY <1>1, <1>2, <1>3, <1>4, <1>5, <1>6, <1>7, <1>8, <1>9 DEF Next, MainNext

\* The detailed run implements the lease: it lends only what production held,
\* no hand-over is direct, and the return is final.
THEOREM LeaseImplemented == ASSUME Covered PROVE Spec => LeaseHonoured
<1>1. Spec => []TypeInv
  BY TypeInit, TypeStep, PTL DEF Spec
<1>2. TypeInv /\ LeaseInv /\ [Next]_vars
        => [GpuLease!LeaseNext]_GpuLease!leaseVars
  BY LeaseMapStep
<1> QED
  BY <1>1, <1>2, LeaseMapInit, LeaseInvariant, PTL
     DEF Spec, LeaseHonoured, GpuLease!LeaseSpec

-----------------------------------------------------------------------------
(* A phase starts on a clean slate.                                        *)

\* Nothing is left, but for what a create whose client is gone may have left,
\* and the daemon owes nothing on it.
Cleared == test \in {"absent", "late"} /\ testOps = {}

\* A container that is gone has no operation pending, and none is pending on a
\* container of the battery's name before the first phase, once the container
\* that rt.stop found is removed, or when the next phase is about to start.
SlateInv ==
  /\ test = "absent" => testOps = {} /\ ~found
  /\ pc \in BodyPoints \ {"launch", "executed"} => i = 0 /\ testOps = {}
  /\ pc \in {"stop.capture", "stop.remove", "stop.gone"} /\ ~found => Cleared
  /\ pc = "launch" => testOps = {} /\ (i > 0 => Cleared)

\* Every step keeps it, given the environment of LeaseStep.
LEMMA SlateStep ==
  ASSUME Covered, TypeInv, LeaseInv, SlateInv, [Next]_vars
  PROVE  SlateInv'
<1> USE DEF Covered, CleanupGaps, TypeInv, TypeOK, LeaseInv, ChildAttended,
        StartHasContainer, SlateInv, Cleared, BodyPoints, RunPoints, StopPoints,
        FinallyPoints, RestorePoints, ChildStates, Signals, Goto, At, vars,
        mainVars, errorVars, phaseVars, dockerVars, testVars
<1>1. CASE Body
  <2>1. CASE Drain
    BY <2>1 DEF Drain, RaiseFromBody
  <2>2. CASE Preflight
    BY <2>2 DEF Preflight, RaiseFromBody
  <2>3. CASE InspectProduction
    BY <2>3 DEF InspectProduction, RaiseFromBody
  <2>4. CASE MarkStopped
    BY <2>4 DEF MarkStopped
  <2>5. CASE AskStop
    BY <2>5 DEF AskStop
  <2>6. CASE AwaitStop
    BY <2>6 DEF AwaitStop, RaiseFromBody
  <2>7. CASE CheckContamination
    BY <2>7 DEF CheckContamination, RaiseFromBody
  <2>8. CASE Launch
    BY <2>8 DEF Launch
  <2>9. CASE EnterWait
    BY <2>9 DEF EnterWait
  <2>10. CASE PhaseExits
    BY <2>10 DEF PhaseExits, FinishPhase
  <2>11. CASE PhaseTimesOut
    BY <2>11 DEF PhaseTimesOut
  <2>12. CASE KillPhase
    BY <2>12 DEF KillPhase, ClientGone
  <2>13. CASE ReapPhase
    BY <2>13 DEF ReapPhase, RaiseFromBody, FinishPhase
  <2>14. CASE AllPhasesRun
    BY <2>14 DEF AllPhasesRun
  <2>15. CASE WriteExecuted
    BY <2>15 DEF WriteExecuted
  <2> QED
    BY <1>1, <2>1, <2>2, <2>3, <2>4, <2>5, <2>6, <2>7, <2>8, <2>9, <2>10,
       <2>11, <2>12, <2>13, <2>14, <2>15 DEF Body
<1>2. CASE Stop
  <2>1. CASE StopInspect
    BY <2>1 DEF StopInspect, RaiseFromBody, RaiseFromStop, ReturnFromStop,
       InspectsAsAbsent, InspectsAsPresent
  <2>2. CASE StopCapture
    BY <2>2 DEF StopCapture
  <2>3. CASE StopRemove
    <3>1. ~found => UNCHANGED testOps
      BY <2>3 DEF StopRemove
    <3>2. UNCHANGED <<test, found, i>> /\ pc = "stop.remove"
            /\ pc' = "stop.gone"
      BY <2>3 DEF StopRemove
    <3> QED BY <3>1, <3>2
  <2>4. CASE StopGone
    BY <2>4 DEF StopGone, RaiseFromBody, RaiseFromStop, ReturnFromStop
  <2> QED
    BY <1>2, <2>1, <2>2, <2>3, <2>4 DEF Stop
<1>3. CASE Finally
  <2>1. CASE WriteInterrupted
    BY <2>1 DEF WriteInterrupted
  <2>2. CASE SetGuardStop
    BY <2>2 DEF SetGuardStop
  <2>3. CASE JoinMonitor
    BY <2>3 DEF JoinMonitor
  <2>4. CASE EnterRestore
    BY <2>4 DEF EnterRestore
  <2>5. CASE DeferSigint
    BY <2>5 DEF DeferSigint
  <2>6. CASE DeferSigterm
    BY <2>6 DEF DeferSigterm
  <2>7. CASE RestoreInspect
    BY <2>7 DEF RestoreInspect, RaiseFromRestore, InspectsAsAbsent,
       InspectsAsPresent
  <2>8. CASE RestoreStop
    BY <2>8 DEF RestoreStop, OnGpu
  <2>9. CASE RestoreStopWait
    BY <2>9 DEF RestoreStopWait, RaiseFromRestore
  <2>10. CASE RestoreStart
    BY <2>10 DEF RestoreStart, RaiseFromRestore, OnGpu
  <2>11. CASE RestoreHealth
    BY <2>11 DEF RestoreHealth
  <2>12. CASE RestoreHandlers
    BY <2>12 DEF RestoreHandlers
  <2>13. CASE Exit
    BY <2>13 DEF Exit
  <2> QED
    BY <1>3, <2>1, <2>2, <2>3, <2>4, <2>5, <2>6, <2>7, <2>8, <2>9, <2>10,
       <2>11, <2>12, <2>13 DEF Finally
<1>4. CASE ChildNext
  <2>1. CASE ChildBoots
    BY <2>1 DEF ChildBoots
  <2>2. CASE ChildBootsUnlisted
    BY <2>2 DEF ChildBootsUnlisted
  <2>3. CASE ClientCreates
    BY <2>3 DEF ClientCreates
  <2>4. CASE ClientStarts
    BY <2>4 DEF ClientStarts
  <2>5. CASE ClientTimesOut
    BY <2>5 DEF ClientTimesOut, ClientGone
  <2>6. CASE OrphanEnds
    BY <2>6 DEF OrphanEnds
  <2>7. CASE ChildRemoves
    BY <2>7 DEF ChildRemoves
  <2>8. CASE ChildRemoved
    BY <2>8 DEF ChildRemoved
  <2>9. CASE ChildExits
    BY <2>9 DEF ChildExits
  <2>10. CASE ChildDies
    BY <2>10 DEF ChildDies
  <2> QED
    BY <1>4, <2>1, <2>2, <2>3, <2>4, <2>5, <2>6, <2>7, <2>8, <2>9, <2>10 DEF
       ChildNext
<1>5. CASE DaemonNext
  <2>1. CASE DaemonStopsProduction
    BY <2>1 DEF DaemonStopsProduction
  <2>2. CASE ProductionReady
    BY <2>2 DEF ProductionReady
  <2>3. CASE DaemonStartsTest
    BY <2>3 DEF DaemonStartsTest
  <2>4. CASE DaemonRemovesTest
    BY <2>4 DEF DaemonRemovesTest
  <2>5. CASE TestServerEnds
    BY <2>5 DEF TestServerEnds
  <2>6. CASE DaemonCreatesLate
    BY <2>6 DEF DaemonCreatesLate
  <2> QED
    BY <1>5, <2>1, <2>2, <2>3, <2>4, <2>5, <2>6 DEF DaemonNext
<1>6. ASSUME NEW s \in Signals, Deliver(s)
     PROVE  SlateInv'
  BY <1>6 DEF Deliver, Interrupted, RaiseFromBody, RaiseFromStop,
     RaiseFromRestore
<1>7. CASE Signal
  BY <1>6, <1>7 DEF Signal
<1>8. CASE MonitorInterrupts
  BY <1>6, <1>8 DEF MonitorInterrupts
<1>9. CASE Terminated
  BY <1>9 DEF Terminated
<1>10. CASE UNCHANGED vars
  BY <1>10
<1> QED
  BY <1>1, <1>2, <1>3, <1>4, <1>5, <1>7, <1>8, <1>9, <1>10 DEF Next, MainNext

\* The clean slate of SlateInv holds throughout.
LEMMA SlateInvariant == ASSUME Covered PROVE Spec => []SlateInv
<1>1. Init => SlateInv
  BY DEF Init, SlateInv, BodyPoints
<1>2. TypeInv /\ LeaseInv /\ SlateInv /\ [Next]_vars => SlateInv'
  BY SlateStep
<1>3. Spec => []TypeInv
  BY TypeInit, TypeStep, PTL DEF Spec
<1> QED
  BY <1>1, <1>2, <1>3, LeaseInvariant, PTL DEF Spec

\* When a later phase starts, the container of the phase before it is gone, no
\* client of it is left and the daemon owes no start or removal, so that what a
\* late create may leave is never started: for any number of phases, signals
\* and late creates, and docker clients that fail or time out.
THEOREM CleanSlate == ASSUME Covered PROVE Spec => CleanSlatePerPhase
<1>1. ASSUME LeaseInv, SlateInv, [Next]_vars
      PROVE  (child = "none" /\ child' # "none")
               => /\ orphans = {} /\ testOps = {}
                  /\ i > 0 => test \in {"absent", "late"}
  <2> SUFFICES ASSUME child = "none", child' # "none"
               PROVE  orphans = {} /\ pc = "launch"
    BY <1>1 DEF SlateInv, Cleared
  <2>1. orphans = {}
    BY <1>1 DEF LeaseInv, ChildAttended
  <2>2. \/ Launch \/ KillPhase \/ ChildNext \/ child' = child
    BY <1>1 DEF Next, MainNext, Body, Stop, Finally, Drain, Preflight,
       InspectProduction, MarkStopped, AskStop, AwaitStop, CheckContamination,
       EnterWait, PhaseExits, PhaseTimesOut, ReapPhase, AllPhasesRun,
       WriteExecuted, StopInspect, StopCapture, StopRemove, StopGone,
       WriteInterrupted, SetGuardStop, JoinMonitor, EnterRestore, DeferSigint,
       DeferSigterm, RestoreInspect, RestoreStop, RestoreStopWait,
       RestoreStart, RestoreHealth, RestoreHandlers, Exit, Signal,
       MonitorInterrupts, Deliver, DaemonNext, DaemonStopsProduction,
       ProductionReady, DaemonStartsTest, DaemonCreatesLate, DaemonRemovesTest,
       TestServerEnds, Terminated, vars, phaseVars
  <2>3. Launch
    BY <2>2 DEF KillPhase, ChildNext, ChildBoots, ChildBootsUnlisted,
       ClientCreates, ClientStarts, ClientTimesOut, OrphanEnds, ChildRemoves,
       ChildRemoved, ChildExits, ChildDies, phaseVars
  <2> QED
    BY <2>1, <2>3 DEF Launch, At
<1> QED
  BY <1>1, LeaseInvariant, SlateInvariant, PTL DEF Spec, CleanSlatePerPhase

-----------------------------------------------------------------------------
(* Somebody else's container is left alone.                                *)

\* No operation is pending on a container without the battery's label, and the
\* coordinator is not in the part of rt.stop that removes one.
UnownedInv ==
  test = "unowned" =>
    testOps = {} /\ pc \notin {"stop.capture", "stop.remove", "stop.gone"}

\* Every step keeps it, in any environment.
LEMMA UnownedStep ==
  ASSUME TypeInv, UnownedInv, [Next]_vars
  PROVE  UnownedInv'
<1> USE DEF TypeInv, TypeOK, UnownedInv, BodyPoints, RunPoints, StopPoints,
        FinallyPoints, RestorePoints, Signals, Goto, At, vars, mainVars,
        errorVars, phaseVars, dockerVars, testVars
<1>1. CASE Body
  <2>1. CASE Drain
    BY <2>1 DEF Drain, RaiseFromBody
  <2>2. CASE Preflight
    BY <2>2 DEF Preflight, RaiseFromBody
  <2>3. CASE InspectProduction
    BY <2>3 DEF InspectProduction, RaiseFromBody
  <2>4. CASE MarkStopped
    BY <2>4 DEF MarkStopped
  <2>5. CASE AskStop
    BY <2>5 DEF AskStop
  <2>6. CASE AwaitStop
    BY <2>6 DEF AwaitStop, RaiseFromBody
  <2>7. CASE CheckContamination
    BY <2>7 DEF CheckContamination, RaiseFromBody
  <2>8. CASE Launch
    BY <2>8 DEF Launch
  <2>9. CASE EnterWait
    BY <2>9 DEF EnterWait
  <2>10. CASE PhaseExits
    BY <2>10 DEF PhaseExits, FinishPhase
  <2>11. CASE PhaseTimesOut
    BY <2>11 DEF PhaseTimesOut
  <2>12. CASE KillPhase
    BY <2>12 DEF KillPhase, ClientGone
  <2>13. CASE ReapPhase
    BY <2>13 DEF ReapPhase, RaiseFromBody, FinishPhase
  <2>14. CASE AllPhasesRun
    BY <2>14 DEF AllPhasesRun
  <2>15. CASE WriteExecuted
    BY <2>15 DEF WriteExecuted
  <2> QED
    BY <1>1, <2>1, <2>2, <2>3, <2>4, <2>5, <2>6, <2>7, <2>8, <2>9, <2>10,
       <2>11, <2>12, <2>13, <2>14, <2>15 DEF Body
<1>2. CASE Stop
  <2>1. CASE StopInspect
    BY <2>1 DEF StopInspect, RaiseFromBody, RaiseFromStop, ReturnFromStop,
       InspectsAsAbsent, InspectsAsPresent
  <2>2. CASE StopCapture
    BY <2>2 DEF StopCapture
  <2>3. CASE StopRemove
    BY <2>3 DEF StopRemove
  <2>4. CASE StopGone
    BY <2>4 DEF StopGone, RaiseFromBody, RaiseFromStop, ReturnFromStop
  <2> QED
    BY <1>2, <2>1, <2>2, <2>3, <2>4 DEF Stop
<1>3. CASE Finally
  <2>1. CASE WriteInterrupted
    BY <2>1 DEF WriteInterrupted
  <2>2. CASE SetGuardStop
    BY <2>2 DEF SetGuardStop
  <2>3. CASE JoinMonitor
    BY <2>3 DEF JoinMonitor
  <2>4. CASE EnterRestore
    BY <2>4 DEF EnterRestore
  <2>5. CASE DeferSigint
    BY <2>5 DEF DeferSigint
  <2>6. CASE DeferSigterm
    BY <2>6 DEF DeferSigterm
  <2>7. CASE RestoreInspect
    BY <2>7 DEF RestoreInspect, RaiseFromRestore, InspectsAsAbsent,
       InspectsAsPresent
  <2>8. CASE RestoreStop
    BY <2>8 DEF RestoreStop, OnGpu
  <2>9. CASE RestoreStopWait
    BY <2>9 DEF RestoreStopWait, RaiseFromRestore
  <2>10. CASE RestoreStart
    BY <2>10 DEF RestoreStart, RaiseFromRestore, OnGpu
  <2>11. CASE RestoreHealth
    BY <2>11 DEF RestoreHealth
  <2>12. CASE RestoreHandlers
    BY <2>12 DEF RestoreHandlers
  <2>13. CASE Exit
    BY <2>13 DEF Exit
  <2> QED
    BY <1>3, <2>1, <2>2, <2>3, <2>4, <2>5, <2>6, <2>7, <2>8, <2>9, <2>10,
       <2>11, <2>12, <2>13 DEF Finally
<1>4. CASE ChildNext
  <2>1. CASE ChildBoots
    BY <2>1 DEF ChildBoots
  <2>2. CASE ChildBootsUnlisted
    BY <2>2 DEF ChildBootsUnlisted
  <2>3. CASE ClientCreates
    BY <2>3 DEF ClientCreates
  <2>4. CASE ClientStarts
    BY <2>4 DEF ClientStarts
  <2>5. CASE ClientTimesOut
    BY <2>5 DEF ClientTimesOut, ClientGone
  <2>6. CASE OrphanEnds
    BY <2>6 DEF OrphanEnds
  <2>7. CASE ChildRemoves
    BY <2>7 DEF ChildRemoves
  <2>8. CASE ChildRemoved
    BY <2>8 DEF ChildRemoved
  <2>9. CASE ChildExits
    BY <2>9 DEF ChildExits
  <2>10. CASE ChildDies
    BY <2>10 DEF ChildDies
  <2> QED
    BY <1>4, <2>1, <2>2, <2>3, <2>4, <2>5, <2>6, <2>7, <2>8, <2>9, <2>10 DEF
       ChildNext
<1>5. CASE DaemonNext
  <2>1. CASE DaemonStopsProduction
    BY <2>1 DEF DaemonStopsProduction
  <2>2. CASE ProductionReady
    BY <2>2 DEF ProductionReady
  <2>3. CASE DaemonStartsTest
    BY <2>3 DEF DaemonStartsTest
  <2>4. CASE DaemonRemovesTest
    BY <2>4 DEF DaemonRemovesTest
  <2>5. CASE TestServerEnds
    BY <2>5 DEF TestServerEnds
  <2>6. CASE DaemonCreatesLate
    BY <2>6 DEF DaemonCreatesLate
  <2> QED
    BY <1>5, <2>1, <2>2, <2>3, <2>4, <2>5, <2>6 DEF DaemonNext
<1>6. ASSUME NEW s \in Signals, Deliver(s)
     PROVE  UnownedInv'
  BY <1>6 DEF Deliver, Interrupted, RaiseFromBody, RaiseFromStop,
     RaiseFromRestore
<1>7. CASE Signal
  BY <1>6, <1>7 DEF Signal
<1>8. CASE MonitorInterrupts
  BY <1>6, <1>8 DEF MonitorInterrupts
<1>9. CASE Terminated
  BY <1>9 DEF Terminated
<1>10. CASE UNCHANGED vars
  BY <1>10
<1> QED
  BY <1>1, <1>2, <1>3, <1>4, <1>5, <1>7, <1>8, <1>9, <1>10 DEF Next, MainNext

\* The only steps that change the container or ask for an operation on it are
\* the removal by rt.stop, the phase's client and the daemon.
LEMMA TestChangedBy ==
  ASSUME [Next]_vars
  PROVE  \/ StopRemove \/ ChildNext \/ DaemonNext
         \/ UNCHANGED <<test, testOps>>
  BY DEF Next, MainNext, Body, Stop, Finally, Drain, Preflight,
     InspectProduction, MarkStopped, AskStop, AwaitStop, CheckContamination,
     Launch, EnterWait, PhaseExits, PhaseTimesOut, KillPhase, ReapPhase,
     AllPhasesRun, WriteExecuted, StopInspect, StopCapture, StopGone,
     WriteInterrupted, SetGuardStop, JoinMonitor, EnterRestore, DeferSigint,
     DeferSigterm, RestoreInspect, RestoreStop, RestoreStopWait, RestoreStart,
     RestoreHealth, RestoreHandlers, Exit, Signal, MonitorInterrupts, Deliver,
     Terminated, vars, dockerVars, testVars

\* A container of the battery's name without its label is never removed,
\* started or replaced, neither by the coordinator nor by a phase: whatever
\* signals arrive wherever, and whatever docker does.
THEOREM UnownedLeftAlone == Spec => UnownedUntouched
<1>1. Spec => []TypeInv
  BY TypeInit, TypeStep, PTL DEF Spec
<1>2. Init => UnownedInv
  BY DEF Init, UnownedInv
<1>3. TypeInv /\ UnownedInv /\ [Next]_vars => UnownedInv'
  BY UnownedStep
<1>4. ASSUME UnownedInv, [Next]_vars
      PROVE  test = "unowned" => (test' = "unowned" /\ testOps' = {})
  <2> SUFFICES ASSUME test = "unowned"
               PROVE  UNCHANGED <<test, testOps>>
    BY <1>4 DEF UnownedInv
  <2>1. CASE StopRemove
    BY <1>4, <2>1 DEF StopRemove, UnownedInv, At
  <2>2. CASE ChildNext
    BY <2>2 DEF ChildNext, ChildBoots, ChildBootsUnlisted, ClientCreates,
       ClientStarts, ClientTimesOut, OrphanEnds, ChildRemoves, ChildRemoved,
       ChildExits, ChildDies, dockerVars, testVars
  <2>3. CASE DaemonNext
    <3>1. ~DaemonStartsTest /\ ~DaemonRemovesTest /\ ~TestServerEnds
      BY <1>4 DEF DaemonStartsTest, DaemonRemovesTest, TestServerEnds,
         UnownedInv
    <3> QED
      BY <2>3, <3>1 DEF DaemonNext, DaemonStopsProduction, ProductionReady,
         DaemonCreatesLate, testVars
  <2> QED
    BY <1>4, <2>1, <2>2, <2>3, TestChangedBy
<1> QED
  BY <1>1, <1>2, <1>3, <1>4, PTL DEF Spec, UnownedUntouched

-----------------------------------------------------------------------------
(* Production is up again when the coordinator has ended.                  *)

\* On top of Covered: docker does what it is asked, and the container of the
\* battery's name is not somebody else's.
Reliable ==
  /\ Covered
  /\ ~DockerMayFail
  /\ InitialTest \subseteq {"absent", "stopped"}

\* From the second handler on, no signal can interrupt the restore.
RestoreDeferred ==
  /\ pc = "deferTerm" => handler["SIGINT"] = "defer"
  /\ pc \in RestorePoints \/ (pc \in StopPoints /\ ctx = "restore") =>
       /\ \A s \in Signals : handler[s] = "defer"
       /\ child = "none"

CleanedUp == /\ test # "unowned"
             /\ pc = "rInspect" => Cleared

\* Production is back, or a late create was met and stays.
ExitRestored ==
  pc \in {"rHandlers", "exit", "exited"} /\ stoppedProduction
    => prod = "restored" \/ (test = "late" /\ testOps = {})

RestoreInv == RestoreDeferred /\ CleanedUp /\ ExitRestored

LEMMA RestoreStep ==
  ASSUME Reliable, TypeInv, LeaseInv, SlateInv, RestoreInv, [Next]_vars
  PROVE  RestoreInv'
<1> USE DEF Reliable, Covered, CleanupGaps, TypeInv, TypeOK, LeaseInv,
        ChildAttended, RestoreIsQuiet, BeforePause, ReturnIsFinal, RestoreInv,
        RestoreDeferred, CleanedUp, ExitRestored, SlateInv, Cleared, Quiet,
        OnGpu, Signals, BodyPoints, RunPoints, StopPoints, FinallyPoints, RestorePoints,
        ChildStates, Goto, At, vars, mainVars, errorVars, phaseVars, dockerVars, testVars
<1>1. CASE Body
  <2>1. CASE Drain
    BY <2>1 DEF Drain, RaiseFromBody
  <2>2. CASE Preflight
    BY <2>2 DEF Preflight, RaiseFromBody
  <2>3. CASE InspectProduction
    BY <2>3 DEF InspectProduction, RaiseFromBody
  <2>4. CASE MarkStopped
    BY <2>4 DEF MarkStopped
  <2>5. CASE AskStop
    BY <2>5 DEF AskStop
  <2>6. CASE AwaitStop
    BY <2>6 DEF AwaitStop, RaiseFromBody
  <2>7. CASE CheckContamination
    BY <2>7 DEF CheckContamination, RaiseFromBody
  <2>8. CASE Launch
    BY <2>8 DEF Launch
  <2>9. CASE EnterWait
    BY <2>9 DEF EnterWait
  <2>10. CASE PhaseExits
    BY <2>10 DEF PhaseExits, FinishPhase
  <2>11. CASE PhaseTimesOut
    BY <2>11 DEF PhaseTimesOut
  <2>12. CASE KillPhase
    BY <2>12 DEF KillPhase, ClientGone
  <2>13. CASE ReapPhase
    BY <2>13 DEF ReapPhase, RaiseFromBody, FinishPhase
  <2>14. CASE AllPhasesRun
    BY <2>14 DEF AllPhasesRun
  <2>15. CASE WriteExecuted
    BY <2>15 DEF WriteExecuted
  <2> QED
    BY <1>1, <2>1, <2>2, <2>3, <2>4, <2>5, <2>6, <2>7, <2>8, <2>9, <2>10,
       <2>11, <2>12, <2>13, <2>14, <2>15 DEF Body
<1>2. CASE Stop
  <2>1. CASE StopInspect
    BY <2>1 DEF StopInspect, RaiseFromBody, RaiseFromStop, ReturnFromStop,
       InspectsAsAbsent, InspectsAsPresent
  <2>2. CASE StopCapture
    BY <2>2 DEF StopCapture
  <2>3. CASE StopRemove
    BY <2>3 DEF StopRemove
  <2>4. CASE StopGone
    BY <2>4 DEF StopGone, RaiseFromBody, RaiseFromStop, ReturnFromStop
  <2> QED
    BY <1>2, <2>1, <2>2, <2>3, <2>4 DEF Stop
<1>3. CASE Finally
  <2>1. CASE WriteInterrupted
    BY <2>1 DEF WriteInterrupted
  <2>2. CASE SetGuardStop
    BY <2>2 DEF SetGuardStop
  <2>3. CASE JoinMonitor
    BY <2>3 DEF JoinMonitor
  <2>4. CASE EnterRestore
    BY <2>4 DEF EnterRestore
  <2>5. CASE DeferSigint
    BY <2>5 DEF DeferSigint
  <2>6. CASE DeferSigterm
    BY <2>6 DEF DeferSigterm
  <2>7. CASE RestoreInspect
    BY <2>7 DEF RestoreInspect, RaiseFromRestore, InspectsAsAbsent,
       InspectsAsPresent
  <2>8. CASE RestoreStop
    BY <2>8 DEF RestoreStop, OnGpu
  <2>9. CASE RestoreStopWait
    BY <2>9 DEF RestoreStopWait, RaiseFromRestore
  <2>10. CASE RestoreStart
    BY <2>10 DEF RestoreStart, RaiseFromRestore, OnGpu
  <2>11. CASE RestoreHealth
    BY <2>11 DEF RestoreHealth
  <2>12. CASE RestoreHandlers
    BY <2>12 DEF RestoreHandlers
  <2>13. CASE Exit
    BY <2>13 DEF Exit
  <2> QED
    BY <1>3, <2>1, <2>2, <2>3, <2>4, <2>5, <2>6, <2>7, <2>8, <2>9, <2>10,
       <2>11, <2>12, <2>13 DEF Finally
<1>4. CASE ChildNext
  <2>1. CASE ChildBoots
    BY <2>1 DEF ChildBoots
  <2>2. CASE ChildBootsUnlisted
    BY <2>2 DEF ChildBootsUnlisted
  <2>3. CASE ClientCreates
    BY <2>3 DEF ClientCreates
  <2>4. CASE ClientStarts
    BY <2>4 DEF ClientStarts
  <2>5. CASE ClientTimesOut
    BY <2>5 DEF ClientTimesOut, ClientGone
  <2>6. CASE OrphanEnds
    BY <2>6 DEF OrphanEnds
  <2>7. CASE ChildRemoves
    BY <2>7 DEF ChildRemoves
  <2>8. CASE ChildRemoved
    BY <2>8 DEF ChildRemoved
  <2>9. CASE ChildExits
    BY <2>9 DEF ChildExits
  <2>10. CASE ChildDies
    BY <2>10 DEF ChildDies
  <2> QED
    BY <1>4, <2>1, <2>2, <2>3, <2>4, <2>5, <2>6, <2>7, <2>8, <2>9, <2>10 DEF
       ChildNext
<1>5. CASE DaemonNext
  <2>1. CASE DaemonStopsProduction
    BY <2>1 DEF DaemonStopsProduction
  <2>2. CASE ProductionReady
    BY <2>2 DEF ProductionReady
  <2>3. CASE DaemonStartsTest
    BY <2>3 DEF DaemonStartsTest
  <2>4. CASE DaemonRemovesTest
    BY <2>4 DEF DaemonRemovesTest
  <2>5. CASE TestServerEnds
    BY <2>5 DEF TestServerEnds
  <2>6. CASE DaemonCreatesLate
    BY <2>6 DEF DaemonCreatesLate
  <2> QED
    BY <1>5, <2>1, <2>2, <2>3, <2>4, <2>5, <2>6 DEF DaemonNext
<1>6. ASSUME NEW s \in Signals, Deliver(s)
     PROVE  RestoreInv'
  BY <1>6 DEF Deliver, Interrupted, RaiseFromBody, RaiseFromStop,
     RaiseFromRestore
<1>7. CASE Signal
  BY <1>6, <1>7 DEF Signal
<1>8. CASE MonitorInterrupts
  BY <1>6, <1>8 DEF MonitorInterrupts
<1>9. CASE Terminated
  BY <1>9 DEF Terminated
<1>10. CASE UNCHANGED vars
  BY <1>10
<1> QED
  BY <1>1, <1>2, <1>3, <1>4, <1>5, <1>7, <1>8, <1>9, <1>10 DEF Next, MainNext

\* What holds of restored production and of the container from then on.
LEMMA RestoreInvariant ==
  ASSUME Reliable PROVE Spec => [](LeaseInv /\ RestoreInv)
<1>1. Covered
  BY DEF Reliable
<1>2. Spec => []TypeInv
  BY TypeInit, TypeStep, PTL DEF Spec
<1>3. Spec => []LeaseInv /\ []SlateInv
  BY <1>1, LeaseInvariant, SlateInvariant
<1>4. Init => RestoreInv
  BY DEF Init, Reliable, RestoreInv, RestoreDeferred, CleanedUp, ExitRestored,
         RestorePoints, StopPoints
<1>5. TypeInv /\ LeaseInv /\ SlateInv /\ RestoreInv /\ [Next]_vars
        => RestoreInv'
  BY RestoreStep
<1> QED
  BY <1>2, <1>3, <1>4, <1>5, PTL DEF Spec

\* However the run ended, and whatever signals the covered points took: if it
\* stopped production, production is up when it exits, with no stop pending,
\* or the restore was refused over the container of a late create.
THEOREM ProductionRestored == ASSUME Reliable PROVE Spec => []RestoredAtExit
<1>1. LeaseInv /\ RestoreInv => RestoredAtExit
  BY DEF LeaseInv, ReturnIsFinal, RestoreInv, ExitRestored, RestoredAtExit
<1> QED
  BY <1>1, RestoreInvariant, PTL

\* No container is created late when no create outlives its client.
LateNeedsLost == lost = 0 /\ test # "late"

\* Then production is up at every exit, without exception.
THEOREM AlwaysRestored ==
  ASSUME Reliable, MaxLost = 0
  PROVE  Spec => [](pc = "exited" /\ stoppedProduction
                      => prod = "restored" /\ ~prodStop)
<1>1. Init => LateNeedsLost
  BY DEF Init, Reliable, LateNeedsLost
<1>2. TypeInv /\ LateNeedsLost /\ [Next]_vars => LateNeedsLost'
  <2> SUFFICES ASSUME TypeInv, LateNeedsLost, [Next]_vars
               PROVE  test' # "late"
    BY TypeStep DEF TypeInv, TypeOK, LateNeedsLost
  <2>1. CASE StopRemove
    BY <2>1 DEF StopRemove, LateNeedsLost
  <2>2. CASE ChildNext
    BY <2>2 DEF ChildNext, ChildBoots, ChildBootsUnlisted, ClientCreates,
       ClientStarts, ClientTimesOut, OrphanEnds, ChildRemoves, ChildRemoved,
       ChildExits, ChildDies, dockerVars, testVars, LateNeedsLost
  <2>3. CASE DaemonNext
    BY <2>3 DEF DaemonNext, DaemonStopsProduction, ProductionReady,
       DaemonStartsTest, DaemonCreatesLate, DaemonRemovesTest, TestServerEnds,
       testVars, LateNeedsLost
  <2> QED
    BY <2>1, <2>2, <2>3, TestChangedBy DEF LateNeedsLost
<1>3. LateNeedsLost /\ RestoredAtExit
        => (pc = "exited" /\ stoppedProduction
              => prod = "restored" /\ ~prodStop)
  BY DEF LateNeedsLost, RestoredAtExit
<1>4. Spec => []TypeInv
  BY TypeInit, TypeStep, PTL DEF Spec
<1> QED
  BY <1>1, <1>2, <1>3, <1>4, ProductionRestored, PTL DEF Spec
=============================================================================
