--------------------------- MODULE Qualification ---------------------------
(***************************************************************************)
(* One run of the qualification coordinator (scripts/r26/                  *)
(* run_qualification.py) over the runtime helpers (scripts/r26/runtime.py):*)
(* it pauses the production container, runs each phase script as a child   *)
(* process that boots and removes the one labelled test container, and     *)
(* restores the production container in its `finally`.                     *)
(*                                                                         *)
(* Four actors interleave: the coordinator's main thread (pc), its GPU     *)
(* isolation monitor thread, the phase child process with its docker       *)
(* client, and the Docker daemon, whose accepted operations outlive the    *)
(* client that asked.  A SIGINT or SIGTERM is taken at a point of the main *)
(* thread: Python runs the handler between two bytecodes, and it raises    *)
(* KeyboardInterrupt wherever that happens to be.                          *)
(***************************************************************************)
EXTENDS Naturals, FiniteSets

CONSTANTS
  PhaseCount,        \* number of entries of PHASES
  MaxSignals,        \* bound: signals delivered from outside the process
  SignalPoints,      \* points of the main thread at which signals are taken
  DockerMayFail,     \* a docker client may fail or time out, or the restarted
                     \* server may never become healthy
  InspectMayFail,    \* `docker inspect` of an existing container may fail
  OrphanClients,     \* a docker client may outlive the phase that started it
  MaxLost,           \* bound: creates of clients that are gone, at one time
  InitialTest        \* states of the container named rt.NAME at the start

ASSUME PhaseCountAssumption == PhaseCount \in Nat
ASSUME MaxSignalsAssumption == MaxSignals \in Nat
ASSUME MaxLostAssumption == MaxLost \in Nat
ASSUME SwitchesAssumption ==
  /\ DockerMayFail \in BOOLEAN
  /\ InspectMayFail \in BOOLEAN
  /\ OrphanClients \in BOOLEAN
ASSUME InitialTestAssumption ==
  InitialTest \subseteq {"absent", "stopped", "unowned"}

VARIABLES
  pc,                \* where the main thread is
  ctx,               \* who called rt.stop: a phase's end or restore_production
  i,                 \* phases attempted: len(completed)
  stoppedProduction, \* main's flag of that name
  raised,            \* the exception in flight, "none" if there is none
  runError,          \* what rt.run is handling while it kills the child
  captureError,      \* rt.stop's capture_error
  cleanupError,      \* restore_production's cleanup_error
  handler,           \* what each signal does: raise, or be deferred
  signals,           \* signals sent so far from outside
  monitor,           \* watch_gpu_isolation: off, on, done
  child,             \* the phase process and what it is doing
  orphans,           \* what `docker run` clients without a phase wait for
  prod,              \* production container, "restored" once started again
  prodStop,          \* a stop of it the daemon accepted and has not finished
  test,              \* container named rt.NAME
  testOps,           \* operations on it the daemon accepted, not finished
  found,             \* the container main's rt.stop inspected is still there
  lost,              \* creates the daemon accepted from clients that are gone
  receipts           \* receipt files this run has written

mainVars   == <<pc, ctx, i, stoppedProduction, raised, runError,
                captureError, cleanupError, handler>>
errorVars  == <<raised, runError, captureError, cleanupError>>
phaseVars  == <<child, orphans>>
testVars   == <<test, testOps, found, lost>>
dockerVars == <<prod, prodStop, testVars>>
vars == <<mainVars, signals, monitor, phaseVars, dockerVars, receipts>>

Signals == {"SIGINT", "SIGTERM"}

\* Points inside main's `try:` body that are not inside rt.run or rt.stop.
BodyPoints == {"drain", "preflight", "inspect", "pause", "stopCall",
               "stopWait", "contamination", "launch", "executed"}
RunPoints     == {"spawned", "phaseWait", "killing", "reaping"}
StopPoints    == {"stop.inspect", "stop.capture", "stop.remove", "stop.gone"}
FinallyPoints == {"except", "finally", "join", "restoreEnter",
                  "deferInt", "deferTerm", "exit"}
RestorePoints == {"rInspect", "rStop", "rStopWait", "rStart", "rHealth",
                  "rHandlers"}
Points == BodyPoints \cup RunPoints \cup StopPoints \cup FinallyPoints
            \cup RestorePoints \cup {"exited"}

\* The points at which one signal defeats the cleanup: the phase process exists
\* and nothing will kill it, or nothing will restore production.
CleanupGaps == {"spawned", "killing", "finally", "restoreEnter",
                "deferInt", "deferTerm"}

Errors      == {"none", "error", "interrupt"}

\* "booting": `docker run` has asked for the create; "created": the daemon has
\* answered it and the client is to ask for the start.
ChildStates == {"none", "idle", "booting", "created", "removing"}
OnGpu       == prod # "stopped"

ASSUME SignalPointsAssumption == SignalPoints \subseteq Points

TypeOK ==
  /\ pc \in Points
  /\ ctx \in {"phase", "restore"}
  /\ i \in 0 .. PhaseCount
  /\ stoppedProduction \in BOOLEAN
  /\ raised \in Errors
  /\ runError \in {"interrupt", "timeout"}
  /\ captureError \in Errors
  /\ cleanupError \in Errors
  /\ handler \in [Signals -> {"raise", "defer"}]
  /\ signals \in 0 .. MaxSignals
  /\ monitor \in {"off", "on", "done"}
  /\ child \in ChildStates
  /\ orphans \subseteq {"booting", "created"}
  /\ prod \in {"serving", "stopped", "starting", "restored"}
  /\ prodStop \in BOOLEAN
  /\ test \in {"absent", "stopped", "running", "late", "unowned"}
  /\ testOps \subseteq {"start", "remove"}
  /\ found \in BOOLEAN
  /\ lost \in 0 .. MaxLost
  /\ receipts \subseteq {"interrupted", "executed", "restored"}

Init ==
  /\ pc = "drain" /\ ctx = "phase" /\ i = 0 /\ stoppedProduction = FALSE
  /\ raised = "none" /\ runError = "interrupt"
  /\ captureError = "none" /\ cleanupError = "none"
  /\ handler = [s \in Signals |-> "raise"]
  /\ signals = 0 /\ monitor = "off" /\ child = "none" /\ orphans = {}
  /\ prod \in {"serving", "stopped"} /\ prodStop = FALSE
  /\ test \in InitialTest /\ testOps = {} /\ found = FALSE /\ lost = 0
  /\ receipts = {}

-----------------------------------------------------------------------------
(* Main thread: control helpers.                                           *)

Goto(p) == pc' = p
At(p)   == pc = p

\* An exception leaves the `try:` body for `except BaseException`.
RaiseFromBody(e) == Goto("except") /\ raised' = e

\* An exception leaves rt.stop: main's body sees it at a phase's end,
\* restore_production keeps it as its cleanup_error.
RaiseFromStop(e) ==
  \/ /\ ctx = "phase"
     /\ RaiseFromBody(e)
     /\ UNCHANGED cleanupError
  \/ /\ ctx = "restore"
     /\ Goto("rInspect")
     /\ cleanupError' = e
     /\ UNCHANGED raised

\* rt.stop returns to its caller.
ReturnFromStop == Goto(IF ctx = "phase" THEN "launch" ELSE "rInspect")

\* docker inspect NAME: returncode # 0 is read as "no such container".
InspectsAsAbsent == test = "absent" \/ InspectMayFail
InspectsAsPresent == test # "absent"

\* A client goes that waits for the answer to its create: the daemon gives the
\* create up, has never seen it, or carries it out later all the same.
ClientGone(state) ==
  lost' \in {lost} \cup {n \in {lost + 1} : state = "booting" /\ n <= MaxLost}

-----------------------------------------------------------------------------
(* Main thread: the try body.                                              *)

\* production_idle polls, then raises at the ten minute deadline.
Drain ==
  /\ At("drain")
  /\ \/ Goto("preflight") /\ UNCHANGED raised
     \/ RaiseFromBody("error")
  /\ UNCHANGED <<ctx, i, stoppedProduction, runError, captureError,
        cleanupError, handler, signals, monitor, phaseVars, dockerVars,
        receipts>>

\* gpu_recovery_health may refuse the run.
Preflight ==
  /\ At("preflight")
  /\ \/ Goto("inspect") /\ UNCHANGED raised
     \/ RaiseFromBody("error")
  /\ UNCHANGED <<ctx, i, stoppedProduction, runError, captureError,
        cleanupError, handler, signals, monitor, phaseVars, dockerVars,
        receipts>>

\* Mutant: a production container that is not running is paused as well.
Mutant_PauseWhateverState ==
  /\ At("inspect")
  /\ Goto("pause")
  /\ UNCHANGED <<ctx, i, stoppedProduction, errorVars, handler, signals,
        monitor, phaseVars, dockerVars, receipts>>

\* Only a running production container is paused.
InspectProduction ==
  /\ At("inspect")
  /\ \/ prod = "serving" /\ Goto("pause") /\ UNCHANGED raised
     \/ /\ prod # "serving" \/ DockerMayFail
        /\ RaiseFromBody("error")
  /\ UNCHANGED <<ctx, i, stoppedProduction, runError, captureError,
        cleanupError, handler, signals, monitor, phaseVars, dockerVars,
        receipts>>

\* The flag is set before the stop is asked for.
MarkStopped ==
  /\ At("pause")
  /\ stoppedProduction' = TRUE
  /\ Goto("stopCall")
  /\ UNCHANGED <<ctx, i, errorVars, handler, signals, monitor, phaseVars,
        dockerVars, receipts>>

AskStop ==
  /\ At("stopCall")
  /\ prodStop' = TRUE
  /\ Goto("stopWait")
  /\ UNCHANGED <<ctx, i, stoppedProduction, errorVars, handler, signals,
        monitor, phaseVars, prod, testVars, receipts>>

\* The client returns once the container has stopped, or fails or times out
\* while the daemon still works on the stop.
AwaitStop ==
  /\ At("stopWait")
  /\ \/ ~prodStop /\ Goto("contamination") /\ UNCHANGED raised
     \/ DockerMayFail /\ RaiseFromBody("error")
  /\ UNCHANGED <<ctx, i, stoppedProduction, runError, captureError,
        cleanupError, handler, signals, monitor, phaseVars, dockerVars,
        receipts>>

\* foreign_gpu_processes may refuse a contaminated start; otherwise the
\* monitor thread is started.
CheckContamination ==
  /\ At("contamination")
  /\ \/ RaiseFromBody("error") /\ UNCHANGED monitor
     \/ Goto("launch") /\ monitor' = "on" /\ UNCHANGED raised
  /\ UNCHANGED <<ctx, i, stoppedProduction, runError, captureError,
        cleanupError, handler, signals, phaseVars, dockerVars, receipts>>

\* Mutant: one phase too many.
Mutant_LaunchOneMore ==
  /\ At("launch") /\ i <= PhaseCount
  /\ child' = "idle"
  /\ Goto("spawned")
  /\ UNCHANGED <<ctx, i, stoppedProduction, errorVars, handler, signals,
        monitor, orphans, dockerVars, receipts>>

\* rt.run: Popen of the next phase script.
Launch ==
  /\ At("launch") /\ i < PhaseCount
  /\ child' = "idle"
  /\ Goto("spawned")
  /\ UNCHANGED <<ctx, i, stoppedProduction, errorVars, handler, signals,
        monitor, orphans, dockerVars, receipts>>

\* Popen has returned; child.wait(timeout) begins.
EnterWait ==
  /\ At("spawned")
  /\ Goto("phaseWait")
  /\ UNCHANGED <<ctx, i, stoppedProduction, errorVars, handler, signals,
        monitor, phaseVars, dockerVars, receipts>>

\* Mutant: no rt.stop between two phases.
Mutant_FinishWithoutStop ==
  /\ i' = i + 1
  /\ ctx' = "phase"
  /\ captureError' = "none"
  /\ Goto("launch")

\* rt.run returns: the phase is recorded and main calls rt.stop.
FinishPhase ==
  /\ i' = i + 1
  /\ ctx' = "phase"
  /\ captureError' = "none"
  /\ Goto("stop.inspect")

PhaseExits ==
  /\ At("phaseWait") /\ child = "none"
  /\ FinishPhase
  /\ UNCHANGED <<stoppedProduction, raised, runError, cleanupError, handler,
        signals, monitor, phaseVars, dockerVars, receipts>>

\* Mutant: the timeout is noted and the wait goes on.
Mutant_WaitAgain ==
  /\ At("phaseWait") /\ child # "none"
  /\ runError' = "timeout"
  /\ UNCHANGED <<pc, ctx, i, stoppedProduction, raised, captureError,
        cleanupError, handler, signals, monitor, phaseVars, dockerVars,
        receipts>>

\* child.wait raises TimeoutExpired: rt.run lists the phase's processes.
PhaseTimesOut ==
  /\ At("phaseWait") /\ child # "none"
  /\ runError' = "timeout"
  /\ Goto("killing")
  /\ UNCHANGED <<ctx, i, stoppedProduction, raised, captureError, cleanupError,
        handler, signals, monitor, phaseVars, dockerVars, receipts>>

\* The listed processes are terminated, a `docker run` among them.
KillPhase ==
  /\ At("killing")
  /\ child' = "none"
  /\ ClientGone(child)
  /\ Goto("reaping")
  /\ UNCHANGED <<ctx, i, stoppedProduction, errorVars, handler, signals,
        monitor, orphans, prod, prodStop, test, testOps, found, receipts>>

\* They are waited for, what is left is killed; an interrupt is raised again, a
\* timeout is return code 124.
ReapPhase ==
  /\ At("reaping")
  /\ \/ /\ runError = "interrupt"
        /\ RaiseFromBody("interrupt")
        /\ UNCHANGED <<i, ctx, captureError>>
     \/ /\ runError = "timeout"
        /\ FinishPhase
        /\ UNCHANGED raised
  /\ UNCHANGED <<stoppedProduction, runError, cleanupError, handler, signals,
        monitor, phaseVars, dockerVars, receipts>>

AllPhasesRun ==
  /\ At("launch") /\ i = PhaseCount
  /\ Goto("executed")
  /\ UNCHANGED <<ctx, i, stoppedProduction, errorVars, handler, signals,
        monitor, phaseVars, dockerVars, receipts>>

WriteExecuted ==
  /\ At("executed")
  /\ receipts' = receipts \cup {"executed"}
  /\ Goto("finally")
  /\ UNCHANGED <<ctx, i, stoppedProduction, errorVars, handler, signals,
        monitor, phaseVars, dockerVars>>

-----------------------------------------------------------------------------
(* Main thread: rt.stop.                                                   *)

\* Mutant: the label is not looked at.
Mutant_StopAnyContainer ==
  /\ At("stop.inspect")
  /\ \/ InspectsAsAbsent /\ ReturnFromStop /\ UNCHANGED found
     \/ InspectsAsPresent /\ Goto("stop.capture") /\ found' = TRUE
  /\ UNCHANGED <<ctx, i, stoppedProduction, errorVars, handler,
        signals, monitor, phaseVars, prod, prodStop, test, testOps, lost,
        receipts>>

StopInspect ==
  /\ At("stop.inspect")
  /\ \/ /\ InspectsAsAbsent
        /\ ReturnFromStop
        /\ UNCHANGED <<raised, cleanupError, found>>
     \/ /\ InspectsAsPresent /\ test # "unowned"
        /\ Goto("stop.capture")
        /\ found' = TRUE
        /\ UNCHANGED <<raised, cleanupError>>
     \/ /\ test = "unowned" \/ DockerMayFail
        /\ RaiseFromStop("error")
        /\ UNCHANGED found
  /\ UNCHANGED <<ctx, i, stoppedProduction, runError, captureError, handler,
        signals, monitor, phaseVars, prod, prodStop, test, testOps, lost,
        receipts>>

\* A failed diagnostic is kept in capture_error and the removal goes on.
StopCapture ==
  /\ At("stop.capture")
  /\ captureError' \in {"none", "error"}
  /\ Goto("stop.remove")
  /\ UNCHANGED <<ctx, i, stoppedProduction, raised, runError, cleanupError,
        handler, signals, monitor, phaseVars, dockerVars, receipts>>

\* docker rm -f of the inspected id, which is not that of a container created
\* since; a client that fails may not be accepted.
StopRemove ==
  /\ At("stop.remove")
  /\ \/ testOps' = IF found THEN testOps \cup {"remove"} ELSE testOps
     \/ DockerMayFail /\ UNCHANGED testOps
  /\ Goto("stop.gone")
  /\ UNCHANGED <<ctx, i, stoppedProduction, errorVars, handler, signals,
        monitor, phaseVars, prod, prodStop, test, found, lost, receipts>>

\* rm returns, or the poll sees the id gone.  capture_error is raised here
\* only when it is not an Exception: an interrupt.
StopGone ==
  /\ At("stop.gone")
  /\ \/ /\ ~found /\ captureError # "interrupt"
        /\ ReturnFromStop
        /\ UNCHANGED <<raised, cleanupError>>
     \/ /\ ~found /\ captureError = "interrupt"
        /\ RaiseFromStop("interrupt")
     \/ /\ DockerMayFail
        /\ RaiseFromStop("error")
  /\ UNCHANGED <<ctx, i, stoppedProduction, runError, captureError, handler,
        signals, monitor, phaseVars, dockerVars, receipts>>

-----------------------------------------------------------------------------
(* Main thread: except, finally, restore_production.                       *)

WriteInterrupted ==
  /\ At("except")
  /\ receipts' = receipts \cup {"interrupted"}
  /\ Goto("finally")
  /\ UNCHANGED <<ctx, i, stoppedProduction, errorVars, handler, signals,
        monitor, phaseVars, dockerVars>>

\* guard_stop.set().
SetGuardStop ==
  /\ At("finally")
  /\ Goto("join")
  /\ UNCHANGED <<ctx, i, stoppedProduction, errorVars, handler, signals,
        monitor, phaseVars, dockerVars, receipts>>

\* guard.join(timeout=45): the monitor has ended, or the join gave up and the
\* daemon thread is still there.
JoinMonitor ==
  /\ At("join")
  /\ Goto("restoreEnter")
  /\ monitor' \in {monitor, IF monitor = "on" THEN "done" ELSE monitor}
  /\ UNCHANGED <<ctx, i, stoppedProduction, errorVars, handler, signals,
        phaseVars, dockerVars, receipts>>

EnterRestore ==
  /\ At("restoreEnter")
  /\ Goto(IF stoppedProduction THEN "deferInt" ELSE "exit")
  /\ UNCHANGED <<ctx, i, stoppedProduction, errorVars, handler, signals,
        monitor, phaseVars, dockerVars, receipts>>

\* signal.signal(signum, defer_interrupt), SIGINT first.
DeferSigint ==
  /\ At("deferInt")
  /\ handler' = [handler EXCEPT !["SIGINT"] = "defer"]
  /\ Goto("deferTerm")
  /\ UNCHANGED <<ctx, i, stoppedProduction, errorVars, signals, monitor,
        phaseVars, dockerVars, receipts>>

\* Mutant: only SIGINT is deferred.
Mutant_SigtermNotDeferred ==
  /\ At("deferTerm")
  /\ ctx' = "restore"
  /\ captureError' = "none"
  /\ Goto("stop.inspect")
  /\ UNCHANGED <<i, stoppedProduction, raised, runError, cleanupError, handler,
        signals, monitor, phaseVars, dockerVars, receipts>>

\* Then SIGTERM, and restore_production calls rt.stop.
DeferSigterm ==
  /\ At("deferTerm")
  /\ handler' = [handler EXCEPT !["SIGTERM"] = "defer"]
  /\ ctx' = "restore"
  /\ captureError' = "none"
  /\ Goto("stop.inspect")
  /\ UNCHANGED <<i, stoppedProduction, raised, runError, cleanupError, signals,
        monitor, phaseVars, dockerVars, receipts>>

\* An exception leaves restore_production through its finally.
RaiseFromRestore(e) == Goto("rHandlers") /\ raised' = e

\* Mutant: production is started over a test container that is still there.
Mutant_RestoreOverTest ==
  /\ At("rInspect")
  /\ Goto("rStop")
  /\ UNCHANGED <<ctx, i, stoppedProduction, errorVars, handler, signals,
        monitor, phaseVars, dockerVars, receipts>>

\* A test container that is still there blocks the restore.
RestoreInspect ==
  /\ At("rInspect")
  /\ \/ InspectsAsAbsent /\ Goto("rStop") /\ UNCHANGED raised
     \/ /\ InspectsAsPresent \/ DockerMayFail
        /\ RaiseFromRestore("error")
  /\ UNCHANGED <<ctx, i, stoppedProduction, runError, captureError,
        cleanupError, handler, signals, monitor, phaseVars, dockerVars,
        receipts>>

\* docker stop of the captured id: joins a stop that is still in progress.
RestoreStop ==
  /\ At("rStop")
  /\ prodStop' = OnGpu
  /\ Goto("rStopWait")
  /\ UNCHANGED <<ctx, i, stoppedProduction, errorVars, handler, signals,
        monitor, phaseVars, prod, testVars, receipts>>

\* Mutant: the stop that is still in progress is not joined.
Mutant_StartWithoutJoin ==
  /\ At("rStopWait")
  /\ Goto("rStart")
  /\ UNCHANGED <<ctx, i, stoppedProduction, errorVars, handler, signals,
        monitor, phaseVars, dockerVars, receipts>>


RestoreStopWait ==
  /\ At("rStopWait")
  /\ \/ ~prodStop /\ Goto("rStart") /\ UNCHANGED raised
     \/ DockerMayFail /\ RaiseFromRestore("error")
  /\ UNCHANGED <<ctx, i, stoppedProduction, runError, captureError,
        cleanupError, handler, signals, monitor, phaseVars, dockerVars,
        receipts>>

\* docker start: nothing to do for a container that is still up.
RestoreStart ==
  /\ At("rStart")
  /\ \/ /\ prod' = IF OnGpu THEN prod ELSE "starting"
        /\ Goto("rHealth")
        /\ UNCHANGED raised
     \/ /\ DockerMayFail
        /\ prod' \in {prod, IF OnGpu THEN prod ELSE "starting"}
        /\ RaiseFromRestore("error")
  /\ UNCHANGED <<ctx, i, stoppedProduction, runError, captureError,
        cleanupError, handler, signals, monitor, phaseVars, prodStop, testVars,
        receipts>>

\* /health and /v1/models answer: the receipt is written, then a cleanup_error
\* is raised; or the fifteen minutes are over.
RestoreHealth ==
  /\ At("rHealth")
  /\ \/ /\ prod \in {"serving", "restored"}
        /\ receipts' = receipts \cup {"restored"}
        /\ raised' = IF cleanupError # "none" THEN cleanupError ELSE raised
     \/ /\ DockerMayFail
        /\ raised' = "error"
        /\ UNCHANGED receipts
  /\ Goto("rHandlers")
  /\ UNCHANGED <<ctx, i, stoppedProduction, runError, captureError,
        cleanupError, handler, signals, monitor, phaseVars, dockerVars>>

\* The previous handlers are put back.
RestoreHandlers ==
  /\ At("rHandlers")
  /\ handler' = [s \in Signals |-> "raise"]
  /\ Goto("exit")
  /\ UNCHANGED <<ctx, i, stoppedProduction, errorVars, signals, monitor,
        phaseVars, dockerVars, receipts>>

\* The process ends and takes the daemon thread with it.
Exit ==
  /\ At("exit")
  /\ Goto("exited")
  /\ monitor' = IF monitor = "on" THEN "done" ELSE monitor
  /\ UNCHANGED <<ctx, i, stoppedProduction, errorVars, handler, signals,
        phaseVars, dockerVars, receipts>>

Body == \/ Drain \/ Preflight \/ InspectProduction \/ MarkStopped \/ AskStop
        \/ AwaitStop \/ CheckContamination \/ Launch \/ EnterWait
        \/ PhaseExits \/ PhaseTimesOut \/ KillPhase \/ ReapPhase
        \/ AllPhasesRun \/ WriteExecuted
Stop == StopInspect \/ StopCapture \/ StopRemove \/ StopGone
Finally == \/ WriteInterrupted \/ SetGuardStop \/ JoinMonitor \/ EnterRestore
           \/ DeferSigint \/ DeferSigterm \/ RestoreInspect \/ RestoreStop
           \/ RestoreStopWait \/ RestoreStart \/ RestoreHealth
           \/ RestoreHandlers \/ Exit
MainNext == Body \/ Stop \/ Finally

-----------------------------------------------------------------------------
(* Signals.                                                                *)

\* KeyboardInterrupt raised by `interrupt` at the main thread's point: inside
\* the body, inside child.wait, inside rt.stop, or inside the finally block.
Interrupted ==
  \/ /\ pc \in BodyPoints \cup {"spawned", "killing", "reaping"}
     /\ RaiseFromBody("interrupt")
     /\ UNCHANGED <<runError, captureError, cleanupError>>
  \/ /\ pc = "phaseWait"
     /\ runError' = "interrupt"
     /\ Goto("killing")
     /\ UNCHANGED <<raised, captureError, cleanupError>>
  \/ /\ pc = "stop.capture"
     /\ captureError' = "interrupt"
     /\ Goto("stop.remove")
     /\ UNCHANGED <<raised, runError, cleanupError>>
  \/ /\ pc \in StopPoints \ {"stop.capture"}
     /\ RaiseFromStop("interrupt")
     /\ UNCHANGED <<runError, captureError>>
  \/ /\ pc \in FinallyPoints \cup {"rHandlers"}
     /\ raised' = "interrupt"
     /\ Goto(CASE pc = "except" -> "finally"
               [] pc = "join"   -> "restoreEnter"
               [] OTHER         -> "exited")
     /\ UNCHANGED <<runError, captureError, cleanupError>>
  \/ /\ pc \in RestorePoints \ {"rHandlers"}
     /\ RaiseFromRestore("interrupt")
     /\ UNCHANGED <<runError, captureError, cleanupError>>

\* A signal arrives: deferred, or raised at this point.
Deliver(s) ==
  /\ pc \in SignalPoints \ {"exited"}
  /\ \/ handler[s] = "defer" /\ UNCHANGED mainVars
     \/ /\ handler[s] = "raise"
        /\ Interrupted
        /\ UNCHANGED <<ctx, i, stoppedProduction, handler>>
  /\ UNCHANGED <<phaseVars, dockerVars, receipts>>

Signal ==
  /\ signals < MaxSignals
  /\ signals' = signals + 1
  /\ \E s \in Signals : Deliver(s)
  /\ UNCHANGED monitor

\* The monitor lost isolation, or could not check it: os.kill(getpid, SIGINT),
\* once, and the thread returns.
MonitorInterrupts ==
  /\ monitor = "on"
  /\ monitor' = "done"
  /\ Deliver("SIGINT")
  /\ UNCHANGED signals

-----------------------------------------------------------------------------
(* The phase child and its docker client.                                  *)

\* rt.boot after its own rt.stop found nothing left: `docker run -d` starts.
ChildBoots ==
  /\ child = "idle" /\ test = "absent"
  /\ pc # "killing"
  /\ child' = "booting"
  /\ UNCHANGED <<mainVars, signals, monitor, orphans, dockerVars, receipts>>

\* The same after rt.run has listed the processes it will kill: the client is
\* not on the list and survives the kill.
ChildBootsUnlisted ==
  /\ OrphanClients
  /\ child = "idle" /\ test = "absent"
  /\ pc = "killing"
  /\ orphans' = orphans \cup {"booting"}
  /\ UNCHANGED <<mainVars, signals, monitor, child, dockerVars, receipts>>

\* The daemon creates the container of a client that is there, and answers.
ClientCreates ==
  /\ test = "absent"
  /\ test' = "stopped"
  /\ \/ child = "booting" /\ child' = "created" /\ UNCHANGED orphans
     \/ /\ "booting" \in orphans
        /\ orphans' = {"created"} \cup (orphans \ {"booting"})
        /\ UNCHANGED child
  /\ UNCHANGED <<mainVars, signals, monitor, prod, prodStop, testOps, found,
        lost, receipts>>

\* The client asks for the start of the container it was told of.
ClientStarts ==
  /\ test = "stopped" /\ "remove" \notin testOps
  /\ \/ child = "created" /\ child' = "idle" /\ UNCHANGED orphans
     \/ /\ "created" \in orphans
        /\ orphans' = orphans \ {"created"}
        /\ UNCHANGED child
  /\ testOps' = testOps \cup {"start"}
  /\ UNCHANGED <<mainVars, signals, monitor, prod, prodStop, test, found, lost,
        receipts>>

\* The name is taken, the client fails, or rt.run's own timeout stops it; the
\* boot counts as unhealthy.
ClientTimesOut ==
  /\ child \in {"booting", "created"}
  /\ child' = "idle"
  /\ ClientGone(child)
  /\ UNCHANGED <<mainVars, signals, monitor, orphans, prod, prodStop, test,
        testOps, found, receipts>>

\* A client without its phase ends in the same way.
OrphanEnds ==
  /\ \E state \in orphans :
       /\ orphans' = orphans \ {state}
       /\ ClientGone(state)
  /\ UNCHANGED <<mainVars, signals, monitor, child, prod, prodStop, test,
        testOps, found, receipts>>

\* The phase's rt.stop.
ChildRemoves ==
  /\ child = "idle" /\ test \in {"stopped", "running", "late"}
  /\ child' = "removing"
  /\ testOps' = testOps \cup {"remove"}
  /\ UNCHANGED <<mainVars, signals, monitor, orphans, prod, prodStop, test,
        found, lost, receipts>>

\* The removal it asked for is done.
ChildRemoved ==
  /\ child = "removing" /\ "remove" \notin testOps
  /\ child' = "idle"
  /\ UNCHANGED <<mainVars, signals, monitor, orphans, dockerVars, receipts>>

\* The phase ends, well or badly, with or without its container removed.
ChildExits ==
  /\ child \in {"idle", "removing"}
  /\ child' = "none"
  /\ UNCHANGED <<mainVars, signals, monitor, orphans, dockerVars, receipts>>

\* The phase is killed from outside; its client runs in a session of its own.
ChildDies ==
  /\ OrphanClients
  /\ child \in {"booting", "created"}
  /\ child' = "none"
  /\ orphans' = orphans \cup {child}
  /\ UNCHANGED <<mainVars, signals, monitor, dockerVars, receipts>>

ChildNext == \/ ChildBoots \/ ChildBootsUnlisted \/ ClientCreates
             \/ ClientStarts \/ ClientTimesOut \/ ChildRemoves
             \/ ChildRemoved \/ ChildExits \/ ChildDies \/ OrphanEnds

-----------------------------------------------------------------------------
(* The Docker daemon.                                                      *)

DaemonStopsProduction ==
  /\ prodStop
  /\ prodStop' = FALSE
  /\ prod' = "stopped"
  /\ UNCHANGED <<mainVars, signals, monitor, phaseVars, testVars, receipts>>

ProductionReady ==
  /\ prod = "starting"
  /\ prod' = "restored"
  /\ UNCHANGED <<mainVars, signals, monitor, phaseVars, prodStop, testVars,
        receipts>>

DaemonStartsTest ==
  /\ "start" \in testOps /\ test = "stopped"
  /\ test' = "running"
  /\ testOps' = testOps \ {"start"}
  /\ UNCHANGED <<mainVars, signals, monitor, phaseVars, prod, prodStop, found,
        lost, receipts>>

\* A create whose client is gone is carried out: the container is there, and
\* nobody will start it.  If the name is taken, nothing comes of it.
DaemonCreatesLate ==
  /\ lost > 0
  /\ lost' = lost - 1
  /\ test' = IF test = "absent" THEN "late" ELSE test
  /\ UNCHANGED <<mainVars, signals, monitor, phaseVars, prod, prodStop,
        testOps, found, receipts>>

\* The container is gone; a start that waited for it fails, and so does the
\* client that was going to ask for one.
DaemonRemovesTest ==
  /\ "remove" \in testOps
  /\ test' = "absent"
  /\ testOps' = {}
  /\ found' = FALSE
  /\ child' = IF child = "created" THEN "idle" ELSE child
  /\ orphans' = orphans \ {"created"}
  /\ UNCHANGED <<mainVars, signals, monitor, prod, prodStop, lost, receipts>>

\* The test server ends on its own; the container stays.
TestServerEnds ==
  /\ test = "running"
  /\ test' = "stopped"
  /\ UNCHANGED <<mainVars, signals, monitor, phaseVars, prod, prodStop,
        testOps, found, lost, receipts>>

DaemonNext == \/ DaemonStopsProduction \/ ProductionReady \/ DaemonStartsTest
              \/ DaemonCreatesLate \/ DaemonRemovesTest \/ TestServerEnds

-----------------------------------------------------------------------------

\* Nothing is left to do: not a deadlock.
Terminated ==
  /\ pc = "exited" /\ child = "none" /\ orphans = {} /\ ~prodStop
  /\ testOps = {} /\ lost = 0
  /\ UNCHANGED vars

Next == \/ MainNext \/ Signal \/ MonitorInterrupts \/ ChildNext \/ DaemonNext
        \/ Terminated

Spec == Init /\ [][Next]_vars

\* The main thread runs, and the daemon and the restarted server get on with
\* what they accepted.  Nothing is asked of the phases, of the monitor or of
\* whoever sends signals.
Fairness ==
  /\ WF_vars(MainNext)
  /\ WF_vars(DaemonStopsProduction)
  /\ WF_vars(ProductionReady)
  /\ WF_vars(DaemonRemovesTest)

FairSpec == Spec /\ Fairness

-----------------------------------------------------------------------------
(* What the coordinator guarantees.                                        *)

\* The production server and a test server never hold the GPUs together
\* (runtime.py's "refusing overlapping production restore"), however late the
\* daemon gets to what it accepted and at whichever of SignalPoints a signal
\* arrives.
NoOverlap == ~(OnGpu /\ test = "running")

\* A production-restored receipt is only there when production really came back
\* for good: up, no stop of it under way, no phase and no test server left.
\* Every later battery starts from this receipt.
RestoreReceiptHonest ==
  "restored" \in receipts =>
    prod = "restored" /\ ~prodStop /\ child = "none" /\ test # "running"

\* "No phase may leave one GPU runtime overlapping the next phase's boot": when
\* a later phase starts, no client of the phase before it is left, the daemon
\* owes no start and no removal, and the container is gone.  Only a create whose
\* client was killed may come after rt.stop has looked: what it leaves is a
\* container nobody starts, which the next rt.boot removes.
CleanSlatePerPhase ==
  [][ (child = "none" /\ child' # "none") =>
        /\ orphans = {} /\ testOps = {}
        /\ i > 0 => test \in {"absent", "late"} ]_vars

\* A container of that name without the battery's label is never touched,
\* by the coordinator or by a phase.
UnownedUntouched ==
  [][ test = "unowned" => (test' = "unowned" /\ testOps' = {}) ]_vars

\* However the run ended, production is up again if the run stopped it, with
\* one exception: a create whose client was killed, carried out after rt.stop
\* has looked and before restore_production does, makes it refuse the restore.
RestoredAtExit ==
  pc = "exited" /\ stoppedProduction =>
    \/ prod = "restored" /\ ~prodStop
    \/ test = "late"

\* The coordinator ends, however long a phase would have gone on.
CoordinatorExits == <>(pc = "exited")

Holder == IF OnGpu THEN "production"
          ELSE IF test = "running" THEN "test" ELSE "nobody"
Lease  == IF ~stoppedProduction THEN "closed"
          ELSE IF prod \in {"starting", "restored"} THEN "returned" ELSE "open"

GpuLease == INSTANCE GpuLease WITH holder <- Holder, lease <- Lease

\* The run implements the GPU lease: it lends only what production held, no
\* hand-over is direct, and nothing runs on the GPUs after the return.
LeaseHonoured == GpuLease!LeaseSpec
=============================================================================
