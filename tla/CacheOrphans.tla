---------------------------- MODULE CacheOrphans ----------------------------
(***************************************************************************)
(* The cache phase of R27 (r27_cache_phase.py, cache_phase.py) and the     *)
(* directories of the second cache tier it owns.                           *)
(*                                                                         *)
(* Every lifecycle case boots a server on a directory of its own, measures *)
(* on it, removes the server and then the directory.  A phase that dies    *)
(* leaves directories behind.  The next start deletes only those that the  *)
(* receipts of the evidence root prove to be the phase's own, refuses to   *)
(* touch anything when receipts disagree, never repeats a deletion that    *)
(* was begun, and lets no case start before all of them are gone.          *)
(***************************************************************************)
EXTENDS Naturals, FiniteSets

CONSTANTS
  Lifecycles,  \* the lifecycle cases are 1 .. Lifecycles
  Natives,     \* the native boots follow, without a directory
  Stages,      \* the configuration snapshots of a lifecycle: 1 .. Stages
  MaxRuns,     \* bound: starts of the phase
  MaxFaults    \* bound: kills, interrupts and failures together

Cases  == 1 .. Lifecycles + Natives
Tiered == 1 .. Lifecycles
Runs   == 1 .. MaxRuns
Dirs   == Tiered \X Runs   \* cache-phase-<run>-<case>
None   == <<0, 0>>

ASSUME CasesAssumption == Lifecycles \in Nat /\ Natives \in Nat /\ Stages \in Nat
ASSUME BoundsAssumption == MaxRuns \in Nat /\ MaxFaults \in Nat

Results == [run : 0 .. MaxRuns, safe : BOOLEAN]
Probed  == [run : 0 .. MaxRuns, ok : BOOLEAN]
Points  == {"idle", "teardownFirst", "clean", "emptying", "case", "mkdir", "launch",
            "dockerRun", "bootReceipt", "stages", "stageReceipt", "persist",
            "teardown", "remove", "removing", "receipt", "save", "count"}

VARIABLES
  dirs,      \* disk: the tier directories that exist
  foreign,   \* of these, the ones somebody else made after a removal
  tried,     \* disk: directories with a cleanup command's log
  removed,   \* disk: directories whose cleanup receipt says removed
  launch,    \* disk: the run of each case's launch.json
  bootRec,   \* disk: the run of each case's boot.command.json
  conf,      \* disk: the run of each configuration snapshot
  confRec,   \* disk: run and success of the snapshot's command receipt
  results,   \* disk: each case's result.json: its run, isolation safe
  summary,   \* disk: the run of the case's row in the summary
  server,    \* the case and the run whose container exists, or None
  served,    \* every directory a container ever mounted
  pc, run,   \* where the phase is, and which start it is
  plan,      \* the orphans still to be deleted
  target,    \* the directory a cleanup container empties, or None
  case, stage, safe, interrupted,  \* the case under way
  faults, trouble, refused         \* history: faults used, receipts cut
                                   \* short, refusals to recover

receipts   == <<launch, bootRec, conf, confRec>>
rows       == <<results, summary>>
phaseVars  == <<run, plan, target, case, stage, safe, interrupted>>
history    == <<faults, trouble, refused>>
vars == <<dirs, foreign, tried, removed, receipts, rows, server, served, pc,
          phaseVars, history>>

Dir == <<case, run>>
Missing == {c \in Cases : summary[c] = 0}
First(S) == CHOOSE x \in S : \A y \in S : x <= y

TypeOK ==
  /\ dirs \subseteq Dirs /\ foreign \subseteq dirs /\ tried \subseteq Dirs
  /\ removed \subseteq Dirs /\ served \subseteq Dirs
  /\ launch \in [Tiered -> 0 .. MaxRuns] /\ bootRec \in [Tiered -> 0 .. MaxRuns]
  /\ conf \in [Tiered \X (1 .. Stages) -> 0 .. MaxRuns]
  /\ confRec \in [Tiered \X (1 .. Stages) -> Probed]
  /\ results \in [Cases -> Results] /\ summary \in [Cases -> 0 .. MaxRuns]
  /\ server \in (Cases \X Runs) \cup {None} /\ pc \in Points /\ run \in 0 .. MaxRuns
  /\ plan \subseteq Dirs /\ target \in Dirs \cup {None} /\ case \in Cases \cup {0} /\ stage \in 0 .. Stages + 1
  /\ safe \in BOOLEAN /\ interrupted \in BOOLEAN
  /\ faults \in 0 .. MaxFaults /\ trouble \in BOOLEAN /\ refused \in BOOLEAN

Init ==
  /\ dirs = {} /\ foreign = {} /\ tried = {} /\ removed = {} /\ served = {}
  /\ launch = [c \in Tiered |-> 0] /\ bootRec = [c \in Tiered |-> 0]
  /\ conf = [k \in Tiered \X (1 .. Stages) |-> 0]
  /\ confRec = [k \in Tiered \X (1 .. Stages) |-> [run |-> 0, ok |-> FALSE]]
  /\ results = [c \in Cases |-> [run |-> 0, safe |-> FALSE]]
  /\ summary = [c \in Cases |-> 0] /\ server = None
  /\ pc = "idle" /\ run = 0 /\ plan = {} /\ target = None /\ case = 0
  /\ stage = 0 /\ safe = FALSE /\ interrupted = FALSE
  /\ faults = 0 /\ trouble = FALSE /\ refused = FALSE

Fault == faults < MaxFaults /\ faults' = faults + 1

\* Every way out of the phase; what was in memory is gone.
Leave ==
  /\ pc' = "idle" /\ plan' = {} /\ target' = None /\ case' = 0 /\ stage' = 0
  /\ safe' = FALSE /\ interrupted' = FALSE /\ UNCHANGED run

-----------------------------------------------------------------------------
(* What the receipts of the root prove.                                    *)

LaunchAgrees(c) == bootRec[c] = launch[c]
ConfAgrees(k)   == confRec[k].ok /\ confRec[k].run = conf[k]

\* (mutant) snapshots of an earlier run than the launch are a conflict
Mutant_ReceiptsOfOneRun ==
  /\ \A c \in Tiered : launch[c] # 0 => LaunchAgrees(c)
  /\ \A k \in DOMAIN conf : conf[k] # 0 => ConfAgrees(k) /\ conf[k] = launch[k[1]]

\* (mutant) an unfinished pair of receipts is passed over
Mutant_ReceiptsSkipped == TRUE

\* A pair of receipts that does not agree is a conflict; one without a first
\* half is not looked at.
ReceiptsAgree ==
  /\ \A c \in Tiered : launch[c] # 0 => LaunchAgrees(c)
  /\ \A k \in DOMAIN conf : conf[k] # 0 => ConfAgrees(k)

Proven ==
  {<<c, launch[c]>> : c \in {c \in Tiered : launch[c] # 0 /\ LaunchAgrees(c)}}
  \cup {<<k[1], conf[k]>> : k \in {k \in DOMAIN conf : conf[k] # 0 /\ ConfAgrees(k)}}

\* A directory that was removed before and is there again is nobody's own.
Candidates == (Proven \cap dirs) \ removed
SafeToExecute == ReceiptsAgree /\ Proven \cap dirs \cap removed = {}

-----------------------------------------------------------------------------
(* The start of the phase and the deletion of what an earlier one left.    *)

Start ==
  /\ pc = "idle" /\ Missing # {} /\ SafeToExecute /\ run < MaxRuns
  /\ run' = run + 1 /\ plan' = Candidates /\ pc' = "teardownFirst"
  /\ UNCHANGED <<dirs, foreign, tried, removed, receipts, rows, server, served,
                 target, case, stage, safe, interrupted, history>>

Refuse ==
  /\ pc = "idle" /\ Missing # {} /\ ~SafeToExecute /\ refused' = TRUE
  /\ UNCHANGED <<dirs, foreign, tried, removed, receipts, rows, server, served, pc,
                 phaseVars, faults, trouble>>

\* runtime.stop removes the container, or raises with it gone or not.
TeardownFirst ==
  /\ pc = "teardownFirst" /\ server' = None /\ pc' = "clean"
  /\ UNCHANGED <<dirs, foreign, tried, removed, receipts, rows, served, phaseVars,
                 history>>

TeardownFirstFails ==
  /\ pc = "teardownFirst" /\ Fault /\ server' \in {server, None} /\ Leave
  /\ UNCHANGED <<dirs, foreign, tried, removed, receipts, rows, served, trouble,
                 refused>>

\* (mutant) a deletion that was begun is begun again
Mutant_BegunBefore == {}

\* A log of its cleanup command says a deletion was begun before.
BegunBefore == tried

\* One directory after the other, each by a container that empties it.
CleanNext ==
  /\ pc = "clean"
  /\ \E d \in plan \ BegunBefore : target' = d /\ tried' = tried \cup {d}
  /\ pc' = "emptying"
  /\ UNCHANGED <<dirs, foreign, removed, receipts, rows, server, served, run, plan,
                 case, stage, safe, interrupted, history>>

CleanRefused ==
  /\ pc = "clean" /\ plan \cap BegunBefore # {} /\ refused' = TRUE /\ Leave
  /\ UNCHANGED <<dirs, foreign, tried, removed, receipts, rows, server, served,
                 faults, trouble>>

CleanEnds ==
  /\ pc = "emptying" /\ dirs' = dirs \ {target} /\ foreign' = foreign \ {target}
  /\ plan' = plan \ {target} /\ target' = None /\ pc' = "clean"
  /\ UNCHANGED <<tried, removed, receipts, rows, server, served, run, case, stage,
                 safe, interrupted, history>>

CleanFails ==
  /\ pc = "emptying" /\ Fault /\ trouble' = TRUE /\ Leave
  /\ UNCHANGED <<dirs, foreign, tried, removed, receipts, rows, server, served,
                 refused>>

\* With --cleanup-proven-orphans the phase ends here.
CleanOnly ==
  /\ pc = "clean" /\ plan = {} /\ Fault /\ Leave
  /\ UNCHANGED <<dirs, foreign, tried, removed, receipts, rows, server, served,
                 trouble, refused>>

CleanDone ==
  /\ pc = "clean" /\ plan = {} /\ pc' = "case"
  /\ UNCHANGED <<dirs, foreign, tried, removed, receipts, rows, server, served,
                 phaseVars, history>>

-----------------------------------------------------------------------------
(* A case: its boot and its measurements.                                  *)

\* (mutant) the stages are not begun anew
Mutant_BeginCase ==
  /\ pc = "case" /\ Missing # {}
  /\ case' = First(Missing) /\ stage' = stage + 1 /\ pc' = "mkdir"
  /\ UNCHANGED <<dirs, foreign, tried, removed, receipts, rows, server, served, run,
                 plan, target, safe, interrupted, history>>

BeginCase ==
  /\ pc = "case" /\ Missing # {}
  /\ case' = First(Missing) /\ stage' = IF case' \in Tiered THEN 1 ELSE Stages + 1
  /\ pc' = "mkdir"
  /\ UNCHANGED <<dirs, foreign, tried, removed, receipts, rows, server, served, run,
                 plan, target, safe, interrupted, history>>

CasesDone ==
  /\ pc = "case" /\ Missing = {} /\ Leave
  /\ UNCHANGED <<dirs, foreign, tried, removed, receipts, rows, server, served,
                 history>>

\* (mutant) the exception leaves the case
Mutant_BootRaises ==
  /\ pc = "mkdir" /\ Leave
  /\ UNCHANGED <<dirs, foreign, tried, removed, receipts, rows, server, served,
                 history>>

\* The scope check, the removal of an older container or the port probe raises.
BootRaises ==
  /\ pc = "mkdir" /\ pc' = "persist"
  /\ UNCHANGED <<dirs, foreign, tried, removed, receipts, rows, server, served,
                 phaseVars, history>>

MakeDir ==
  /\ pc = "mkdir" /\ pc' = "launch"
  /\ dirs' = IF case \in Tiered THEN dirs \cup {Dir} ELSE dirs
  /\ UNCHANGED <<foreign, tried, removed, receipts, rows, server, served, phaseVars,
                 history>>

SaveLaunch ==
  /\ pc = "launch" /\ pc' = "dockerRun"
  /\ launch' = [c \in Tiered |-> IF c = case THEN run ELSE launch[c]]
  /\ UNCHANGED <<dirs, foreign, tried, removed, bootRec, conf, confRec, rows, server,
                 served, phaseVars, history>>

\* The answer is in: the server runs, or the command failed.  (A container that
\* is created after its client timed out is not started, and left out.)
DockerRun ==
  /\ pc = "dockerRun" /\ pc' = "bootReceipt"
  /\ \/ server' = Dir /\ served' = served \cup ({Dir} \cap Dirs)
     \/ UNCHANGED <<server, served>>
  /\ UNCHANGED <<dirs, foreign, tried, removed, receipts, rows, phaseVars, history>>

\* The command's receipt follows the command, whatever its exit code.
SaveBootReceipt ==
  /\ pc = "bootReceipt"
  /\ bootRec' = [c \in Tiered |-> IF c = case THEN run ELSE bootRec[c]]
  /\ \/ server = Dir /\ pc' = "stages"
     \/ pc' = "persist"
  /\ UNCHANGED <<dirs, foreign, tried, removed, launch, conf, confRec, rows, server,
                 served, phaseVars, history>>

\* The probe writes its snapshot, all checks passed or not, or dies before.
ProbeStage ==
  /\ pc = "stages" /\ stage <= Stages /\ pc' = "stageReceipt"
  /\ conf' \in {conf, [conf EXCEPT ![<<case, stage>>] = run]}
  /\ UNCHANGED <<dirs, foreign, tried, removed, launch, bootRec, confRec, rows, server,
                 served, phaseVars, history>>

SaveStageReceipt(ok) ==
  /\ pc = "stageReceipt" /\ (ok => conf[<<case, stage>>] = run)
  /\ confRec' = [confRec EXCEPT ![<<case, stage>>] = [run |-> run, ok |-> ok]]
  /\ stage' = stage + 1 /\ pc' = "stages" /\ trouble' = (trouble \/ ~ok)
  /\ UNCHANGED <<dirs, foreign, tried, removed, launch, bootRec, conf, rows, server,
                 served, run, plan, target, case, safe, interrupted, faults, refused>>

\* The requests are answered, or an exception ends the case early.
MeasurementEnds ==
  /\ pc = "stages" /\ pc' = "persist"
  /\ UNCHANGED <<dirs, foreign, tried, removed, receipts, rows, server, served,
                 phaseVars, history>>

-----------------------------------------------------------------------------
(* persist_terminal_row, and the row of the summary.                       *)

SaveMeasured ==
  /\ pc = "persist" /\ pc' = "teardown"
  /\ results' = [results EXCEPT ![case] = [run |-> run, safe |-> FALSE]]
  /\ UNCHANGED <<dirs, foreign, tried, removed, receipts, summary, server, served,
                 phaseVars, history>>

Teardown ==
  /\ pc = "teardown" /\ server' = None
  /\ IF case \in Tiered THEN pc' = "remove" /\ UNCHANGED safe
                        ELSE pc' = "save" /\ safe' = TRUE
  /\ UNCHANGED <<dirs, foreign, tried, removed, receipts, rows, served, run, plan,
                 target, case, stage, interrupted, history>>

\* (mutant) the directory goes although the server may still be there
Mutant_TeardownFails ==
  /\ pc = "teardown" /\ Fault /\ server' \in {server, None}
  /\ pc' = IF case \in Tiered THEN "remove" ELSE "save"
  /\ UNCHANGED <<dirs, foreign, tried, removed, receipts, rows, served, phaseVars,
                 trouble, refused>>

\* The directory is kept when the server may still be there.
TeardownFails ==
  /\ pc = "teardown" /\ Fault /\ server' \in {server, None} /\ pc' = "save"
  /\ UNCHANGED <<dirs, foreign, tried, removed, receipts, rows, served, phaseVars,
                 trouble, refused>>

Remove ==
  /\ pc = "remove"
  /\ IF Dir \in dirs
       THEN /\ target' = Dir /\ tried' = tried \cup {Dir} /\ pc' = "removing"
       ELSE pc' = "receipt" /\ UNCHANGED <<target, tried>>
  /\ UNCHANGED <<dirs, foreign, removed, receipts, rows, server, served, run, plan,
                 case, stage, safe, interrupted, history>>

RemoveEnds ==
  /\ pc = "removing" /\ dirs' = dirs \ {target} /\ foreign' = foreign \ {target}
  /\ target' = None /\ pc' = "receipt"
  /\ UNCHANGED <<tried, removed, receipts, rows, server, served, run, plan, case, stage,
                 safe, interrupted, history>>

RemoveFails ==
  /\ pc = "removing" /\ Fault /\ trouble' = TRUE
  /\ target' = None /\ pc' = "save"
  /\ UNCHANGED <<dirs, foreign, tried, removed, receipts, rows, server, served, run,
                 plan, case, stage, safe, interrupted, refused>>

SaveRemoved ==
  /\ pc = "receipt" /\ removed' = removed \cup {Dir} /\ safe' = TRUE /\ pc' = "save"
  /\ UNCHANGED <<dirs, foreign, tried, receipts, rows, server, served, run, plan,
                 target, case, stage, interrupted, history>>

\* The second save of the row; an interrupt goes on its way after it.
SaveRow ==
  /\ pc = "save" /\ results' = [results EXCEPT ![case].safe = safe]
  /\ IF interrupted THEN Leave ELSE pc' = "count" /\ UNCHANGED phaseVars
  /\ UNCHANGED <<dirs, foreign, tried, removed, receipts, summary, server, served,
                 history>>

\* (mutant) an unsafe case does not end the phase
Mutant_Count ==
  /\ pc = "count" /\ summary' = [summary EXCEPT ![case] = run] /\ pc' = "case"
  /\ UNCHANGED <<dirs, foreign, tried, removed, receipts, results, server, served, run,
                 plan, target, case, stage, safe, interrupted, history>>

\* No case follows one whose container or directory may still be there.
Count ==
  /\ pc = "count" /\ summary' = [summary EXCEPT ![case] = run]
  /\ IF safe THEN pc' = "case" /\ safe' = FALSE
                  /\ UNCHANGED <<run, plan, target, case, stage, interrupted>>
             ELSE Leave
  /\ UNCHANGED <<dirs, foreign, tried, removed, receipts, results, server, served,
                 history>>

-----------------------------------------------------------------------------
(* What happens to the phase.                                              *)

\* Between a command or a receipt and the receipt that vouches for it.
HalfWritten == {"dockerRun", "bootReceipt", "stageReceipt", "emptying", "removing"}
Measuring == {"mkdir", "launch", "dockerRun", "bootReceipt", "stages",
              "stageReceipt"}

\* SIGKILL, a reboot, an interrupt outside a case: the container stays.
Killed ==
  /\ pc # "idle" /\ Fault /\ Leave /\ trouble' = (trouble \/ pc \in HalfWritten)
  /\ UNCHANGED <<dirs, foreign, tried, removed, receipts, rows, server, served,
                 refused>>

\* A KeyboardInterrupt inside a case: the finally clause still runs.
Interrupt ==
  /\ pc \in Measuring /\ Fault /\ interrupted' = TRUE /\ pc' = "persist"
  /\ trouble' = (trouble \/ pc \in HalfWritten)
  /\ UNCHANGED <<dirs, foreign, tried, removed, receipts, rows, server, served, run,
                 plan, target, case, stage, safe, refused>>

\* Somebody makes a directory again that the phase has removed.
Recreate ==
  /\ \E d \in tried \ dirs : dirs' = dirs \cup {d} /\ foreign' = foreign \cup {d}
  /\ Fault /\ trouble' = TRUE
  /\ UNCHANGED <<tried, removed, receipts, rows, server, served, pc, phaseVars,
                 refused>>

RunStep ==
  \/ Start \/ Refuse \/ TeardownFirst \/ TeardownFirstFails \/ CleanNext
  \/ CleanRefused \/ CleanEnds \/ CleanFails \/ CleanOnly \/ CleanDone
  \/ BeginCase \/ CasesDone \/ BootRaises \/ MakeDir \/ SaveLaunch \/ DockerRun
  \/ SaveBootReceipt \/ ProbeStage \/ (\E ok \in BOOLEAN : SaveStageReceipt(ok))
  \/ MeasurementEnds \/ SaveMeasured \/ Teardown \/ TeardownFails \/ Remove
  \/ RemoveEnds \/ RemoveFails \/ SaveRemoved \/ SaveRow \/ Count

Next == RunStep \/ Killed \/ Interrupt \/ Recreate

Spec == Init /\ [][Next]_vars

\* The phase goes on while it can, and somebody starts it again when it ended.
FairSpec == Spec /\ WF_vars(RunStep)

-----------------------------------------------------------------------------
(* Properties.                                                             *)

\* No directory is deleted that somebody else made at the place of a removed one.
DeletesOnlyOwned == [][\A d \in dirs \ dirs' : d \notin foreign]_vars

\* While a directory is emptied no server of the phase runs: neither the one
\* that mounts it nor one a killed run left.
EmptiedWithoutServer == target # None => server = None

\* While a case is measured no directory of another server is left that a
\* lookup or the disk budget could fall on, save one that is somebody else's.
NoStaleTier ==
  pc \in {"stages", "stageReceipt"} => served \cap dirs \subseteq foreign \cup {Dir}

\* The phase refuses to recover only when a kill or an interrupt fell between a
\* receipt and its counterpart or into a deletion, a probe or a deletion failed,
\* or a removed directory is there again.
RefusalHasCause == refused => trouble

\* A row of the summary is the case's result on disk; when it says that the
\* isolation was safe the directory is gone, and when not, no case of that run
\* came after it.
RowsAreFinal ==
  \A c \in Cases : summary[c] # 0 =>
    /\ results[c].run = summary[c]
    /\ results[c].safe => <<c, summary[c]>> \notin dirs \ foreign
    /\ ~results[c].safe => \A d \in Cases : results[d].run = summary[c] => d <= c

\* However often it is killed, the phase that is started again attempts every
\* case, or refuses.
AttemptedOrRefused == <>(Missing = {} \/ refused)
=============================================================================
